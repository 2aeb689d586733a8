--------------------------- MODULE PowerSwitching ---------------------------
(***************************************************************************)
(* Power of the AOCS units: the switches, the over-current latches of the  *)
(* INA260 sensors, the monitor that reports a latched or overloaded unit,  *)
(* the event handler that resets it, and the timeline on which the power   *)
(* sequences of mode transitions and resets run side by side.              *)
(*                                                                         *)
(* One cycle runs the dispatcher of the timeline, which executes at most   *)
(* one command, then the event handler, and later the sensor and the       *)
(* monitor of one INA260.  Faults and mode transitions come between        *)
(* cycles.                                                                 *)
(***************************************************************************)
EXTENDS PowerSequences

CONSTANTS
    ResetCount,        \* reports of an over-current that lead to a reset
    ResetGap,          \* cycles without a report after which they are counted anew
    PowerOffCount,     \* resets after which a unit counts as broken
    LongestOutage,     \* cycles that a unit in use may be without supply
    LongestDelay,      \* cycles that a command may wait for the dispatcher once it is due
    BiasSpan,          \* biases of one unit that add up before the sum is refused
    Route,             \* inputs: the transitions that the flight makes
    FaultScenarios,    \* inputs: the faults that may occur, each a kind and a unit, in order
    MaxTransitions,    \* bound: number of transitions
    StartPhases        \* bound: values of idx_counter at which a transition may begin

ASSUME PowerAssumption ==
    /\ {ResetCount, ResetGap, PowerOffCount} \subseteq Nat \ {0}
    /\ {LongestOutage, LongestDelay, MaxTransitions} \subseteq Nat
    /\ LongestDelay <= OBCT_CYCLES_PER_SEC + 3
    /\ BiasSpan \in Nat \ {0}
    /\ Route \in [Mode -> SUBSET Mode]
    /\ \A m \in Mode : Route[m] \subseteq Successors[m]
    /\ FaultScenarios \subseteq Seq({"short", "overload"} \X Monitored)
    /\ StartModeManager \in [Mode -> Nat]

Sensor == {INA260_IDX[i] : i \in DOMAIN INA260_IDX}
OcRule == {"HW_OC", "SW_OC"} \X Monitored
BrokenRule == {"HW_OC_BROKEN", "SW_OC_BROKEN"} \X Monitored
BrokenOf(r) == <<IF r[1] = "HW_OC" THEN "HW_OC_BROKEN" ELSE "SW_OC_BROKEN", r[2]>>

Magnetic == {"INA260", "MPU9250", "RM3100", "MTQ"}

\* The units that the control of a mode works with.
UnitsOf ==
    [m \in Mode |->
        CASE m = "START_UP" -> {}
          [] m = "INITIAL" -> {"INA260"}
          [] m = "BDOT" -> Magnetic
          [] m \in {"ROUGH_SUN_POINTING", "ROUGH_THREE_AXIS"} -> Magnetic \cup {"NANOSSOC_D60"}
          [] m = "ROUGH_THREE_AXIS_RW" -> Magnetic \cup {"NANOSSOC_D60"} \cup Wheel
          [] m = "FINE_THREE_AXIS" ->
                 Magnetic \cup {"NANOSSOC_D60", "STIM210", "SAGITTA"} \cup Wheel]

VARIABLES
    phase,       \* "dispatch" or "events": where the cycle is
    timeline,    \* commands waiting, each with the cycles it has to go
    mode,        \* where the last transition leads
    in_progress, \* it is not finished
    powered,     \* switch_state_5v and switch_state_unreg: the units switched on
    latched,     \* the units that an INA260 has cut off
    overloaded,  \* the units that draw too much without being cut off
    logging,     \* event logger groups that are enabled
    active,      \* event handler rules that are active
    count,       \* their counters
    since,       \* cycles since the counter of a rule last went up
    events,      \* logged events the handler has not seen, by the rule they match
    initialized, \* DI_INA260_is_initialized_
    idx_counter, \* DI_INA260_idx_counter_
    sample,      \* what was last measured: may contain "low" voltage and "high" current
    gyro,        \* gyro_selector_.state: the gyro that is selected
    bias,        \* [magnetometer -> [unit -> how often its bias is added]]
    transitions, \* history: number of transitions so far
    faults,      \* history: the faults so far
    blamed,      \* history: the units that the event handler has responded to
    given_up,    \* history: the units it has switched off for good, no transition having
                 \* supplied them again since
    outage       \* history: cycles that a unit in use has been cut off, up to the bound

modes == <<mode, in_progress, transitions>>
switching == <<powered, latched, overloaded>>
handling == <<logging, active, count, since>>
sensing == <<initialized, idx_counter, sample>>
attitude == <<gyro, bias>>
history == <<faults, blamed, given_up, outage>>
vars == <<phase, timeline, modes, switching, handling, events, sensing, attitude, history>>

-----------------------------------------------------------------------------
(* The timeline and the dispatcher. *)

\* The entry to execute: the one that is due first, and of those the one deployed first.
Due(i) == timeline[i][1] <= 0
IsNext(i) ==
    /\ Due(i)
    /\ \A j \in DOMAIN timeline :
           \/ timeline[i][1] < timeline[j][1]
           \/ timeline[i][1] = timeline[j][1] /\ i <= j

Without(i) == SubSeq(timeline, 1, i - 1) \o SubSeq(timeline, i + 1, Len(timeline))

\* The unit and its sensor lose power, and a fault of it ends, when it is switched off.
\* Without power the sensors do not cut off anything.
Cmd_APP_PSC_CONTROL_PORT(c) ==
    \/ /\ c[1] = "ON"
       /\ powered' = powered \cup {c[2]}
       /\ UNCHANGED <<latched, overloaded>>
    \/ /\ c[1] = "OFF"
       /\ powered' = powered \ {c[2]}
       /\ latched' = IF c[2] = "INA260" THEN {} ELSE latched
       /\ overloaded' = overloaded \ {c[2]}

\* A sensor without power does not answer.
Cmd_DI_INA260_INIT(c) ==
    /\ c[1] = "INIT"
    /\ initialized' = IF "INA260" \in powered THEN initialized \cup {c[2]} ELSE initialized

\* Variant: the mask register is not read.
Cmd_DI_INA260_SET_OVER_CURRENT_PROTECTION_NoRead(c) ==
    /\ c[1] = "PROTECT"
    /\ latched' = latched

\* The latch is released by reading the mask register.
Cmd_DI_INA260_SET_OVER_CURRENT_PROTECTION(c) ==
    /\ c[1] = "PROTECT"
    /\ latched' = IF "INA260" \in powered THEN latched \ {c[2]} ELSE latched

Cmd_EL_LOGGING(c) ==
    \/ c[1] = "ENABLE_LOGGING" /\ logging' = logging \cup {c[2]}
    \/ c[1] = "DISABLE_LOGGING" /\ logging' = logging \ {c[2]}

\* Its counter is left as it is.
Cmd_EH_ACTIVATE_RULE(c) ==
    \/ c[1] = "ACTIVATE_RULE" /\ active' = active \cup {c[2]}
    \/ c[1] = "INACTIVATE_RULE" /\ active' = active \ {c[2]}

\* A sum too far from the default is replaced by the default.
Cmd_DI_RM3100_SET_MAG_BIAS_COMPO_NT(c) ==
    \/ /\ c[1] = "ADD_BIAS"
       /\ LET sum == bias[c[2]][c[3]] + c[4]
          IN bias' = IF sum \in (-BiasSpan)..BiasSpan
                       THEN [bias EXCEPT ![c[2]][c[3]] = sum]
                       ELSE [bias EXCEPT ![c[2]] = [u \in Biasing |-> 0]]
    \/ /\ c[1] = "CLEAR_BIAS"
       /\ bias' = [bias EXCEPT ![c[2]] = [u \in Biasing |-> 0]]

Cmd_APP_GYRO_SELECTOR_SET_STATE(c) == c[1] = "SELECT_GYRO" /\ gyro' = c[2]

\* What a command changes besides the timeline.
Execute(c) ==
    \/ /\ Cmd_APP_PSC_CONTROL_PORT(c)
       /\ UNCHANGED <<in_progress, handling, initialized, attitude>>
    \/ /\ Cmd_DI_INA260_INIT(c)
       /\ UNCHANGED <<in_progress, switching, handling, attitude>>
    \/ /\ Cmd_DI_INA260_SET_OVER_CURRENT_PROTECTION(c)
       /\ UNCHANGED <<in_progress, powered, overloaded, handling, initialized, attitude>>
    \/ /\ Cmd_EL_LOGGING(c)
       /\ UNCHANGED <<in_progress, switching, active, count, since, initialized, attitude>>
    \/ /\ Cmd_EH_ACTIVATE_RULE(c)
       /\ UNCHANGED <<in_progress, switching, logging, count, since, initialized, attitude>>
    \/ /\ Cmd_DI_RM3100_SET_MAG_BIAS_COMPO_NT(c)
       /\ UNCHANGED <<in_progress, switching, handling, initialized, gyro>>
    \/ /\ Cmd_APP_GYRO_SELECTOR_SET_STATE(c)
       /\ UNCHANGED <<in_progress, switching, handling, initialized, bias>>
    \/ /\ c = FinishTransition
       /\ in_progress' = FALSE
       /\ UNCHANGED <<switching, handling, initialized, attitude>>
    \/ /\ c[1] = "DEPLOY" \/ c = OwnCommand
       /\ UNCHANGED <<in_progress, switching, handling, initialized, attitude>>

TLC_DISPATCHER_BC ==
    /\ phase = "dispatch"
    /\ phase' = "events"
    /\ \/ /\ \A i \in DOMAIN timeline : ~Due(i)
          /\ UNCHANGED <<timeline, in_progress, switching, handling, initialized, attitude>>
       \/ \E i \in DOMAIN timeline :
              /\ IsNext(i)
              /\ Execute(timeline[i][2])
              /\ timeline' = Without(i) \o (IF timeline[i][2][1] = "DEPLOY"
                                              THEN Block(timeline[i][2][2]) ELSE << >>)
    /\ UNCHANGED <<mode, transitions, events, idx_counter, sample, history>>

-----------------------------------------------------------------------------
(* The event handler. *)

\* The reports must follow each other closely.
Count(r) == IF since[r] > ResetGap THEN 1 ELSE count[r] + 1

\* Variant: the unit is reset besides.
Response_Both(u, matched, broken) ==
    (IF broken THEN Block(<<"OFF", u>>) ELSE << >>)
        \o (IF matched THEN Block(<<"RESET", u>>) ELSE << >>)

Response(u, matched, broken) ==
    IF broken THEN Block(<<"OFF", u>>)
    ELSE IF matched THEN Block(<<"RESET", u>>) ELSE << >>

\* The transition in progress will switch the unit on, or off and on.
WillBeSupplied(u) ==
    in_progress /\ \E i \in DOMAIN timeline : timeline[i][2] \in {On(u), Reset(u)}

\* The handler takes an event.  Enough of them are matched by a reset of the unit; the
\* resets are counted by a multi-level rule, which in the end switches the unit off instead.
EVENT_UTILITY ==
    /\ phase = "events"
    /\ events # << >>
    /\ events' = Tail(events)
    /\ LET r == Head(events)
           matched == r \in active /\ Count(r) >= ResetCount
           counted == matched /\ BrokenOf(r) \in active
           broken == counted /\ count[BrokenOf(r)] + 1 >= PowerOffCount
       IN /\ since' = IF r \in active THEN [since EXCEPT ![r] = 0] ELSE since
          /\ count' = [count EXCEPT
                         ![r] = IF matched THEN 0 ELSE IF r \in active THEN Count(r) ELSE @,
                         ![BrokenOf(r)] = IF broken THEN 0 ELSE IF counted THEN @ + 1 ELSE @]
          /\ timeline' = timeline \o Response(r[2], matched, broken)
          /\ blamed' = IF matched THEN blamed \cup {r[2]} ELSE blamed
          /\ given_up' = IF broken /\ ~WillBeSupplied(r[2])
                             THEN given_up \cup {r[2]} ELSE given_up
    /\ UNCHANGED <<phase, modes, switching, logging, active, sensing, attitude, faults,
                   outage>>

-----------------------------------------------------------------------------
(* The sensors and their monitor. *)

Supplied(u) == u \in powered /\ u \notin latched

Measured(s) ==
    IF s = "PIC" THEN {}
    ELSE (IF Supplied(s) THEN {} ELSE {"low"})
             \cup (IF Supplied(s) /\ s \in overloaded THEN {"high"} ELSE {})

\* The sensor to read, and after the update the one to judge.
Current == INA260_IDX[idx_counter + 1]

DI_INA260_update ==
    IF "INA260" \notin powered
      THEN /\ initialized' = {}
           /\ UNCHANGED <<idx_counter, sample>>
      ELSE /\ sample' = IF Current \in initialized
                          THEN [sample EXCEPT ![Current] = Measured(Current)] ELSE sample
           /\ idx_counter' = (idx_counter + 1) % Len(INA260_IDX)
           /\ UNCHANGED initialized

\* A switched-on unit is reported, if reports of that kind are logged.  There is no rule
\* for the PIC.
Report(s, sign, kind, seen) ==
    IF s \in powered /\ sign \in seen /\ <<kind>> \in logging
      THEN << <<kind, s>> >> ELSE << >>

\* Variant: the measurement is that of the sensor read last.
Reports_OtherSensor(s) ==
    Report(s, "low", "HW_OC", sample'[Current]) \o Report(s, "high", "SW_OC", sample'[Current])

Reports(s) ==
    Report(s, "low", "HW_OC", sample'[s]) \o Report(s, "high", "SW_OC", sample'[s])

APP_CURRENT_ANOMALY_exec_ == events' = Reports(INA260_IDX[idx_counter' + 1])

\* The timeline and the counters of the event handler advance by a cycle.
Tick ==
    /\ timeline' = [i \in DOMAIN timeline |-> <<timeline[i][1] - 1, timeline[i][2]>>]
    /\ since' = [r \in OcRule |-> IF since[r] > ResetGap THEN since[r] ELSE since[r] + 1]

\* The control of the mode works with the unit.
InUse(u) == u \in UnitsOf[mode] /\ u \notin given_up

BASIC_SENSOR_UPDATE ==
    /\ phase = "events"
    /\ events = << >>
    /\ phase' = "dispatch"
    /\ DI_INA260_update
    /\ APP_CURRENT_ANOMALY_exec_
    /\ Tick
    /\ outage' = IF \E u \in latched : InUse(u)
                    THEN (IF outage > LongestOutage THEN outage ELSE outage + 1) ELSE 0
    /\ UNCHANGED <<modes, switching, logging, active, count, attitude, faults, blamed,
                   given_up>>

-----------------------------------------------------------------------------
(* Faults and transitions. *)

\* The supply of a unit is cut off, or it draws too much.  It makes no difference until
\* its sensor is read: the fault comes right before.
Fault(kind, u) ==
    /\ phase = "dispatch"
    /\ \E scenario \in FaultScenarios :
           /\ Len(faults) < Len(scenario)
           /\ faults = SubSeq(scenario, 1, Len(faults))
           /\ <<kind, u>> = scenario[Len(faults) + 1]
    /\ Current = u
    /\ Supplied(u)
    /\ u \notin overloaded
    /\ \/ /\ kind = "short"
          /\ "INA260" \in powered
          /\ latched' = latched \cup {u}
          /\ UNCHANGED overloaded
       \/ /\ kind = "overload"
          /\ overloaded' = overloaded \cup {u}
          /\ UNCHANGED latched
    /\ faults' = Append(faults, <<kind, u>>)
    /\ UNCHANGED <<phase, timeline, modes, powered, handling, events, sensing, attitude,
                   blamed, given_up, outage>>

\* The units that a transition switches on, or off and on.
SwitchedOn(m, n) ==
    {u \in Monitored : \E i \in DOMAIN Transition(m, n) :
                           Transition(m, n)[i][2] \in {On(u), Reset(u)}}

\* A transition must be finished before the next one begins.
StartTransition(m) ==
    /\ phase = "dispatch"
    /\ ~in_progress
    /\ transitions < MaxTransitions
    /\ idx_counter \in StartPhases
    /\ m \in Route[mode]
    /\ transitions' = transitions + 1
    /\ mode' = m
    /\ in_progress' = TRUE
    /\ timeline' = timeline \o Transition(mode, m)
    /\ given_up' = given_up \ SwitchedOn(mode, m)
    /\ UNCHANGED <<phase, switching, handling, events, sensing, attitude, faults, blamed, outage>>

Init ==
    /\ phase = "dispatch"
    /\ timeline = << >>
    /\ mode = "START_UP"
    /\ in_progress = FALSE
    /\ powered = {}
    /\ latched = {}
    /\ overloaded = {}
    /\ logging = {}
    /\ active = {}
    /\ count = [r \in OcRule \cup BrokenRule |-> 0]
    /\ since = [r \in OcRule |-> ResetGap + 1]
    /\ events = << >>
    /\ initialized = {}
    /\ idx_counter = 0
    /\ sample = [s \in Sensor |-> {"low"}]
    /\ gyro = "MPU9250"
    /\ bias = [m \in Mag |-> [u \in Biasing |-> 0]]
    /\ transitions = 0
    /\ faults = << >>
    /\ blamed = {}
    /\ given_up = {}
    /\ outage = 0

Next ==
    \/ TLC_DISPATCHER_BC
    \/ EVENT_UTILITY
    \/ BASIC_SENSOR_UPDATE
    \/ \E kind \in {"short", "overload"}, u \in Monitored : Fault(kind, u)
    \/ \E m \in Mode : StartTransition(m)

Spec == Init /\ [][Next]_vars

-----------------------------------------------------------------------------
(* What the properties say things about. *)

\* No command waits that switches or watches a unit.
Settled == events = << >> /\ \A i \in DOMAIN timeline : timeline[i][2] = OwnCommand

Elements(seq) == {seq[i] : i \in DOMAIN seq}

\* What watches a unit while it is on.
RulesOf(u) ==
    Elements(CASE u \in Wheel -> RwRules(u)
               [] u = "RM3100" -> Rm3100Rules
               [] u = "MPU9250" -> <<TlmError(u)>>
               [] u = "MTQ" -> OcRules(u)
               [] u = "NANOSSOC_D60" -> SunSensorRules
               [] u = "OEM7600" -> Oem7600Rules
               [] u = "SAGITTA" -> SagittaRules
               [] u = "STIM210" -> Stim210Rules
               [] u = "INA260" -> Ina260Rules)

GroupsOf(u) ==
    Elements(CASE u \in Wheel -> RwGroups(u)
               [] u = "RM3100" -> Rm3100Groups
               [] u = "MPU9250" -> Mpu9250Groups
               [] u = "MTQ" -> << >>
               [] u = "NANOSSOC_D60" -> SunSensorGroups
               [] u = "OEM7600" -> Oem7600Groups
               [] u = "SAGITTA" -> SagittaGroups
               [] u = "STIM210" -> Stim210Groups
               [] u = "INA260" -> Ina260Groups)

\* The units that may be on besides those of the mode.
SpareOf(m) == IF m = "INITIAL" THEN {"MPU9250", "RM3100"} ELSE {}

\* Whether a command puts an end to the time without over-current reports: it enables
\* them, it deploys a block that does, or it switches the sensors off.
Ends0(c) == c \in {EnableLogging(HwOc), PowerOff("INA260")}
DeploysAny(Ends(_), c) ==
    c[1] = "DEPLOY" /\ \E i \in DOMAIN Block(c[2]) : Ends(Block(c[2])[i][2])
Ends1(c) == Ends0(c) \/ DeploysAny(Ends0, c)
EndsMasking(c) == Ends1(c) \/ DeploysAny(Ends1, c)

-----------------------------------------------------------------------------
(* Properties. *)

TypeOK ==
    /\ phase \in {"dispatch", "events"}
    /\ \A i \in DOMAIN timeline : timeline[i][1] \in Int /\ timeline[i][2] \in Command
    /\ mode \in Mode
    /\ in_progress \in BOOLEAN
    /\ powered \subseteq Unit
    /\ latched \cup overloaded \cup blamed \cup given_up \subseteq Monitored
    /\ logging \subseteq Group
    /\ active \subseteq RuleName
    /\ count \in [OcRule \cup BrokenRule -> Nat]
    /\ since \in [OcRule -> 0..(ResetGap + 1)]
    /\ events \in Seq(OcRule)
    /\ initialized \subseteq Sensor
    /\ idx_counter \in 0..(Len(INA260_IDX) - 1)
    /\ sample \in [Sensor -> SUBSET {"low", "high"}]
    /\ gyro \in {"MPU9250", "STIM210"}
    /\ bias \in [Mag -> [Biasing -> (-BiasSpan)..BiasSpan]]
    /\ transitions \in 0..MaxTransitions
    /\ faults \in Seq({"short", "overload"} \X Monitored)
    /\ outage \in 0..(LongestOutage + 1)

\* Every power sequence disables the one event group of over-current reports while its
\* unit draws its inrush current; whatever sequences run side by side, the group does not
\* stay disabled while the sensors are on: a command that ends this is on its way.
MaskingEnds ==
    "INA260" \in powered /\ HwOc \notin logging =>
        \E i \in DOMAIN timeline : EndsMasking(timeline[i][2])

\* No command waits for the dispatcher, which executes one in a cycle, longer than this.
Timely == \A i \in DOMAIN timeline : timeline[i][1] >= -LongestDelay

\* When no sequence runs, each unit that is on is watched by all of its rules and event
\* groups, whatever faults and resets there were; and a unit that is off is watched by
\* none of them, unless the event handler has interfered with its sequences.
WatchedAsPowered ==
    Settled =>
        /\ \A u \in powered : RulesOf(u) \subseteq active /\ GroupsOf(u) \subseteq logging
        /\ \A u \in Unit \ (powered \cup blamed) :
               RulesOf(u) \cap active = {} /\ GroupsOf(u) \cap logging = {}

\* A finished transition has switched on what the control of the mode works with, and
\* switched off everything else: its waits are long enough for its sequences.  Only a unit
\* that the event handler has reset or given up may differ.
PoweredAsMode ==
    ~in_progress =>
        /\ UnitsOf[mode] \ blamed \subseteq powered
        /\ powered \subseteq UnitsOf[mode] \cup SpareOf(mode) \cup blamed

\* The event handler resets only units that a fault has hit: neither an old measurement
\* nor one of a unit that is off makes it reset a sound unit.
OnlyFaultyAreReset == blamed \subseteq {faults[i][2] : i \in DOMAIN faults}

\* When no sequence runs, the bias of the external magnetometer, the one that B-dot
\* starts with, is that of the units that are on.
ExternalBiasMatches ==
    Settled /\ blamed = {} =>
        \A u \in Biasing : bias["EXTERNAL"][u] = IF u \in powered THEN 1 ELSE 0

\* When all sequences have ended, the units of the mode that are off are those given up:
\* no earlier reset switches one on again, until a transition does, and every other unit
\* in use has come back from its resets.
GivenUpIsOff ==
    Settled => /\ given_up \cap powered = {}
               /\ UnitsOf[mode] \ given_up \subseteq powered

\* The good gyro is selected only while it is on, in the middle of a transition as well, and
\* it is selected once the fine control has begun.
SelectedGyroIsOn ==
    "STIM210" \notin blamed =>
        /\ gyro = "STIM210" => "STIM210" \in powered
        /\ ~in_progress /\ mode = "FINE_THREE_AXIS" => gyro = "STIM210"

\* Sequences that run side by side do not hold each other's commands up for long, and a
\* unit in use that was cut off is supplied again soon: the report is neither lost while
\* reports are disabled nor spoilt by the sequences of a transition.
OutageIsShort == Timely /\ outage <= LongestOutage
=============================================================================
