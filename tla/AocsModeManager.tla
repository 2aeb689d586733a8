-------------------------- MODULE AocsModeManager --------------------------
(***************************************************************************)
(* Automatic mode transitions of the AOCS.  In every cycle the manager of  *)
(* the current task list judges how well the attitude is controlled and    *)
(* asks for a transition when a condition has held for long enough.  The   *)
(* request is a real-time command of the next cycle.  A transition puts a  *)
(* block of timed commands on a timeline: most of them switch the judging  *)
(* off, finish the transition and, after a time to converge, switch the    *)
(* judging on again.                                                       *)
(*                                                                         *)
(* One cycle: ground commands, then the real-time command, then the timed  *)
(* commands that are due, then the manager.  Time is counted in cycles.    *)
(***************************************************************************)
EXTENDS AocsModeTransitions

CONSTANTS
    LimitDiffTime,  \* time steps of at least this length are not counted
    ConvTime,       \* how long the angular velocity must be small
    PeriodTime,     \* how often the angular velocity is checked for an increase
    SunDivTime,     \* how long the sun pointing error may be large
    DivTime,        \* [limit -> how long the three axis error may be large]
    SunLossTime,    \* how long the sun may be invisible
    SttLossTime,    \* how long the star tracker may be unavailable
    GroundSwitches, \* inputs: whether ground enables or disables the judging
    GroundModes     \* inputs: modes that ground asks for

None == "NONE"

ASSUME ModeAssumption ==
    /\ LimitDiffTime \in Nat \ {0, 1}
    /\ {ConvTime, PeriodTime, SunDivTime, SunLossTime, SttLossTime} \subseteq Nat
    /\ DivTime \in [Limit -> Nat]
    /\ GroundSwitches \subseteq BOOLEAN
    /\ GroundModes \subseteq Mode

VARIABLES
    mode,                            \* mode_manager->current_id
    in_progress,                     \* mode_manager->stat is IN_PROGRESS
    task_list,                       \* the mode whose task list runs in this cycle
    phase,                           \* "ground" or "timeline": where the cycle is
    timeline,                        \* entries <<cycles to go, command, overtaken>>
    request,                         \* the mode that the manager has asked for, or None
    is_enabled_auto_mode_transition,
    ang_vel_conv_judge_counter,
    ang_div_judge_counter,
    sensor_error_judge_counter,
    ang_vel_update_timing,           \* time since the angular velocity was last checked
    ang_vel_prev_known,              \* there is a value of then to compare with
    three_axis_limit,                \* the three axis limits in use
    since_judged,                    \* cycles since previous_obc_time, up to LimitDiffTime
    judged_in,                       \* history: the mode that the request was judged in
    converging,                      \* history: between AUTO_OFF and AUTO_ON of a transition
    ground_off,                      \* history: it was ground that switched the judging off
    converged,                       \* history: what the manager last saw of the angular velocity
    diverged                         \* history: and of the pointing error

modes == <<mode, in_progress, task_list>>
counters == <<ang_vel_conv_judge_counter, ang_div_judge_counter, sensor_error_judge_counter>>
norm == <<ang_vel_update_timing, ang_vel_prev_known>>
seen == <<converged, diverged>>
vars == <<modes, phase, timeline, request, is_enabled_auto_mode_transition, counters, norm,
          three_axis_limit, since_judged, judged_in, converging, ground_off, seen>>

AtMost(cap, n) == IF n > cap THEN cap ELSE n

-----------------------------------------------------------------------------
(* The mode manager of c2a-core. *)

\* A new transition: the timed commands of its block join those of earlier ones, which
\* are overtaken if the new transition, too, waits for an AUTO_ON.
Begin(m) ==
    LET waits == \E b \in Block(mode, m) : b[2] = "AUTO_ON"
    IN /\ mode' = m
       /\ in_progress' = TRUE
       /\ timeline' = {<<e[1], e[2], e[3] \/ waits>> : e \in timeline}
                         \cup {<<b[1], b[2], FALSE>> : b \in Block(mode, m)}
       /\ converging' = (converging /\ ~waits)

\* Variant: a transition may begin during another one.
Possible_Anytime(m) == m \in Successors[mode]

\* A transition that is not in the table, or that comes during another one, is refused.
Possible(m) == ~in_progress /\ m \in Successors[mode]

\* Cmd_MM_START_TRANSITION from ground.
GroundTransition(m) ==
    /\ phase = "ground"
    /\ Possible(m)
    /\ Begin(m)
    /\ UNCHANGED <<task_list, phase, request, is_enabled_auto_mode_transition, counters, norm,
                   three_axis_limit, since_judged, judged_in, ground_off, seen>>

\* Cmd_APP_AOCS_MM_SET_AUTO_MODE_TRANSITION from ground.
GroundSwitch(enable) ==
    /\ phase = "ground"
    /\ is_enabled_auto_mode_transition' = enable
    /\ ground_off' = ~enable
    /\ converging' = (converging /\ ~enable)
    /\ UNCHANGED <<modes, phase, timeline, request, counters, norm, three_axis_limit,
                   since_judged, judged_in, seen>>

\* The real-time command: Cmd_MM_START_TRANSITION with the request of the last cycle.
Dispatch ==
    /\ phase = "ground"
    /\ phase' = "timeline"
    /\ request' = None
    /\ IF request # None /\ Possible(request)
         THEN Begin(request)
         ELSE UNCHANGED <<mode, in_progress, timeline, converging>>
    /\ UNCHANGED <<task_list, is_enabled_auto_mode_transition, counters, norm,
                   three_axis_limit, since_judged, judged_in, ground_off, seen>>

Due == {e \in timeline : e[1] <= 0}

\* A timed command.
Timed(e) ==
    /\ phase = "timeline"
    /\ e \in Due
    /\ timeline' = timeline \ {e}
    /\ in_progress' = (in_progress /\ e[2] # "FINISH")
    /\ is_enabled_auto_mode_transition' =
          CASE e[2] = "AUTO_OFF" -> FALSE
            [] e[2] = "AUTO_ON" -> TRUE
            [] OTHER -> is_enabled_auto_mode_transition
    /\ ground_off' = (ground_off /\ e[2] \notin {"AUTO_OFF", "AUTO_ON"})
    /\ converging' = CASE e[2] = "AUTO_OFF" -> TRUE
                       [] e[2] = "AUTO_ON" /\ ~e[3] -> FALSE
                       [] OTHER -> converging
    /\ three_axis_limit' = IF e[2] \in Limit THEN e[2] ELSE three_axis_limit
    /\ UNCHANGED <<mode, task_list, phase, request, counters, norm, since_judged, judged_in,
                   seen>>

-----------------------------------------------------------------------------
(* The manager. *)

\* APP_AOCS_MM_judge_condition_: how long a condition has held.  Only whether the
\* counter is above the limit matters, so it stops there.
Judged(condition, counter, limit) ==
    CASE ~condition -> 0
      [] condition /\ since_judged < LimitDiffTime -> AtMost(limit + 1, counter + since_judged)
      [] OTHER -> counter

\* APP_AOCS_MM_change_mode_, when the counters are conv, div and sensor.  A request
\* during a transition is dropped.
ChangeMode(wanted, conv, div, sensor) ==
    LET now == wanted # None /\ ~in_progress
    IN /\ request' = IF now THEN wanted ELSE None
       /\ judged_in' = mode
       /\ ang_vel_conv_judge_counter' = IF now THEN 0 ELSE conv
       /\ ang_div_judge_counter' = IF now THEN 0 ELSE div
       /\ sensor_error_judge_counter' = IF now THEN 0 ELSE sensor

\* The end of a cycle, d cycles after previous_obc_time.
EndCycle(d) ==
    /\ phase = "timeline"
    /\ Due = {}
    /\ phase' = "ground"
    /\ task_list' = mode
    /\ timeline' = {<<e[1] - 1, e[2], e[3]>> : e \in timeline}
    /\ since_judged' = AtMost(LimitDiffTime, d + 1)
    /\ UNCHANGED <<mode, in_progress, is_enabled_auto_mode_transition, three_axis_limit,
                   converging, ground_off>>

\* The manager of each task list, and the modes in which it judges.
JudgedModes == [m \in Mode |-> CASE m = "INITIAL" -> {}
                                 [] m \in RoughModes -> RoughModes
                                 [] OTHER -> {m}]
IsJudging == is_enabled_auto_mode_transition /\ mode \in JudgedModes[task_list]

\* The manager has nothing to do or returns at once.
Idle ==
    /\ ~IsJudging
    /\ UNCHANGED <<request, counters, norm, judged_in, seen>>
    /\ EndCycle(since_judged)

\* Variant: previous_obc_time is not updated.
AfterJudging_Missing == since_judged

\* The manager sets previous_obc_time to the current time.
AfterJudging == 0

\* APP_AOCS_MM_bdot_exec_ when the angular velocity is found small or not (slow) and,
\* where it is compared with the last one, much larger or not (faster).
BdotExec(slow, faster) ==
    LET conv == Judged(slow, ang_vel_conv_judge_counter, ConvTime)
        is_conv == conv > ConvTime
        check == ang_vel_update_timing >= PeriodTime
        steady == since_judged < LimitDiffTime
    IN /\ IsJudging
       /\ task_list = "BDOT"
       /\ ChangeMode(CASE is_conv -> "ROUGH_SUN_POINTING"
                       [] ~is_conv /\ check /\ ang_vel_prev_known /\ faster -> "INITIAL"
                       [] OTHER -> None,
                     conv, ang_div_judge_counter, sensor_error_judge_counter)
       /\ IF is_conv
            THEN UNCHANGED norm
            ELSE /\ ang_vel_update_timing' =
                      CASE check -> 0
                        [] ~check /\ steady -> ang_vel_update_timing + since_judged
                        [] OTHER -> ang_vel_update_timing
                 /\ ang_vel_prev_known' = (ang_vel_prev_known \/ check \/ ~steady)
       /\ EndCycle(IF is_conv THEN since_judged ELSE AfterJudging)
       /\ converged' = slow
       /\ UNCHANGED diverged

FallbackMode == "BDOT"

\* The part that APP_AOCS_MM_sun_pointing_exec_, _rough_three_axis_exec_ and
\* _fine_three_axis_exec_ have in common: the error is large or not, and the sensor
\* sees or not, with the limits of the mode.
PointingExec(large, blind, div_limit, loss_limit) ==
    LET div == Judged(large, ang_div_judge_counter, div_limit)
        sensor == Judged(blind, sensor_error_judge_counter, loss_limit)
    IN /\ IsJudging
       /\ ChangeMode(IF div > div_limit \/ sensor > loss_limit THEN FallbackMode ELSE None,
                     ang_vel_conv_judge_counter, div, sensor)
       /\ EndCycle(AfterJudging)
       /\ diverged' = large
       /\ UNCHANGED <<norm, converged>>

SunPointingExec(large, blind) ==
    /\ task_list = "ROUGH_SUN_POINTING"
    /\ PointingExec(large, blind, SunDivTime, SunLossTime)

RoughThreeAxisExec(large, blind) ==
    /\ task_list \in RoughModes
    /\ PointingExec(large, blind, DivTime[three_axis_limit], SunLossTime)

FineThreeAxisExec(large, blind) ==
    /\ task_list = "FINE_THREE_AXIS"
    /\ PointingExec(large, blind, DivTime[three_axis_limit], SttLossTime)

-----------------------------------------------------------------------------
\* APP_AOCS_MM_init_, at the end of the start-up transition.
Init ==
    /\ mode = "INITIAL"
    /\ in_progress = FALSE
    /\ task_list = "INITIAL"
    /\ phase = "ground"
    /\ timeline = {}
    /\ request = None
    /\ is_enabled_auto_mode_transition = TRUE
    /\ ang_vel_conv_judge_counter = 0
    /\ ang_div_judge_counter = 0
    /\ sensor_error_judge_counter = 0
    /\ ang_vel_update_timing = 0
    /\ ang_vel_prev_known = FALSE
    /\ three_axis_limit = "MTQ"
    /\ since_judged = LimitDiffTime
    /\ judged_in = "INITIAL"
    /\ converging = FALSE
    /\ ground_off = FALSE
    /\ converged = FALSE
    /\ diverged = FALSE

Ground ==
    \/ \E m \in GroundModes : GroundTransition(m)
    \/ \E enable \in GroundSwitches : GroundSwitch(enable)

Manager ==
    \/ Idle
    \/ \E slow, faster \in BOOLEAN : BdotExec(slow, faster)
    \/ \E large, blind \in BOOLEAN :
          \/ SunPointingExec(large, blind)
          \/ RoughThreeAxisExec(large, blind)
          \/ FineThreeAxisExec(large, blind)

Cycle == Dispatch \/ (\E e \in timeline : Timed(e)) \/ Manager

Next == Ground \/ Cycle

Spec == Init /\ [][Next]_vars

\* The task list runs in every cycle.
FairSpec == Spec /\ WF_vars(Cycle)

-----------------------------------------------------------------------------
(* Properties. *)

\* Every variable keeps its type; in particular no timed command is missed.
TypeOK ==
    /\ {mode, task_list, judged_in} \subseteq Mode
    /\ {in_progress, is_enabled_auto_mode_transition, ang_vel_prev_known, converging,
        ground_off, converged, diverged} \subseteq BOOLEAN
    /\ phase \in {"ground", "timeline"}
    /\ timeline \subseteq Nat \X Command \X BOOLEAN
    /\ request \in Mode \cup {None}
    /\ {ang_vel_conv_judge_counter, ang_div_judge_counter, sensor_error_judge_counter,
        ang_vel_update_timing} \subseteq Nat
    /\ three_axis_limit \in Limit
    /\ since_judged \in 0 .. LimitDiffTime

\* A mode that the manager asks for is one that the transition table
\* (mode_definitions.c) leads to from the mode in which it was judged, so that a
\* request is never refused for want of a transition.
RequestsAreDefined == request # None => request \in Successors[judged_in]

\* A request takes effect in the mode in which it was judged, or not at all, although
\* ground may change the mode between the request and its execution.
JudgedModeIsLeft == [][Dispatch /\ mode' # mode => mode = judged_in]_vars

\* aocs_mode_manager.c:204: "after a transition it is to stay disabled until the
\* control has converged".  Unless ground switches it on, it is off from AUTO_OFF of
\* a transition until AUTO_ON of the same transition.
OffUntilConverged == converging => ~is_enabled_auto_mode_transition

\* Fault detection is not left off: unless ground switched it off, it is on or will be
\* switched on by a command that is already on the timeline, even if transitions overtake
\* each other.
NotLeftOff ==
    \/ is_enabled_auto_mode_transition
    \/ ground_off
    \/ \E e \in timeline : e[2] = "AUTO_ON"

\* Errors of a three axis mode are judged by the limits of that mode once the
\* transition to it is over.
LimitsOfMode ==
    ~in_progress /\ mode \in DOMAIN LimitOf => three_axis_limit = LimitOf[mode]

\* What is judged is acted on: if ground does not interfere, the judging cannot be enabled
\* for ever while every judgement in a pointing mode finds a large error, and every one in
\* BDOT a small angular velocity.
JudgementIsActedOn ==
    <>[][~Ground]_vars =>
        ~<>[](/\ is_enabled_auto_mode_transition
              /\ \/ mode \in PointingModes /\ diverged
                 \/ mode = "BDOT" /\ converged)

-----------------------------------------------------------------------------
(* The inductive invariant. *)

\* The mode that a request was judged in is still there, or has been left by a
\* transition that is in progress.
RequestIsCurrent ==
    /\ request # None => RequestsAreDefined /\ (judged_in = mode \/ in_progress)
    /\ phase = "timeline" => request = None

\* Every AUTO_OFF is followed by an AUTO_ON.
OffIsFollowed ==
    \A e \in timeline : e[2] = "AUTO_OFF" =>
        \E f \in timeline : f[2] = "AUTO_ON" /\ e[1] < f[1]

\* A transition in progress finishes once.
OneFinish ==
    \A e \in timeline : e[2] = "FINISH" =>
        in_progress /\ \A f \in timeline : f[2] = "FINISH" => f = e

\* A transition sets the limits of its mode, and no others, before it is over.
LimitsInTime ==
    /\ \A e \in timeline : e[2] \in Limit =>
          /\ in_progress
          /\ mode \in DOMAIN LimitOf
          /\ e[2] = LimitOf[mode]
          /\ \A f \in timeline : f[2] = "FINISH" => e[1] < f[1]
    /\ mode \in DOMAIN LimitOf =>
          \/ three_axis_limit = LimitOf[mode]
          \/ \E e \in timeline : e[2] = LimitOf[mode]

IInv ==
    /\ TypeOK
    /\ RequestIsCurrent
    /\ OffIsFollowed
    /\ NotLeftOff
    /\ OneFinish
    /\ LimitsInTime
=============================================================================
