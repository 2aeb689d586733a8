----------------------- MODULE AttitudeDetermination -----------------------
(***************************************************************************)
(* How the attitude is determined: by the rough determination from sun and *)
(* magnetic field, by the star tracker behind its selector and its filter, *)
(* and by the Kalman filter; each propagates the estimate of the manager,  *)
(* which they share, when its sensor has nothing to say.                   *)
(*                                                                         *)
(* The body turns about one axis by one unit a cycle, and the gyro is      *)
(* right.  An attitude is kept as its error, how far it is ahead of the    *)
(* true one: whatever is not propagated falls behind by one in each cycle, *)
(* and an error beyond Far stays there.  What is wrong for another reason  *)
(* lies behind as well, so that what is ahead was propagated twice.        *)
(* A time step is a number of cycles.                                      *)
(*                                                                         *)
(* A quaternion and its negative are the same attitude, and nothing fixes  *)
(* which one is used: the sign is kept as far as the filter of the star    *)
(* tracker depends on it, as whether its two quaternions have opposite     *)
(* signs.                                                                  *)
(***************************************************************************)
EXTENDS AocsModeTransitions, Sequences, SpikeFilter

CONSTANTS
    obct_diff_max_limit,   \* longer time steps are skipped
    AcceptableMaxTimeStep, \* the Kalman filter starts again after longer time steps
    Far,                   \* the largest error that is told apart
    FullTurn,              \* the angle of one turn
    WrongErrors,           \* errors of solutions that are wrong: they lie behind
    SettleCycles,          \* good solutions until the estimate is right
    RtadParams,            \* settings of the rough determination that may be commanded
    EkfParams,             \* parameters for using the Kalman filter that may be commanded
    Scenarios              \* what a behaviour may have: solutions that turn their sign, the filter

RtadSettings == [method : {"TRIAD", "Q_METHOD"}, propagation : {"QUATERNION", "SUN_VECTOR"}]

ASSUME AttitudeAssumption ==
    /\ obct_diff_max_limit \in Nat \ {0}
    /\ AcceptableMaxTimeStep \in Nat \ {0}
    /\ Far \in Nat \ {0}
    /\ FullTurn \in Nat
    /\ 2 * Far <= FullTurn
    /\ WrongErrors \subseteq -Far .. -1
    /\ SettleCycles \in Nat
    /\ RtadParams \subseteq RtadSettings
    /\ EkfParams \subseteq 0 .. 2
    /\ Scenarios \subseteq SUBSET {"TURN", "EKF"}
    \* The longest time step that is not skipped is shorter than the transition to BDOT.
    /\ SetupTime["BDOT"] >= obct_diff_max_limit

Error == -Far .. Far

Clip(e) == IF e < -Far THEN -Far ELSE IF e > Far THEN Far ELSE e

Min2(m, n) == IF m < n THEN m ELSE n

\* The entries of the task lists that determine the attitude.
TaskList ==
    [m \in Mode |->
        CASE m = "INITIAL" -> <<"STT_UPDATE">>
          [] m = "BDOT" -> << >>
          [] m \in {"ROUGH_SUN_POINTING", "ROUGH_THREE_AXIS"} -> <<"RTAD">>
          [] m = "ROUGH_THREE_AXIS_RW" -> <<"RTAD", "DI_SAGITTA">>
          [] m = "FINE_THREE_AXIS" -> <<"STT_UPDATE", "FTAD">>]

\* The apps that measure the time since their last run.
TimedApp == {"RTAD", "FTAD"}

VARIABLES
    scenario,      \* which of them this behaviour has
    mode,
    stay,          \* cycles in the mode, up to the length of the transition to it
    next,          \* the next entry of the task list
    since,         \* cycles since the last run of an app
    stt,           \* the driver of the star tracker
    stt_available, \* aocs_manager->stt_availability
    q_est,         \* aocs_manager->quaternion_est_i2b
    q_filtered,    \* sagitta_filter_.q_i2b_filtered
    spike,         \* the spike filter of the star tracker
    filter_ok,     \* sagitta_filter_.q_i2b_filter_error
    opposite,      \* q_filtered and the quaternion in the driver have opposite signs
    rtad,          \* settings of the rough determination
    method,        \* of the fine determination
    use_ekf,       \* use_ekf_estimated_attitude
    ekf,           \* estimated_result of the Kalman filter
    good,          \* history: good solutions in a row
    faulty,        \* history: cycles since the last of enough good solutions
    undisturbed,   \* history: nothing wrong or old has been taken since the last fix
    sound          \* history: all that the Kalman filter has taken was right

drivers == <<stt, stt_available>>
filter == <<q_filtered, spike, filter_ok, opposite>>
settings == <<rtad, method, use_ekf>>
trust == <<good, faulty, undisturbed>>
place == <<mode, stay, next>>
vars == <<scenario, place, since, drivers, q_est, filter, settings, ekf, trust, sound>>

Running(entry) == next <= Len(TaskList[mode]) /\ TaskList[mode][next] = entry
GoOn == next' = next + 1 /\ UNCHANGED <<scenario, mode, stay>>

-----------------------------------------------------------------------------
(* The star tracker. *)

\* What may have come from the star tracker when its driver looks: nothing, or nothing
\* legible; a solution, which may be wrong or say that it is none; telemetry of another kind,
\* or a solution that says it is valid but cannot be used.
Solution == [valid : BOOLEAN, q : {0} \cup WrongErrors, number : {TRUE}, moved : {TRUE}]

Received(s) ==
    {s} \cup Solution
        \cup [valid : {FALSE}, q : {-Far}, number : {FALSE}, moved : {TRUE}]
        \cup [valid : {s.valid, TRUE}, q : {s.q}, number : {s.number}, moved : {TRUE}]

\* A solution may come with either sign.  The sign of a quaternion that is not valid is not
\* followed: it may be either when it becomes valid.
SignMayChange ==
    /\ "TURN" \in scenario
    /\ stt'.valid
    /\ stt' \in Solution \/ ~stt.valid

\* The star tracker may be off at any time.
DI_SAGITTA_update(s) == Received(s) \cup {[s EXCEPT !.valid = FALSE]}

DI_SAGITTA ==
    /\ Running("DI_SAGITTA")
    /\ GoOn
    /\ stt' \in DI_SAGITTA_update(stt)
    /\ opposite' \in IF SignMayChange THEN BOOLEAN ELSE {opposite /\ stt'.valid}
    /\ UNCHANGED <<since, stt_available, q_est, q_filtered, spike, filter_ok, settings, ekf>>
    /\ UNCHANGED <<trust, sound>>

\* The separation angle is twice the arc tangent of the vector part over the scalar part of the
\* difference, whose sign is not fixed: the same attitude with the other sign is a full turn
\* away, or not at all when the vector part vanishes.
SeparationAngles(obs, opposed) ==
    IF ~obs.number THEN {NotANumber}
    ELSE IF ~opposed THEN {Distance(q_filtered, obs.q)}
    ELSE {FullTurn - Distance(q_filtered, obs.q)} \cup (IF q_filtered = obs.q THEN {0} ELSE {})

\* Variant: the estimate is what was observed, not what the filter lets through.
APP_SAGITTA_FILTER_exec_Observed(available, obs, opposed) ==
    IF available
    THEN \E angle \in SeparationAngles(obs, opposed) :
             /\ filter_ok' = IsAccepted(spike, angle)
             /\ spike' = SPIKE_FILTER_calc_output(spike, angle)
             /\ q_filtered' = IF filter_ok' THEN obs.q ELSE q_filtered
             /\ opposite' = (opposed /\ ~filter_ok')
             /\ q_est' = obs.q
    ELSE /\ q_filtered' = q_est
         /\ opposite' = FALSE
         /\ UNCHANGED <<q_est, spike, filter_ok>>

\* APP_SAGITTA_FILTER_exec_, with the selector's result.
APP_SAGITTA_FILTER_exec(available, obs, opposed) ==
    IF available
    THEN \E angle \in SeparationAngles(obs, opposed) :
             /\ filter_ok' = IsAccepted(spike, angle)
             /\ spike' = SPIKE_FILTER_calc_output(spike, angle)
             /\ q_filtered' = IF filter_ok' THEN obs.q ELSE q_filtered
             /\ opposite' = (opposed /\ ~filter_ok')
             /\ q_est' = q_filtered'
    ELSE /\ q_filtered' = q_est
         /\ opposite' = FALSE
         /\ UNCHANGED <<q_est, spike, filter_ok>>

\* BC_AC_STT_UPDATE: the driver, the selector and the filter.
STT_UPDATE ==
    /\ Running("STT_UPDATE")
    /\ GoOn
    /\ stt' \in DI_SAGITTA_update(stt)
    /\ stt_available' = stt'.valid
    /\ LET true == stt'.valid /\ stt'.number /\ stt'.q = 0
       IN  /\ \E turned \in BOOLEAN :
                 /\ turned => SignMayChange
                 /\ APP_SAGITTA_FILTER_exec(stt_available', stt', opposite # turned)
                 /\ good' = IF mode = "FINE_THREE_AXIS" /\ true
                            THEN Min2((IF turned THEN 0 ELSE good) + 1, SettleCycles)
                            ELSE 0
           /\ faulty' = IF good' = SettleCycles THEN 0
                        ELSE Min2(faulty + 1, count_limit_to_accept + 1)
           /\ undisturbed' =
                  (mode = "FINE_THREE_AXIS" /\ IF stt'.valid THEN true /\ filter_ok' ELSE undisturbed)
    /\ UNCHANGED <<since, settings, ekf, sound>>

-----------------------------------------------------------------------------
(* The rough determination. *)

\* Variant: long time steps are not skipped.
Skipped_Never(app) == since[app] > obct_diff_max_limit + 1

\* Time steps that are too long are skipped, but the time is kept.
Skipped(app) == since[app] > obct_diff_max_limit

\* Variant: a step that is skipped does not keep the time.
Ran_KeptOnlyIfUsed(app) ==
    since' = [since EXCEPT ![app] = IF Skipped(app) THEN @ ELSE 0]

Ran(app) == since' = [since EXCEPT ![app] = 0]

Propagated(q, step) == Clip(q + step)

\* TRIAD, or the q method when it converges.  Without the sun, or with a disturbed field,
\* the result may be anything.
Determined(available) == IF available THEN {0} ELSE {0} \cup WrongErrors

APP_RTAD_exec ==
    /\ Running("RTAD")
    /\ GoOn
    /\ Ran("RTAD")
    /\ IF Skipped("RTAD")
       THEN UNCHANGED <<q_est, undisturbed>>
       ELSE \E available, converged \in BOOLEAN :
              IF \/ ~available /\ rtad.propagation = "QUATERNION"
                 \/ rtad.method = "Q_METHOD" /\ ~converged
              THEN /\ q_est' = Propagated(q_est, since["RTAD"])
                   /\ UNCHANGED undisturbed
              ELSE /\ q_est' \in Determined(available)
                   /\ undisturbed' = available
    /\ UNCHANGED <<drivers, filter, settings, ekf, good, faulty, sound>>

-----------------------------------------------------------------------------
(* The Kalman filter. *)

\* APP_STT_GYRO_EKF_reset_estimation_ with the estimate of the manager.
ResetEstimation == ekf' = [ekf EXCEPT !.q = q_est]

\* APP_STT_GYRO_EKF_check_stt_status_.
SttIsUpdated == stt.moved /\ stt_available /\ filter_ok

\* The correction is the gain times the difference to the attitude before it was
\* propagated; the gain may be anything from none to all.
Corrections ==
    LET difference == q_est - ekf.q
    IN  IF difference < 0 THEN difference .. 0 ELSE 0 .. difference

\* Variant: without a new solution the estimate is not propagated.
ExecuteEstimation_NoPropagation(step) ==
    IF step > AcceptableMaxTimeStep \/ step <= 0
    THEN ResetEstimation /\ sound' = FALSE /\ UNCHANGED stt
    ELSE /\ stt' = [stt EXCEPT !.moved = FALSE]
         /\ IF SttIsUpdated
            THEN \E c \in Corrections :
                    /\ ekf' = [q |-> Clip(ekf.q + ekf.rate * step + c), rate |-> 1]
                    /\ sound' = (stt.q = 0 /\ (sound \/ ekf'.q \in {0, 1}))
            ELSE UNCHANGED <<ekf, sound>>

\* APP_STT_GYRO_EKF_execute_estimation.  A gain that cannot be calculated resets as well.  The
\* sign of the estimate is not kept: any solution may have the other one, and then the
\* correction goes the wrong way, to an attitude that like all wrong ones lies behind.
ExecuteEstimation(step) ==
    LET propagated == ekf.q + ekf.rate * step
    IN  IF step > AcceptableMaxTimeStep \/ step <= 0
        THEN ResetEstimation /\ sound' = FALSE /\ UNCHANGED stt
        ELSE /\ stt' = [stt EXCEPT !.moved = FALSE]
             /\ IF SttIsUpdated
                THEN \/ ResetEstimation /\ sound' = FALSE
                     \/ \E c \in Corrections :
                           /\ ekf' = [q |-> Clip(propagated + c), rate |-> 1]
                           /\ sound' = (stt.q = 0 /\ (sound \/ ekf'.q \in {0, 1}))
                     \/ \E q \in -Far .. Clip(propagated) :
                           ekf' = [q |-> q, rate |-> 1] /\ sound' = FALSE
                ELSE /\ ekf' = [q |-> Clip(propagated), rate |-> 1]
                     /\ UNCHANGED sound

-----------------------------------------------------------------------------
(* The fine determination. *)

EkfIsUsed == method = "EKF" /\ use_ekf = 1

\* APP_FTAD_stt_direct_.
SttDirect(step) == IF stt_available THEN q_est ELSE Propagated(q_est, step)

APP_FTAD_exec ==
    /\ Running("FTAD")
    /\ GoOn
    /\ Ran("FTAD")
    /\ IF Skipped("FTAD")
       THEN UNCHANGED <<q_est, stt, ekf, undisturbed>> /\ sound' = FALSE
       ELSE /\ IF method = "EKF" THEN ExecuteEstimation(since["FTAD"])
                                ELSE UNCHANGED <<stt, ekf>> /\ sound' = FALSE
            /\ q_est' = IF EkfIsUsed THEN ekf'.q ELSE SttDirect(since["FTAD"])
            /\ undisturbed' = (undisturbed /\ ~EkfIsUsed)
    /\ IF EkfIsUsed THEN good' = 0 /\ faulty' = count_limit_to_accept + 1
                    ELSE UNCHANGED <<good, faulty>>
    /\ UNCHANGED <<stt_available, filter, settings>>

-----------------------------------------------------------------------------
(* Commands come before the entries of a cycle.  Parameters that the code   *)
(* refuses are left out; they change nothing.                               *)

OnCommand == next = 1 /\ UNCHANGED <<scenario, place, since, drivers, q_est>>

Cmd_APP_RTAD_SET_METHOD ==
    /\ OnCommand
    /\ rtad' \in RtadParams
    /\ UNCHANGED <<filter, method, use_ekf, ekf, trust, sound>>

Cmd_APP_FTAD_SET_METHOD ==
    /\ OnCommand
    /\ method' \in {"STT", "EKF"}
    /\ method' = "EKF" => "EKF" \in scenario
    /\ UNCHANGED <<filter, rtad, use_ekf, ekf, trust, sound>>

\* A value above enable is accepted, and taken for disable.
Cmd_STT_GYRO_EKF_ENABLE_ESTIMATED_ATTITUDE ==
    /\ OnCommand
    /\ "EKF" \in scenario
    /\ use_ekf' \in EkfParams
    /\ UNCHANGED <<filter, rtad, method, ekf, trust, sound>>

\* To a given attitude, or to the estimate of the manager, as the commands that set noise
\* parameters do.
Cmd_STT_GYRO_EKF_RESET_ESTIMATION ==
    /\ OnCommand
    /\ "EKF" \in scenario
    /\ \E q \in {0, q_est} \cup WrongErrors : ekf' = [ekf EXCEPT !.q = q]
    /\ sound' = FALSE
    /\ UNCHANGED <<filter, settings, trust>>

\* So does the command that sets its parameters.
Cmd_APP_SAGITTA_FILTER_RESET_SPIKE_FILTER ==
    /\ OnCommand
    /\ spike' = SPIKE_FILTER_reset
    /\ good' = 0
    /\ UNCHANGED <<q_filtered, filter_ok, opposite, settings, ekf, faulty, undisturbed, sound>>

-----------------------------------------------------------------------------
(* The body turns while nothing is executed. *)

Later(q) == Clip(q - 1)

\* A transition begins at the end of a cycle, unless another is in progress.
EndCycle ==
    /\ next = Len(TaskList[mode]) + 1
    /\ next' = 1
    /\ UNCHANGED scenario
    /\ \/ mode' = mode /\ stay' = Min2(stay + 1, SetupTime[mode])
       \/ /\ stay = SetupTime[mode]
          /\ mode' \in Successors[mode] \ {mode}
          /\ stay' = 1
    /\ since' = [app \in TimedApp |-> Min2(since[app] + 1, obct_diff_max_limit + 1)]
    /\ q_est' = Later(q_est)
    /\ q_filtered' = Later(q_filtered)
    /\ stt' = [stt EXCEPT !.q = Later(@)]
    /\ ekf' = [ekf EXCEPT !.q = Later(@)]
    /\ IF mode' = mode THEN UNCHANGED <<good, faulty>>
                       ELSE good' = 0 /\ faulty' = count_limit_to_accept + 1
    /\ undisturbed' = (undisturbed /\ mode' # "BDOT")
    /\ UNCHANGED <<stt_available, spike, filter_ok, opposite, settings, sound>>

Init ==
    /\ scenario \in Scenarios
    /\ mode = "INITIAL"
    /\ stay = 1
    /\ next = 1
    /\ since = [app \in TimedApp |-> 0]
    /\ stt = [valid |-> FALSE, q |-> -Far, number |-> TRUE, moved |-> FALSE]
    /\ stt_available = FALSE
    /\ q_est = -Far
    /\ q_filtered = -Far
    /\ spike = SPIKE_FILTER_reset
    /\ filter_ok = TRUE
    /\ opposite = FALSE
    /\ rtad = [method |-> "TRIAD", propagation |-> "QUATERNION"]
    /\ method = "STT"
    /\ use_ekf = 0
    /\ ekf = [q |-> -Far, rate |-> 0]
    /\ good = 0
    /\ faulty = count_limit_to_accept + 1
    /\ undisturbed = FALSE
    /\ sound = FALSE

Entry == DI_SAGITTA \/ STT_UPDATE \/ APP_RTAD_exec \/ APP_FTAD_exec

Commands ==
    \/ Cmd_APP_RTAD_SET_METHOD
    \/ Cmd_APP_FTAD_SET_METHOD
    \/ Cmd_STT_GYRO_EKF_ENABLE_ESTIMATED_ATTITUDE
    \/ Cmd_STT_GYRO_EKF_RESET_ESTIMATION
    \/ Cmd_APP_SAGITTA_FILTER_RESET_SPIKE_FILTER

Next == Entry \/ Commands \/ EndCycle

Spec == Init /\ [][Next]_vars

-----------------------------------------------------------------------------
(* Properties. *)

\* Every variable keeps its type.
TypeOK ==
    /\ scenario \in Scenarios
    /\ mode \in Mode
    /\ stay \in 1 .. SetupTime[mode]
    /\ next \in 1 .. Len(TaskList[mode]) + 1
    /\ since \in [TimedApp -> 0 .. obct_diff_max_limit + 1]
    /\ stt \in [valid : BOOLEAN, q : Error, number : BOOLEAN, moved : BOOLEAN]
    /\ stt_available \in BOOLEAN
    /\ q_est \in Error
    /\ q_filtered \in Error
    /\ spike \in SpikeFilterOf(0 .. FullTurn)
    /\ filter_ok \in BOOLEAN
    /\ opposite \in BOOLEAN
    /\ rtad \in RtadSettings
    /\ method \in {"STT", "EKF"}
    /\ use_ekf \in 0 .. 2
    /\ ekf \in [q : Error, rate : 0 .. 1]
    /\ good \in 0 .. SettleCycles
    /\ faulty \in 0 .. count_limit_to_accept + 1
    /\ undisturbed \in BOOLEAN
    /\ sound \in BOOLEAN

AtEnd == next = Len(TaskList[mode]) + 1

\* What the settling of the filter depends on: while it counts, the body turns by no more than
\* the threshold and each step is within the amplitude.  It takes the time to accept whatever
\* it held before, to accept the first right solution after that, and one more solution.
SlowTurn ==
    /\ count_limit_to_accept + 1 <= reject_threshold
    /\ 1 <= amplitude_limit_to_accept_as_step
    /\ 2 * count_limit_to_accept + 5 <= SettleCycles

\* A wrong solution is told from a right one by more than the threshold, even when both the
\* estimate and the angle accepted last are as old as they get while the filter counts; so is
\* one with the other sign, which is at least Far away.
WrongIsFar ==
    \A e \in {Far} \cup {-w : w \in WrongErrors} :
        reject_threshold + 2 * count_limit_to_accept < e

\* The filter in front of the star tracker lets it settle: whatever the filter held, whatever
\* mode, command, wrong solution or change of sign came before, after SettleCycles right
\* solutions in a row with the same sign the estimate is the observed attitude.  The filter
\* compares separation angles with the one it accepted last, so that a big one that was
\* accepted makes it reject right solutions; and a right solution that comes with the other
\* sign is a full turn away, is rejected until it is taken for a step, and then is such an
\* angle: the estimate stands still meanwhile, and the count of SettleCycles begins again.
FineAttitudeIsCurrent ==
    AtEnd /\ mode = "FINE_THREE_AXIS" /\ good = SettleCycles /\ ~EkfIsUsed => q_est = 0

\* No time is propagated twice, although two apps propagate the same estimate, each over the
\* time since its own last run, and modes in which neither runs lie between.  Only the Kalman
\* filter leads, by one step: its correction belongs to the attitude before propagation.
NeverAhead == q_est <= 1

\* From the last fix on, through the change from the rough to the fine determination and
\* through outages of sun and stars, at most the one cycle is lost in which the first fine
\* determination skips its long step.
HandoverKeepsAttitude == AtEnd /\ undisturbed => q_est \in {-1, 0}

\* Once settled, wrong solutions, however many of them, stay out for as long as the filter
\* counts: the estimate falls behind by what was not propagated, and no more.  Solutions with
\* the other sign, which the filter keeps out as well, and solutions that are no number do not
\* make it fall behind faster.
SpikesStayOut ==
    AtEnd /\ mode = "FINE_THREE_AXIS" /\ faulty <= count_limit_to_accept /\ ~EkfIsUsed =>
        q_est >= -faulty

\* The Kalman filter bridges the silence of the star tracker: as long as nothing but right
\* solutions was taken as new, with the sign of its estimate, it stays within the step that it
\* leads by.
EkfBridgesSilence == AtEnd /\ mode = "FINE_THREE_AXIS" /\ EkfIsUsed /\ sound => q_est \in {0, 1}
=============================================================================
