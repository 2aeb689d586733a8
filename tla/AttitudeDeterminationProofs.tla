--------------------- MODULE AttitudeDeterminationProofs ---------------------
(***************************************************************************)
(* Theorems about AttitudeDetermination, for any settings, transition      *)
(* times and solutions: no time is propagated twice and at most one cycle  *)
(* is lost, the Kalman filter bridges the silence of the star tracker, and *)
(* the spike filter settles and keeps wrong solutions out.                 *)
(***************************************************************************)
EXTENDS AttitudeDetermination, TLAPS

RtadModes == {"ROUGH_SUN_POINTING", "ROUGH_THREE_AXIS", "ROUGH_THREE_AXIS_RW"}
TooLong == obct_diff_max_limit + 1

\* How long ago an app has run: in a mode that runs it one cycle or too long, since the
\* modes between the two apps last too long.
Timing ==
    /\ mode = "BDOT" => \A app \in TimedApp : since[app] >= stay \/ since[app] = TooLong
    /\ mode \in RtadModes =>
           /\ since["FTAD"] = TooLong
           /\ next = 1 => since["RTAD"] \in {1, TooLong}
           /\ next # 1 => since["RTAD"] = 0
    /\ mode = "FINE_THREE_AXIS" =>
           /\ next # 3 => since["FTAD"] \in {1, TooLong}
           /\ next = 3 => since["FTAD"] = 0

\* Before anything is propagated in a cycle.
Fresh == next = 1 \/ (mode = "FINE_THREE_AXIS" /\ next = 2)

\* Nothing is ahead, but for what was propagated in this cycle.
Lag ==
    /\ stt.q <= 0
    /\ q_filtered <= 0
    /\ q_est <= 1
    /\ ekf.q <= 1
    /\ Fresh => q_est <= 0 /\ ekf.q <= 0
    /\ next = 1 => q_filtered < 0

\* How far behind an estimate is that nothing has disturbed.
Handover ==
    undisturbed =>
        /\ mode \notin {"INITIAL", "BDOT"}
        /\ mode \in RtadModes =>
               /\ next = 1 => since["RTAD"] = 1 /\ q_est = -1
               /\ next # 1 => q_est = 0
        /\ mode = "FINE_THREE_AXIS" =>
               /\ next = 1 \/ (next = 2 /\ ~stt_available) =>
                      /\ q_est \in {-2, -1}
                      /\ since["FTAD"] = TooLong => q_est = -1
               /\ next = 2 /\ stt_available => q_est = 0
               /\ next = 3 => q_est \in {-1, 0}

IInv == TypeOK /\ Timing /\ Lag

DriverRecord == [valid : BOOLEAN, q : Error, number : BOOLEAN, moved : BOOLEAN]

-----------------------------------------------------------------------------
(* The tables. *)

LEMMA Lists ==
    /\ TaskList["INITIAL"] = <<"STT_UPDATE">>
    /\ TaskList["BDOT"] = << >>
    /\ TaskList["ROUGH_SUN_POINTING"] = <<"RTAD">>
    /\ TaskList["ROUGH_THREE_AXIS"] = <<"RTAD">>
    /\ TaskList["ROUGH_THREE_AXIS_RW"] = <<"RTAD", "DI_SAGITTA">>
    /\ TaskList["FINE_THREE_AXIS"] = <<"STT_UPDATE", "FTAD">>
  BY DEF TaskList, Mode

LEMMA Lengths ==
    /\ Len(TaskList["INITIAL"]) = 1
    /\ Len(TaskList["BDOT"]) = 0
    /\ Len(TaskList["ROUGH_SUN_POINTING"]) = 1
    /\ Len(TaskList["ROUGH_THREE_AXIS"]) = 1
    /\ Len(TaskList["ROUGH_THREE_AXIS_RW"]) = 2
    /\ Len(TaskList["FINE_THREE_AXIS"]) = 2
  BY Lists

LEMMA LengthType == \A m \in Mode : Len(TaskList[m]) \in 0 .. 2
  BY Lengths DEF Mode

\* Where an entry stands.
LEMMA Places ==
    ASSUME TypeOK
    PROVE  /\ Running("STT_UPDATE") => next = 1 /\ mode \in {"INITIAL", "FINE_THREE_AXIS"}
           /\ Running("RTAD") => next = 1 /\ mode \in RtadModes
           /\ Running("DI_SAGITTA") => next = 2 /\ mode = "ROUGH_THREE_AXIS_RW"
           /\ Running("FTAD") => next = 2 /\ mode = "FINE_THREE_AXIS"
<1>1. mode \in Mode /\ next \in 1 .. Len(TaskList[mode]) + 1
  BY DEF TypeOK
<1>2. CASE mode = "INITIAL"
  BY <1>1, <1>2, Lists, Lengths DEF Running, RtadModes
<1>3. CASE mode = "BDOT"
  BY <1>1, <1>3, Lists, Lengths DEF Running, RtadModes
<1>4. CASE mode = "ROUGH_SUN_POINTING"
  BY <1>1, <1>4, Lists, Lengths DEF Running, RtadModes
<1>5. CASE mode = "ROUGH_THREE_AXIS"
  BY <1>1, <1>5, Lists, Lengths DEF Running, RtadModes
<1>6. CASE mode = "ROUGH_THREE_AXIS_RW"
  <2>1. TaskList[mode][1] = "RTAD" /\ TaskList[mode][2] = "DI_SAGITTA" /\ Len(TaskList[mode]) = 2
    BY <1>6, Lists, Lengths
  <2> QED
    BY <1>1, <1>6, <2>1 DEF Running, RtadModes
<1>7. CASE mode = "FINE_THREE_AXIS"
  <2>1. TaskList[mode][1] = "STT_UPDATE" /\ TaskList[mode][2] = "FTAD" /\ Len(TaskList[mode]) = 2
    BY <1>7, Lists, Lengths
  <2> QED
    BY <1>1, <1>7, <2>1 DEF Running, RtadModes
<1> QED
  BY <1>1, <1>2, <1>3, <1>4, <1>5, <1>6, <1>7 DEF Mode

LEMMA PlaceStep ==
    ASSUME TypeOK, NEW e, Running(e), GoOn
    PROVE  mode' \in Mode /\ stay' \in 1 .. SetupTime[mode'] /\ next' \in 1 .. Len(TaskList[mode']) + 1
<1>1. Len(TaskList[mode]) \in Nat
  BY LengthType DEF TypeOK
<1> QED
  BY <1>1 DEF TypeOK, Running, GoOn

-----------------------------------------------------------------------------
(* Errors. *)

LEMMA ErrorType ==
    /\ Far \in Nat \ {0}
    /\ 0 \in Error
    /\ -Far \in Error
    /\ WrongErrors \subseteq Error
    /\ \A w \in WrongErrors : w <= 0
    /\ \A e \in Error : e \in Int
  BY AttitudeAssumption DEF Error

LEMMA ClipType ==
    ASSUME NEW e \in Int
    PROVE  /\ Clip(e) \in Error
           /\ \A b \in Nat : e <= b => Clip(e) <= b
  BY AttitudeAssumption DEF Clip, Error

LEMMA LaterType ==
    ASSUME NEW e \in Error
    PROVE  Later(e) \in Error /\ (e <= 1 => Later(e) <= 0) /\ (e <= 0 => Later(e) < 0)
  BY AttitudeAssumption DEF Later, Clip, Error

LEMMA FilterType ==
    ASSUME NEW f \in SpikeFilterOf(0 .. FullTurn), NEW x \in (0 .. FullTurn) \cup {NotANumber}
    PROVE  SPIKE_FILTER_calc_output(f, x) \in SpikeFilterOf(0 .. FullTurn)
<1>1. CASE x = NotANumber
  BY <1>1 DEF SPIKE_FILTER_calc_output
<1>2. CASE x \in 0 .. FullTurn /\ IsSpike(f, x)
  <2>1. f.count_to_accept \in 0 .. count_limit_to_accept /\ f.count_to_accept < count_limit_to_accept
    BY <1>2 DEF IsSpike, SpikeFilterOf
  <2>2. /\ f.count_to_accept + 1 \in 0 .. count_limit_to_accept
        /\ 0 \in 0 .. count_limit_to_accept
    BY <2>1, SpikeFilterAssumption
  <2>3. Reject(f, x) \in SpikeFilterOf(0 .. FullTurn)
    BY <1>2, <2>2 DEF Reject, SpikeFilterOf
  <2>4. x # NotANumber
    BY <1>2, SpikeFilterAssumption
  <2> QED
    BY <1>2, <2>3, <2>4 DEF SPIKE_FILTER_calc_output
<1>3. CASE x \in 0 .. FullTurn /\ ~IsSpike(f, x)
  <2>1. Accept(x) \in SpikeFilterOf(0 .. FullTurn)
    BY <1>3, SpikeFilterAssumption DEF Accept, SpikeFilterOf
  <2>2. x # NotANumber
    BY <1>3, SpikeFilterAssumption
  <2> QED
    BY <1>3, <2>1, <2>2 DEF SPIKE_FILTER_calc_output
<1> QED
  BY <1>1, <1>2, <1>3

\* The separation angles of what the driver holds.
LEMMA AngleType ==
    ASSUME TypeOK, NEW obs \in DriverRecord, NEW opposed \in BOOLEAN,
           NEW angle \in SeparationAngles(obs, opposed)
    PROVE  /\ angle \in (0 .. FullTurn) \cup {NotANumber}
           /\ ~obs.number => angle = NotANumber
           /\ obs.number => /\ angle \in 0 .. FullTurn
                            /\ angle # NotANumber
                            /\ ~opposed => angle = Distance(q_filtered, obs.q)
                            /\ opposed => \/ angle = FullTurn - Distance(q_filtered, obs.q)
                                          \/ angle = 0 /\ q_filtered = obs.q
<1>1. CASE ~obs.number
  BY <1>1 DEF SeparationAngles
<1>2. CASE obs.number
  <2>1. q_filtered \in Error /\ obs.q \in Error
    BY DEF TypeOK, DriverRecord
  <2>2. Distance(q_filtered, obs.q) \in 0 .. FullTurn
    BY <2>1, AttitudeAssumption DEF Distance, Error
  <2>3. FullTurn - Distance(q_filtered, obs.q) \in 0 .. FullTurn /\ 0 \in 0 .. FullTurn
    BY <2>2, AttitudeAssumption
  <2>4. CASE opposed
    <3>1. angle = FullTurn - Distance(q_filtered, obs.q) \/ (angle = 0 /\ q_filtered = obs.q)
      BY <1>2, <2>4 DEF SeparationAngles
    <3>2. angle \in 0 .. FullTurn
      BY <2>3, <3>1
    <3> QED
      BY <1>2, <2>4, <3>1, <3>2, SpikeFilterAssumption
  <2>5. CASE ~opposed
    <3>1. angle = Distance(q_filtered, obs.q)
      BY <1>2, <2>5 DEF SeparationAngles
    <3>2. angle \in 0 .. FullTurn
      BY <2>2, <3>1
    <3> QED
      BY <1>2, <2>5, <3>1, <3>2, SpikeFilterAssumption
  <2> QED
    BY <2>4, <2>5
<1> QED
  BY <1>1, <1>2

-----------------------------------------------------------------------------
(* Initially. *)

LEMMA InitIInv == Init => IInv
<1> SUFFICES ASSUME Init PROVE IInv
  OBVIOUS
<1>1. TypeOK
  <2>1. stay \in 1 .. SetupTime[mode] /\ next \in 1 .. Len(TaskList[mode]) + 1
    BY TimeAssumption, Lengths DEF Init, Mode
  <2>2. spike \in SpikeFilterOf(0 .. FullTurn)
    BY AttitudeAssumption, SpikeFilterAssumption DEF Init, SpikeFilterOf, SPIKE_FILTER_reset
  <2>3. since \in [TimedApp -> 0 .. obct_diff_max_limit + 1]
    BY AttitudeAssumption DEF Init
  <2>4. rtad \in RtadSettings
    BY DEF Init, RtadSettings
  <2>5. good \in 0 .. SettleCycles /\ faulty \in 0 .. count_limit_to_accept + 1
    BY AttitudeAssumption, SpikeFilterAssumption DEF Init
  <2>6. stt \in DriverRecord /\ ekf \in [q : Error, rate : 0 .. 1]
    BY ErrorType DEF Init, DriverRecord
  <2>7. q_est \in Error /\ q_filtered \in Error /\ mode \in Mode
    BY ErrorType DEF Init, Mode
  <2>8. /\ stt_available \in BOOLEAN /\ filter_ok \in BOOLEAN
        /\ undisturbed \in BOOLEAN /\ sound \in BOOLEAN
        /\ method \in {"STT", "EKF"}
        /\ scenario \in Scenarios /\ opposite \in BOOLEAN
    BY DEF Init
  <2>9. use_ekf \in 0 .. 2
    BY DEF Init
  <2> QED
    BY <2>1, <2>2, <2>3, <2>4, <2>5, <2>6, <2>7, <2>8, <2>9 DEF TypeOK, DriverRecord
<1>2. Timing
  BY DEF Init, Timing, RtadModes
<1>3. Lag
  BY AttitudeAssumption DEF Init, Lag, Fresh
<1> QED
  BY <1>1, <1>2, <1>3 DEF IInv

-----------------------------------------------------------------------------
(* The entries of the task lists. *)

LEMMA FreshBound ==
    ASSUME IInv, Fresh
    PROVE  q_est <= 0 /\ ekf.q <= 0 /\ q_filtered <= 0 /\ stt.q <= 0
  BY DEF IInv, Lag

LEMMA DriverType ==
    ASSUME TypeOK
    PROVE  \A s \in DI_SAGITTA_update(stt) :
               /\ s \in DriverRecord
               /\ stt.q <= 0 => s.q <= 0
<1> SUFFICES ASSUME NEW s \in DI_SAGITTA_update(stt)
             PROVE  /\ s \in DriverRecord
                    /\ stt.q <= 0 => s.q <= 0
  OBVIOUS
<1>1. stt \in DriverRecord
  BY DEF TypeOK, DriverRecord
<1>2. CASE s = stt
  BY <1>1, <1>2
<1>3. CASE s = [stt EXCEPT !.valid = FALSE]
  BY <1>1, <1>3 DEF DriverRecord
<1>4. CASE s \in Solution
  <2>1. s.q = 0 \/ s.q \in WrongErrors
    BY <1>4 DEF Solution
  <2>2. s.q \in Error /\ s.q <= 0
    BY <2>1, ErrorType
  <2> QED
    BY <1>4, <2>2 DEF Solution, DriverRecord
<1>5. CASE s \in [valid : {FALSE}, q : {-Far}, number : {FALSE}, moved : {TRUE}]
  <2>1. s.q = -Far /\ -Far \in Error /\ -Far <= 0
    BY <1>5, ErrorType
  <2> QED
    BY <1>5, <2>1 DEF DriverRecord
<1>6. CASE s \in [valid : {stt.valid, TRUE}, q : {stt.q}, number : {stt.number}, moved : {TRUE}]
  BY <1>1, <1>6 DEF DriverRecord
<1> QED
  BY <1>2, <1>3, <1>4, <1>5, <1>6 DEF DI_SAGITTA_update, Received

LEMMA StepDriver == IInv /\ DI_SAGITTA => IInv'
<1> SUFFICES ASSUME IInv, DI_SAGITTA PROVE IInv'
  OBVIOUS
<1> USE DEF IInv
<1>1. next = 2 /\ mode = "ROUGH_THREE_AXIS_RW" /\ mode' = mode /\ next' = 3
  BY Places DEF DI_SAGITTA, GoOn
<1>2. /\ stt' \in DriverRecord
      /\ stt'.q <= 0
  BY DriverType DEF DI_SAGITTA, Lag
<1>3. mode' \in Mode /\ stay' \in 1 .. SetupTime[mode'] /\ next' \in 1 .. Len(TaskList[mode']) + 1
  BY PlaceStep DEF DI_SAGITTA
<1>4. TypeOK'
  <2>1. opposite' \in BOOLEAN
    <3>1. opposite' \in BOOLEAN \/ opposite' = (opposite /\ stt'.valid)
      BY DEF DI_SAGITTA
    <3> QED
      BY <3>1
  <2>2. /\ UNCHANGED <<since, stt_available, q_est, q_filtered, spike, filter_ok, settings, ekf>>
        /\ UNCHANGED <<scenario, trust, sound>>
    BY DEF DI_SAGITTA, GoOn
  <2> QED
    BY <1>2, <1>3, <2>1, <2>2 DEF TypeOK, DriverRecord, settings, trust
<1>5. Timing'
  BY <1>1 DEF Timing, DI_SAGITTA, RtadModes
<1>6. Lag'
  BY <1>1, <1>2 DEF Lag, Fresh, DI_SAGITTA
<1> QED
  BY <1>4, <1>5, <1>6

\* What the filter makes of an observation.
LEMMA FilterStep ==
    ASSUME TypeOK, NEW available \in BOOLEAN, NEW obs \in DriverRecord, NEW opposed \in BOOLEAN,
           APP_SAGITTA_FILTER_exec(available, obs, opposed)
    PROVE  /\ q_est' \in Error /\ q_filtered' \in Error
           /\ spike' \in SpikeFilterOf(0 .. FullTurn)
           /\ filter_ok' \in BOOLEAN /\ opposite' \in BOOLEAN
           /\ q_filtered <= 0 /\ q_est <= 0 /\ obs.q <= 0 => q_filtered' <= 0 /\ q_est' <= 0
           /\ available =>
                 /\ q_est' = q_filtered'
                 /\ filter_ok' => obs.number /\ q_filtered' = obs.q
<1>1. CASE available
  <2>1. PICK angle \in SeparationAngles(obs, opposed) :
             /\ filter_ok' = IsAccepted(spike, angle)
             /\ spike' = SPIKE_FILTER_calc_output(spike, angle)
             /\ q_filtered' = IF filter_ok' THEN obs.q ELSE q_filtered
             /\ opposite' = (opposed /\ ~filter_ok')
             /\ q_est' = q_filtered'
    BY <1>1 DEF APP_SAGITTA_FILTER_exec
  <2>2. spike' \in SpikeFilterOf(0 .. FullTurn)
    BY <2>1, FilterType, AngleType DEF TypeOK
  <2>3. filter_ok' \in BOOLEAN /\ opposite' \in BOOLEAN
    BY <2>1 DEF IsAccepted
  <2>4. filter_ok' => obs.number
    BY <2>1, AngleType DEF IsAccepted, DriverRecord
  <2>5. obs.q \in Error
    BY DEF DriverRecord
  <2> QED
    BY <2>1, <2>2, <2>3, <2>4, <2>5 DEF TypeOK
<1>2. CASE ~available
  BY <1>2 DEF APP_SAGITTA_FILTER_exec, TypeOK
<1> QED
  BY <1>1, <1>2

\* What the step of the star tracker does with what the driver holds.
LEMMA TrackerStep ==
    ASSUME TypeOK, STT_UPDATE
    PROVE  /\ stt' \in DriverRecord
           /\ stt_available' = stt'.valid
           /\ stt_available' \in BOOLEAN
           /\ \E turned \in BOOLEAN :
                 /\ APP_SAGITTA_FILTER_exec(stt_available', stt', opposite # turned)
                 /\ good' = IF mode = "FINE_THREE_AXIS" /\ stt'.valid /\ stt'.number /\ stt'.q = 0
                            THEN Min2((IF turned THEN 0 ELSE good) + 1, SettleCycles)
                            ELSE 0
           /\ faulty' = IF good' = SettleCycles THEN 0
                        ELSE Min2(faulty + 1, count_limit_to_accept + 1)
           /\ undisturbed' = (mode = "FINE_THREE_AXIS" /\
                  IF stt'.valid THEN (stt'.valid /\ stt'.number /\ stt'.q = 0) /\ filter_ok'
                  ELSE undisturbed)
<1>1. stt' \in DriverRecord /\ stt_available' = stt'.valid
  BY DriverType DEF STT_UPDATE
<1>2. stt_available' \in BOOLEAN
  BY <1>1 DEF DriverRecord
<1> QED
  BY <1>1, <1>2 DEF STT_UPDATE

LEMMA StepTracker == IInv /\ STT_UPDATE => IInv'
<1> SUFFICES ASSUME IInv, STT_UPDATE PROVE IInv'
  OBVIOUS
<1> USE DEF IInv
<1>1. next = 1 /\ mode \in {"INITIAL", "FINE_THREE_AXIS"} /\ mode' = mode /\ next' = 2
  BY Places DEF STT_UPDATE, GoOn
<1>2. /\ stt' \in DriverRecord
      /\ stt'.q <= 0
      /\ stt_available' \in BOOLEAN
      /\ stt'.q \in Error
  BY TrackerStep, DriverType DEF STT_UPDATE, Lag, DriverRecord
<1>3. mode' \in Mode /\ stay' \in 1 .. SetupTime[mode'] /\ next' \in 1 .. Len(TaskList[mode']) + 1
  BY PlaceStep DEF STT_UPDATE
<1>4. PICK turned \in BOOLEAN :
         /\ APP_SAGITTA_FILTER_exec(stt_available', stt', opposite # turned)
         /\ good' = 0 \/ good' = Min2(0 + 1, SettleCycles) \/ good' = Min2(good + 1, SettleCycles)
  <2>1. PICK turned \in BOOLEAN :
           /\ APP_SAGITTA_FILTER_exec(stt_available', stt', opposite # turned)
           /\ good' = IF mode = "FINE_THREE_AXIS" /\ stt'.valid /\ stt'.number /\ stt'.q = 0
                      THEN Min2((IF turned THEN 0 ELSE good) + 1, SettleCycles)
                      ELSE 0
    BY TrackerStep
  <2>2. good' = 0 \/ good' = Min2(0 + 1, SettleCycles) \/ good' = Min2(good + 1, SettleCycles)
    BY <2>1
  <2> QED
    BY <2>1, <2>2
<1>5. /\ q_est' \in Error /\ q_filtered' \in Error
      /\ spike' \in SpikeFilterOf(0 .. FullTurn) /\ filter_ok' \in BOOLEAN /\ opposite' \in BOOLEAN
      /\ q_filtered' <= 0 /\ q_est' <= 0
  <2>1. q_filtered <= 0 /\ q_est <= 0
    BY <1>1, FreshBound DEF Fresh
  <2>2. (opposite # turned) \in BOOLEAN
    OBVIOUS
  <2> QED
    BY <1>2, <1>4, <2>1, <2>2, FilterStep
<1>10. /\ good' \in 0 .. SettleCycles
       /\ faulty' \in 0 .. count_limit_to_accept + 1
       /\ undisturbed' \in BOOLEAN
  <2>1. good \in 0 .. SettleCycles /\ SettleCycles \in Nat
    BY AttitudeAssumption DEF TypeOK
  <2>2. good' \in 0 .. SettleCycles
    BY <1>4, <2>1 DEF Min2
  <2>3. faulty' = 0 \/ faulty' = Min2(faulty + 1, count_limit_to_accept + 1)
    BY DEF STT_UPDATE
  <2>4. faulty' \in 0 .. count_limit_to_accept + 1
    BY <2>3, SpikeFilterAssumption DEF TypeOK, Min2
  <2>5. undisturbed' = (mode = "FINE_THREE_AXIS" /\
           IF stt'.valid THEN (stt'.valid /\ stt'.number /\ stt'.q = 0) /\ filter_ok'
           ELSE undisturbed)
    BY TrackerStep
  <2>6. undisturbed' \in BOOLEAN
    BY <2>5
  <2> QED
    BY <2>2, <2>4, <2>6
<1>6. UNCHANGED <<scenario, since, settings, ekf, sound>>
  BY DEF STT_UPDATE, GoOn
<1>7. TypeOK'
  BY <1>2, <1>3, <1>5, <1>6, <1>10 DEF TypeOK, DriverRecord, settings
<1>8. Timing'
  BY <1>1, <1>6 DEF Timing, RtadModes
<1>9. Lag'
  <2>1. ekf.q <= 0 /\ ekf.q \in Int /\ q_est' \in Int
    BY <1>1, <1>5, FreshBound, ErrorType DEF Fresh, TypeOK
  <2> QED
    BY <1>1, <1>2, <1>5, <1>6, <2>1 DEF Lag, Fresh
<1> QED
  BY <1>7, <1>8, <1>9

\* A step that is not skipped, of an app that has run at most one cycle ago.
LEMMA OneStep ==
    ASSUME TypeOK, NEW app \in TimedApp, since[app] \in {1, TooLong}, ~Skipped(app)
    PROVE  since[app] = 1
  BY AttitudeAssumption DEF Skipped, TooLong

LEMMA RanType ==
    ASSUME TypeOK, NEW app \in TimedApp, Ran(app)
    PROVE  /\ since' \in [TimedApp -> 0 .. obct_diff_max_limit + 1]
           /\ since'[app] = 0
           /\ \A other \in TimedApp : other # app => since'[other] = since[other]
  BY AttitudeAssumption DEF TypeOK, Ran

LEMMA PropagatedType ==
    ASSUME NEW q \in Error, q <= 0
    PROVE  Propagated(q, 1) \in Error /\ Propagated(q, 1) <= 1
  BY ErrorType, ClipType DEF Propagated

LEMMA StepRough == IInv /\ APP_RTAD_exec => IInv'
<1> SUFFICES ASSUME IInv, APP_RTAD_exec PROVE IInv'
  OBVIOUS
<1> USE DEF IInv
<1>1. next = 1 /\ mode \in RtadModes /\ mode' = mode /\ next' = 2
  BY Places DEF APP_RTAD_exec, GoOn
<1>2. mode' \in Mode /\ stay' \in 1 .. SetupTime[mode'] /\ next' \in 1 .. Len(TaskList[mode']) + 1
  BY PlaceStep DEF APP_RTAD_exec
<1>3. /\ since' \in [TimedApp -> 0 .. obct_diff_max_limit + 1]
      /\ since'["RTAD"] = 0
      /\ since'["FTAD"] = since["FTAD"]
  BY RanType DEF APP_RTAD_exec, TimedApp
<1>4. q_est \in Error /\ q_est <= 0
  BY <1>1, FreshBound DEF Fresh, TypeOK
<1>5. q_est' \in Error /\ q_est' <= 1 /\ undisturbed' \in BOOLEAN
  <2>1. CASE Skipped("RTAD")
    BY <1>4, <2>1 DEF APP_RTAD_exec, TypeOK, Error
  <2>2. CASE ~Skipped("RTAD")
    <3>1. since["RTAD"] = 1
      BY <1>1, <2>2, OneStep DEF Timing, TimedApp
    <3>2. PICK available \in BOOLEAN :
             \/ q_est' = Propagated(q_est, since["RTAD"]) /\ undisturbed' = undisturbed
             \/ q_est' \in Determined(available) /\ undisturbed' = available
      BY <2>2 DEF APP_RTAD_exec
    <3>3. CASE q_est' = Propagated(q_est, since["RTAD"]) /\ undisturbed' = undisturbed
      BY <1>4, <3>1, <3>3, PropagatedType DEF TypeOK
    <3>4. CASE q_est' \in Determined(available) /\ undisturbed' = available
      <4>1. q_est' = 0 \/ q_est' \in WrongErrors
        BY <3>4 DEF Determined
      <4>2. q_est' \in Error /\ q_est' <= 0
        BY <4>1, ErrorType
      <4> QED
        BY <3>4, <4>2 DEF Error
    <3> QED
      BY <3>2, <3>3, <3>4
  <2> QED
    BY <2>1, <2>2
<1>6. UNCHANGED <<scenario, drivers, filter, settings, ekf, good, faulty, sound>>
  BY DEF APP_RTAD_exec, GoOn
<1>7. TypeOK'
  BY <1>2, <1>3, <1>5, <1>6 DEF TypeOK, drivers, filter, settings
<1>8. Timing'
  BY <1>1, <1>3 DEF Timing, RtadModes
<1>9. Lag'
  BY <1>1, <1>5, <1>6 DEF Lag, Fresh, drivers, filter, RtadModes
<1> QED
  BY <1>7, <1>8, <1>9

\* The Kalman filter leads by at most its own propagation, whatever its gain.
LEMMA Estimated ==
    ASSUME IInv, Fresh, ExecuteEstimation(1)
    PROVE  /\ stt' \in DriverRecord
           /\ stt'.q <= 0
           /\ ekf' \in [q : Error, rate : 0 .. 1]
           /\ ekf'.q <= 1
           /\ sound' \in BOOLEAN
<1>1. /\ stt \in DriverRecord /\ stt.q <= 0
      /\ ekf \in [q : Error, rate : 0 .. 1] /\ ekf.q <= 0 /\ ekf.q \in Int /\ ekf.rate \in 0 .. 1
      /\ q_est \in Error /\ q_est <= 0 /\ q_est \in Int
      /\ sound \in BOOLEAN
  BY FreshBound, ErrorType DEF IInv, TypeOK, DriverRecord
<1> DEFINE propagated == ekf.q + ekf.rate * 1
<1>2. propagated \in Int /\ propagated <= ekf.q + 1
  BY <1>1
<1>3. ASSUME ResetEstimation
      PROVE  ekf' \in [q : Error, rate : 0 .. 1] /\ ekf'.q <= 1
  <2>1. ekf' = [ekf EXCEPT !.q = q_est]
    BY <1>3 DEF ResetEstimation
  <2>2. ekf'.q = q_est
    BY <1>1, <2>1
  <2> QED
    BY <1>1, <2>1, <2>2
<1>4. ASSUME NEW e \in Int, e <= 1, ekf' = [q |-> Clip(e), rate |-> 1]
      PROVE  ekf' \in [q : Error, rate : 0 .. 1] /\ ekf'.q <= 1
  BY <1>4, ClipType
<1>5. CASE 1 > AcceptableMaxTimeStep \/ 1 <= 0
  BY <1>1, <1>3, <1>5 DEF ExecuteEstimation
<1>6. CASE ~(1 > AcceptableMaxTimeStep \/ 1 <= 0)
  <2>1. stt' = [stt EXCEPT !.moved = FALSE]
    BY <1>6 DEF ExecuteEstimation
  <2>2. stt' \in DriverRecord /\ stt'.q <= 0
    BY <1>1, <2>1 DEF DriverRecord
  <2>3. CASE SttIsUpdated
    <3>1. \/ ResetEstimation /\ sound' = FALSE
          \/ \E c \in Corrections :
                /\ ekf' = [q |-> Clip(propagated + c), rate |-> 1]
                /\ sound' = (stt.q = 0 /\ (sound \/ ekf'.q \in {0, 1}))
          \/ \E q \in -Far .. Clip(propagated) :
                ekf' = [q |-> q, rate |-> 1] /\ sound' = FALSE
      BY <1>6, <2>3 DEF ExecuteEstimation
    <3>2. CASE ResetEstimation /\ sound' = FALSE
      BY <1>3, <2>2, <3>2
    <3>3. CASE \E c \in Corrections :
                  /\ ekf' = [q |-> Clip(propagated + c), rate |-> 1]
                  /\ sound' = (stt.q = 0 /\ (sound \/ ekf'.q \in {0, 1}))
      <4>1. PICK c \in Corrections :
                /\ ekf' = [q |-> Clip(propagated + c), rate |-> 1]
                /\ sound' = (stt.q = 0 /\ (sound \/ ekf'.q \in {0, 1}))
        BY <3>3
      <4>2. c \in Int /\ (c <= 0 \/ c <= q_est - ekf.q)
        BY <1>1 DEF Corrections
      <4>3. propagated + c \in Int /\ propagated + c <= 1
        BY <1>1, <1>2, <4>2
      <4>4. ekf' \in [q : Error, rate : 0 .. 1] /\ ekf'.q <= 1
        BY <1>4, <4>1, <4>3
      <4>5. sound' \in BOOLEAN
        BY <4>1
      <4> QED
        BY <2>2, <4>4, <4>5
    \* Against the sign it falls behind.
    <3>4. CASE \E q \in -Far .. Clip(propagated) : ekf' = [q |-> q, rate |-> 1] /\ sound' = FALSE
      <4>1. PICK q \in -Far .. Clip(propagated) : ekf' = [q |-> q, rate |-> 1] /\ sound' = FALSE
        BY <3>4
      <4>2. Clip(propagated) \in Error /\ Clip(propagated) <= 1
        BY <1>1, <1>2, ClipType
      <4>3. q \in Error /\ q <= 1
        BY <4>1, <4>2, AttitudeAssumption DEF Error
      <4>4. ekf' \in [q : Error, rate : 0 .. 1] /\ ekf'.q <= 1
        BY <4>1, <4>3
      <4>5. sound' \in BOOLEAN
        BY <4>1
      <4> QED
        BY <2>2, <4>4, <4>5
    <3> QED
      BY <3>1, <3>2, <3>3, <3>4
  <2>4. CASE ~SttIsUpdated
    <3>1. ekf' = [q |-> Clip(propagated), rate |-> 1] /\ sound' = sound
      BY <1>6, <2>4 DEF ExecuteEstimation
    <3>2. propagated <= 1
      BY <1>1, <1>2
    <3>3. ekf' \in [q : Error, rate : 0 .. 1] /\ ekf'.q <= 1
      BY <1>2, <1>4, <3>1, <3>2
    <3> QED
      BY <1>1, <2>2, <3>1, <3>3
  <2> QED
    BY <2>3, <2>4
<1> QED
  BY <1>5, <1>6

LEMMA StepFine == IInv /\ APP_FTAD_exec => IInv'
<1> SUFFICES ASSUME IInv, APP_FTAD_exec PROVE IInv'
  OBVIOUS
<1> USE DEF IInv
<1>1. next = 2 /\ mode = "FINE_THREE_AXIS" /\ mode' = mode /\ next' = 3
  BY Places DEF APP_FTAD_exec, GoOn
<1>2. mode' \in Mode /\ stay' \in 1 .. SetupTime[mode'] /\ next' \in 1 .. Len(TaskList[mode']) + 1
  BY PlaceStep DEF APP_FTAD_exec
<1>3. since' \in [TimedApp -> 0 .. obct_diff_max_limit + 1] /\ since'["FTAD"] = 0
  BY RanType DEF APP_FTAD_exec, TimedApp
<1>4. /\ stt \in DriverRecord /\ stt.q <= 0
      /\ ekf \in [q : Error, rate : 0 .. 1] /\ ekf.q <= 0 /\ ekf.q \in Int
      /\ q_est \in Error /\ q_est <= 0 /\ q_est \in Int
      /\ q_filtered <= 0
  BY <1>1, FreshBound, ErrorType DEF Fresh, TypeOK, DriverRecord
<1>5. good' \in 0 .. SettleCycles /\ faulty' \in 0 .. count_limit_to_accept + 1
  <2>1. /\ 0 \in 0 .. SettleCycles
        /\ count_limit_to_accept + 1 \in 0 .. count_limit_to_accept + 1
    BY AttitudeAssumption, SpikeFilterAssumption
  <2> QED
    BY <2>1 DEF APP_FTAD_exec, TypeOK
<1>6. /\ stt' \in DriverRecord /\ stt'.q <= 0
      /\ ekf' \in [q : Error, rate : 0 .. 1] /\ ekf'.q <= 1
      /\ q_est' \in Error /\ q_est' <= 1
      /\ sound' \in BOOLEAN /\ undisturbed' \in BOOLEAN
  <2>1. CASE Skipped("FTAD")
    <3>1. UNCHANGED <<q_est, stt, ekf, undisturbed>> /\ sound' = FALSE
      BY <2>1 DEF APP_FTAD_exec
    <3>2. sound' \in BOOLEAN /\ undisturbed' \in BOOLEAN
      BY <3>1 DEF TypeOK
    <3>3. ekf'.q <= 1 /\ q_est' <= 1
      BY <1>4, <3>1
    <3> QED
      BY <1>4, <3>1, <3>2, <3>3
  <2>2. CASE ~Skipped("FTAD")
    <3>1. since["FTAD"] = 1
      BY <1>1, <2>2, OneStep DEF Timing, TimedApp
    <3>2. /\ stt' \in DriverRecord /\ stt'.q <= 0
          /\ ekf' \in [q : Error, rate : 0 .. 1] /\ ekf'.q <= 1
          /\ sound' \in BOOLEAN
      <4>1. CASE method = "EKF"
        <5>1. ExecuteEstimation(1)
          BY <2>2, <3>1, <4>1 DEF APP_FTAD_exec
        <5> QED
          BY <1>1, <5>1, Estimated DEF Fresh
      <4>2. CASE method # "EKF"
        <5>1. UNCHANGED <<stt, ekf>> /\ sound' = FALSE
          BY <2>2, <4>2 DEF APP_FTAD_exec
        <5>2. sound' \in BOOLEAN
          BY <5>1
        <5>3. ekf'.q <= 1
          BY <1>4, <5>1
        <5> QED
          BY <1>4, <5>1, <5>2, <5>3
      <4> QED
        BY <4>1, <4>2
    <3>3. q_est' = ekf'.q \/ q_est' = q_est \/ q_est' = Propagated(q_est, 1)
      BY <2>2, <3>1 DEF APP_FTAD_exec, SttDirect
    <3>4. q_est' \in Error /\ q_est' <= 1
      BY <1>4, <3>2, <3>3, PropagatedType
    <3>5. undisturbed' = (undisturbed /\ ~EkfIsUsed)
      BY <2>2 DEF APP_FTAD_exec
    <3> QED
      BY <3>2, <3>4, <3>5
  <2> QED
    BY <2>1, <2>2
<1>7. UNCHANGED <<scenario, stt_available, filter, settings>>
  BY DEF APP_FTAD_exec, GoOn
<1>8. TypeOK'
  BY <1>2, <1>3, <1>5, <1>6, <1>7 DEF TypeOK, DriverRecord, filter, settings
<1>9. Timing'
  BY <1>1, <1>3 DEF Timing, RtadModes
<1>10. Lag'
  BY <1>1, <1>4, <1>6, <1>7 DEF Lag, Fresh, filter
<1> QED
  BY <1>8, <1>9, <1>10

-----------------------------------------------------------------------------
(* Commands. *)

LEMMA StepCommands == IInv /\ Commands => IInv'
<1> SUFFICES ASSUME IInv, Commands PROVE IInv'
  OBVIOUS
<1> USE DEF IInv
<1>1. next = 1 /\ UNCHANGED <<scenario, place, since, drivers, q_est>>
  BY DEF Commands, OnCommand, Cmd_APP_RTAD_SET_METHOD, Cmd_APP_FTAD_SET_METHOD,
         Cmd_STT_GYRO_EKF_ENABLE_ESTIMATED_ATTITUDE, Cmd_STT_GYRO_EKF_RESET_ESTIMATION,
         Cmd_APP_SAGITTA_FILTER_RESET_SPIKE_FILTER
<1>2. Timing'
  BY <1>1 DEF Timing, place
<1>3. ekf.q <= 0 /\ q_est <= 0 /\ ekf.q \in Int /\ q_est \in Int
  BY <1>1, FreshBound, ErrorType DEF Fresh, TypeOK
<1>4. CASE Cmd_APP_RTAD_SET_METHOD
  <2>1. rtad' \in RtadSettings
    BY <1>4, AttitudeAssumption DEF Cmd_APP_RTAD_SET_METHOD
  <2>2. UNCHANGED <<filter, method, use_ekf, ekf, trust, sound>>
    BY <1>4 DEF Cmd_APP_RTAD_SET_METHOD
  <2>3. TypeOK'
    BY <1>1, <2>1, <2>2 DEF TypeOK, place, drivers, filter, trust
  <2> QED
    BY <1>1, <1>2, <2>2, <2>3 DEF Lag, Fresh, place, drivers, filter
<1>5. CASE Cmd_APP_FTAD_SET_METHOD
  <2>1. method' \in {"STT", "EKF"} /\ UNCHANGED <<filter, rtad, use_ekf, ekf, trust, sound>>
    BY <1>5 DEF Cmd_APP_FTAD_SET_METHOD
  <2>2. TypeOK'
    BY <1>1, <2>1 DEF TypeOK, place, drivers, filter, trust
  <2> QED
    BY <1>1, <1>2, <2>1, <2>2 DEF Lag, Fresh, place, drivers, filter
<1>6. CASE Cmd_STT_GYRO_EKF_ENABLE_ESTIMATED_ATTITUDE
  <2>1. use_ekf' \in 0 .. 2
    BY <1>6, AttitudeAssumption DEF Cmd_STT_GYRO_EKF_ENABLE_ESTIMATED_ATTITUDE
  <2>2. UNCHANGED <<filter, rtad, method, ekf, trust, sound>>
    BY <1>6 DEF Cmd_STT_GYRO_EKF_ENABLE_ESTIMATED_ATTITUDE
  <2>3. TypeOK'
    BY <1>1, <2>1, <2>2 DEF TypeOK, place, drivers, filter, trust
  <2> QED
    BY <1>1, <1>2, <2>2, <2>3 DEF Lag, Fresh, place, drivers, filter
<1>7. CASE Cmd_STT_GYRO_EKF_RESET_ESTIMATION
  <2>1. PICK q \in {0, q_est} \cup WrongErrors : ekf' = [ekf EXCEPT !.q = q]
    BY <1>7 DEF Cmd_STT_GYRO_EKF_RESET_ESTIMATION
  <2>2. q \in Error /\ q <= 0
    BY <1>3, <2>1, ErrorType DEF TypeOK
  <2>3. ekf' \in [q : Error, rate : 0 .. 1] /\ ekf'.q = q
    BY <2>1, <2>2 DEF TypeOK
  <2>4. sound' = FALSE /\ UNCHANGED <<filter, settings, trust>>
    BY <1>7 DEF Cmd_STT_GYRO_EKF_RESET_ESTIMATION
  <2>5. TypeOK'
    BY <1>1, <2>3, <2>4 DEF TypeOK, place, drivers, filter, settings, trust
  <2>6. Lag'
    BY <1>1, <1>3, <2>2, <2>3, <2>4, ErrorType DEF Lag, Fresh, place, drivers, filter
  <2> QED
    BY <1>2, <2>5, <2>6
<1>8. CASE Cmd_APP_SAGITTA_FILTER_RESET_SPIKE_FILTER
  <2>1. spike' = SPIKE_FILTER_reset /\ good' = 0
    BY <1>8 DEF Cmd_APP_SAGITTA_FILTER_RESET_SPIKE_FILTER
  <2>2. spike' \in SpikeFilterOf(0 .. FullTurn) /\ good' \in 0 .. SettleCycles
    BY <2>1, AttitudeAssumption, SpikeFilterAssumption DEF SPIKE_FILTER_reset, SpikeFilterOf
  <2>3. UNCHANGED <<q_filtered, filter_ok, opposite, settings, ekf, faulty, undisturbed, sound>>
    BY <1>8 DEF Cmd_APP_SAGITTA_FILTER_RESET_SPIKE_FILTER
  <2>4. TypeOK'
    BY <1>1, <2>2, <2>3 DEF TypeOK, place, drivers, settings
  <2> QED
    BY <1>1, <1>2, <2>3, <2>4 DEF Lag, Fresh, place, drivers
<1> QED
  BY <1>4, <1>5, <1>6, <1>7, <1>8 DEF Commands

-----------------------------------------------------------------------------
(* The end of a cycle. *)

\* Where transitions lead to.
LEMMA ModesApart ==
    ASSUME NEW m \in Mode, NEW n \in Successors[m] \ {m}
    PROVE  /\ n \in Mode
           /\ n \in RtadModes => m \in RtadModes \cup {"BDOT"}
           /\ n = "FINE_THREE_AXIS" => m = "ROUGH_THREE_AXIS_RW"
<1>1. Successors[m] = CASE m = "INITIAL" -> {"BDOT"}
          [] m = "BDOT" -> {"INITIAL", "BDOT", "ROUGH_SUN_POINTING"}
          [] m = "ROUGH_SUN_POINTING" -> {"BDOT", m, "ROUGH_THREE_AXIS"}
          [] m = "ROUGH_THREE_AXIS" -> {"BDOT", m, "ROUGH_THREE_AXIS_RW"}
          [] m = "ROUGH_THREE_AXIS_RW" -> {"BDOT", m, "FINE_THREE_AXIS"}
          [] m = "FINE_THREE_AXIS" -> {"BDOT", m}
  BY DEF Successors
<1> QED
  BY <1>1 DEF Mode, RtadModes

LEMMA SinceStep ==
    ASSUME TypeOK, EndCycle
    PROVE  /\ since' \in [TimedApp -> 0 .. obct_diff_max_limit + 1]
           /\ \A app \in TimedApp :
                 /\ since[app] = 0 => since'[app] = 1
                 /\ since'[app] >= 1
                 /\ since[app] >= obct_diff_max_limit => since'[app] = TooLong
                 /\ since'[app] = since[app] + 1 \/ since'[app] = TooLong
<1>1. obct_diff_max_limit \in Nat \ {0}
  BY AttitudeAssumption
<1>2. since' = [app \in TimedApp |-> Min2(since[app] + 1, obct_diff_max_limit + 1)]
  BY DEF EndCycle
<1>3. \A app \in TimedApp : since[app] \in 0 .. obct_diff_max_limit + 1
  BY DEF TypeOK
<1> QED
  BY <1>1, <1>2, <1>3 DEF Min2, TooLong

LEMMA StepEnd == IInv /\ EndCycle => IInv'
<1> SUFFICES ASSUME IInv, EndCycle PROVE IInv'
  OBVIOUS
<1> USE DEF IInv
<1>1. next = Len(TaskList[mode]) + 1 /\ next' = 1 /\ mode \in Mode
  BY DEF EndCycle, TypeOK
<1>2. SetupTime \in [Mode -> Nat] /\ \A m \in Mode : SetupTime[m] >= 1
  BY TimeAssumption
<1>3. \/ mode' = mode /\ stay' = Min2(stay + 1, SetupTime[mode])
      \/ stay = SetupTime[mode] /\ mode' \in Successors[mode] \ {mode} /\ stay' = 1
  BY DEF EndCycle
<1>4. mode' \in Mode
  BY <1>1, <1>3, ModesApart
<1>5. stay' \in 1 .. SetupTime[mode']
  BY <1>1, <1>2, <1>3, <1>4 DEF TypeOK, Min2
<1>6. next' \in 1 .. Len(TaskList[mode']) + 1
  BY <1>1, <1>4, LengthType
<1>7. /\ q_est' \in Error /\ q_est' <= 0
      /\ q_filtered' \in Error /\ q_filtered' < 0 /\ q_filtered' <= 0
  <2>1. q_est \in Error /\ q_est <= 1 /\ q_filtered \in Error /\ q_filtered <= 0
    BY ErrorType DEF TypeOK, Lag
  <2>2. q_est' = Later(q_est) /\ q_filtered' = Later(q_filtered)
    BY DEF EndCycle
  <2>3. Later(q_filtered) \in Int
    BY <2>1, LaterType, ErrorType
  <2> QED
    BY <2>1, <2>2, <2>3, LaterType
<1>8. stt' \in DriverRecord /\ stt'.q <= 0
  <2>1. stt' = [stt EXCEPT !.q = Later(stt.q)]
    BY DEF EndCycle
  <2>2. stt.q \in Error /\ stt.q <= 1
    BY ErrorType DEF TypeOK, Lag
  <2>3. Later(stt.q) \in Error /\ Later(stt.q) <= 0
    BY <2>2, LaterType
  <2>4. stt \in DriverRecord
    BY DEF TypeOK, DriverRecord
  <2>5. stt'.q = Later(stt.q)
    BY <2>1, <2>4 DEF DriverRecord
  <2> QED
    BY <2>1, <2>3, <2>4, <2>5 DEF DriverRecord
<1>9. ekf' \in [q : Error, rate : 0 .. 1] /\ ekf'.q <= 0
  <2>1. ekf' = [ekf EXCEPT !.q = Later(ekf.q)]
    BY DEF EndCycle
  <2>2. ekf.q \in Error /\ ekf.q <= 1
    BY DEF TypeOK, Lag
  <2>3. Later(ekf.q) \in Error /\ Later(ekf.q) <= 0
    BY <2>2, LaterType
  <2>4. ekf'.q = Later(ekf.q)
    BY <2>1 DEF TypeOK
  <2> QED
    BY <2>1, <2>3, <2>4 DEF TypeOK
<1>10. good' \in 0 .. SettleCycles /\ faulty' \in 0 .. count_limit_to_accept + 1
  <2>1. good' \in {good, 0} /\ faulty' \in {faulty, count_limit_to_accept + 1}
    BY DEF EndCycle
  <2> QED
    BY <2>1, AttitudeAssumption, SpikeFilterAssumption DEF TypeOK
<1>11. undisturbed' \in BOOLEAN
  <2>1. undisturbed' = (undisturbed /\ mode' # "BDOT")
    BY DEF EndCycle
  <2> QED
    BY <2>1
<1>12. UNCHANGED <<scenario, stt_available, spike, filter_ok, opposite, settings, sound>>
  BY DEF EndCycle
<1>13. TypeOK'
  BY <1>4, <1>5, <1>6, <1>7, <1>8, <1>9, <1>10, <1>11, <1>12, SinceStep DEF TypeOK, DriverRecord, settings
<1>14. Lag'
  BY <1>1, <1>7, <1>8, <1>9, ErrorType DEF Lag, Fresh
<1>15. Timing'
  <2>1. ASSUME mode' = "BDOT", NEW app \in TimedApp
        PROVE  since'[app] >= stay' \/ since'[app] = TooLong
    <3>1. CASE mode = "BDOT"
      <4>1. stay' = Min2(stay + 1, SetupTime[mode])
        BY <1>3, <2>1, <3>1
      <4>2. stay' <= stay + 1
        BY <1>2, <4>1, <3>1 DEF TypeOK, Min2, Mode
      <4>3. stay \in Nat /\ stay' \in Nat /\ since[app] \in Nat
        BY <1>2, <1>4, <1>5, <3>1, AttitudeAssumption DEF TypeOK, Mode
      <4>4. since[app] >= stay \/ since[app] = TooLong
        BY <3>1 DEF Timing
      <4>5. CASE since[app] >= stay
        BY <4>2, <4>3, <4>5, SinceStep
      <4>6. CASE since[app] = TooLong
        BY <4>6, SinceStep, AttitudeAssumption DEF TooLong
      <4> QED
        BY <4>4, <4>5, <4>6
    <3>2. CASE mode # "BDOT"
      BY <1>3, <2>1, <3>2, SinceStep
    <3> QED
      BY <3>1, <3>2
  \* Coming from BDOT, all has been too long ago.
  <2>2. ASSUME mode = "BDOT", mode' # mode, NEW app \in TimedApp
        PROVE  since'[app] = TooLong
    <3>1. stay >= obct_diff_max_limit
      BY <1>3, <2>2, AttitudeAssumption
    <3>2. since[app] >= stay \/ since[app] = TooLong
      BY <2>2 DEF Timing
    <3>3. since[app] >= obct_diff_max_limit
      BY <1>2, <3>1, <3>2, AttitudeAssumption DEF TooLong, TypeOK
    <3> QED
      BY <3>3, SinceStep
  <2>3. ASSUME mode' \in RtadModes
        PROVE  since'["FTAD"] = TooLong /\ since'["RTAD"] \in {1, TooLong}
    <3>1. mode \in RtadModes \cup {"BDOT"}
      BY <1>1, <1>3, <2>3, ModesApart
    <3>2. CASE mode = "BDOT"
      BY <2>2, <2>3, <3>2 DEF TimedApp, RtadModes
    <3>3. CASE mode \in RtadModes
      <4>1. next # 1
        <5>1. Len(TaskList[mode]) \in {1, 2}
          BY <3>3, Lengths DEF RtadModes
        <5> QED
          BY <1>1, <5>1
      <4>2. since["FTAD"] = TooLong /\ since["RTAD"] = 0
        BY <3>3, <4>1 DEF Timing
      <4> QED
        BY <4>2, SinceStep, AttitudeAssumption DEF TimedApp, TooLong
    <3> QED
      BY <3>1, <3>2, <3>3
  <2>4. ASSUME mode' = "FINE_THREE_AXIS"
        PROVE  since'["FTAD"] \in {1, TooLong}
    <3>1. mode \in {"ROUGH_THREE_AXIS_RW", "FINE_THREE_AXIS"}
      BY <1>1, <1>3, <2>4, ModesApart
    <3>2. CASE mode = "ROUGH_THREE_AXIS_RW"
      BY <3>2, SinceStep, AttitudeAssumption DEF Timing, TimedApp, TooLong, RtadModes
    <3>3. CASE mode = "FINE_THREE_AXIS"
      <4>1. next = 3
        BY <1>1, <3>3, Lengths
      <4>2. since["FTAD"] = 0
        BY <3>3, <4>1 DEF Timing
      <4> QED
        BY <4>2, SinceStep DEF TimedApp
    <3> QED
      BY <3>1, <3>2, <3>3
  <2> QED
    BY <1>1, <2>1, <2>3, <2>4 DEF Timing
<1> QED
  BY <1>13, <1>14, <1>15

-----------------------------------------------------------------------------
(* The invariant. *)

LEMMA StepStutter == IInv /\ UNCHANGED vars => IInv'
  BY DEF IInv, TypeOK, Timing, Lag, Fresh, vars, place, drivers, filter, settings, trust

LEMMA Inductive == Spec => []IInv
<1>1. IInv /\ [Next]_vars => IInv'
  BY StepDriver, StepTracker, StepRough, StepFine, StepCommands, StepEnd, StepStutter
  DEF Next, Entry
<1> QED
  BY <1>1, InitIInv, PTL DEF Spec

-----------------------------------------------------------------------------
(* An estimate that nothing has disturbed. *)

LEMMA HandoverEntries ==
    ASSUME IInv, Handover, Entry
    PROVE  Handover'
<1> USE DEF IInv
<1>1. CASE DI_SAGITTA
  <2>1. next = 2 /\ mode = "ROUGH_THREE_AXIS_RW" /\ mode' = mode /\ next' = 3
    BY <1>1, Places DEF DI_SAGITTA, GoOn
  <2>2. UNCHANGED <<since, stt_available, q_est, undisturbed>>
    BY <1>1 DEF DI_SAGITTA, trust
  <2> QED
    BY <2>1, <2>2 DEF Handover, RtadModes
<1>2. CASE STT_UPDATE
  <2>1. next = 1 /\ mode \in {"INITIAL", "FINE_THREE_AXIS"} /\ mode' = mode /\ next' = 2
    BY <1>2, Places DEF STT_UPDATE, GoOn
  <2>2. /\ stt_available' = stt'.valid
        /\ stt_available' \in BOOLEAN
        /\ since' = since
        /\ undisturbed' = (mode = "FINE_THREE_AXIS" /\
               IF stt'.valid THEN (stt'.valid /\ stt'.number /\ stt'.q = 0) /\ filter_ok'
               ELSE undisturbed)
    BY <1>2, TrackerStep DEF STT_UPDATE
  <2>5. PICK opposed \in BOOLEAN : APP_SAGITTA_FILTER_exec(stt_available', stt', opposed)
    <3>1. PICK turned \in BOOLEAN : APP_SAGITTA_FILTER_exec(stt_available', stt', opposite # turned)
      BY <1>2, TrackerStep
    <3>2. (opposite # turned) \in BOOLEAN
      OBVIOUS
    <3> QED
      BY <3>1, <3>2
  <2>3. CASE stt_available'
    <3>1. undisturbed' => mode = "FINE_THREE_AXIS" /\ stt'.q = 0 /\ filter_ok'
      BY <2>2, <2>3
    <3>2. filter_ok' => q_est' = stt'.q
      BY <1>2, <2>2, <2>3, <2>5, FilterStep, TrackerStep
    <3> QED
      BY <2>1, <2>3, <3>1, <3>2 DEF Handover, RtadModes
  <2>4. CASE ~stt_available'
    <3>1. q_est' = q_est
      BY <2>4, <2>5 DEF APP_SAGITTA_FILTER_exec
    <3>2. undisturbed' => mode = "FINE_THREE_AXIS" /\ undisturbed
      BY <2>2, <2>4
    <3> QED
      BY <2>1, <2>2, <2>4, <3>1, <3>2 DEF Handover, RtadModes
  <2> QED
    BY <2>3, <2>4
<1>3. CASE APP_RTAD_exec
  <2>1. next = 1 /\ mode \in RtadModes /\ mode' = mode /\ next' = 2
    BY <1>3, Places DEF APP_RTAD_exec, GoOn
  <2>2. undisturbed' => q_est' = 0
    <3>1. ASSUME undisturbed
          PROVE  since["RTAD"] = 1 /\ q_est = -1 /\ ~Skipped("RTAD")
      BY <2>1, <3>1, AttitudeAssumption DEF Handover, Skipped
    <3>2. CASE Skipped("RTAD")
      BY <1>3, <3>1, <3>2 DEF APP_RTAD_exec
    <3>3. CASE ~Skipped("RTAD")
      <4>1. PICK available \in BOOLEAN :
               \/ q_est' = Propagated(q_est, since["RTAD"]) /\ undisturbed' = undisturbed
               \/ q_est' \in Determined(available) /\ undisturbed' = available
        BY <1>3, <3>3 DEF APP_RTAD_exec
      <4>2. CASE q_est' = Propagated(q_est, since["RTAD"]) /\ undisturbed' = undisturbed
        <5>1. undisturbed => q_est' = Propagated(-1, 1)
          BY <3>1, <4>2
        <5>2. Propagated(-1, 1) = 0
          BY AttitudeAssumption DEF Propagated, Clip
        <5> QED
          BY <4>2, <5>1, <5>2
      <4>3. CASE q_est' \in Determined(available) /\ undisturbed' = available
        BY <4>3 DEF Determined
      <4> QED
        BY <4>1, <4>2, <4>3
    <3> QED
      BY <3>2, <3>3
  <2> QED
    BY <2>1, <2>2 DEF Handover, RtadModes
<1>4. CASE APP_FTAD_exec
  <2>1. next = 2 /\ mode = "FINE_THREE_AXIS" /\ mode' = mode /\ next' = 3
    BY <1>4, Places DEF APP_FTAD_exec, GoOn
  <2>2. undisturbed' => q_est' \in {-1, 0}
    <3>1. CASE Skipped("FTAD")
      <4>1. q_est' = q_est /\ undisturbed' = undisturbed
        BY <1>4, <3>1 DEF APP_FTAD_exec
      <4>2. since["FTAD"] = TooLong
        BY <2>1, <3>1, AttitudeAssumption DEF Timing, Skipped
      <4> QED
        BY <2>1, <4>1, <4>2 DEF Handover, TypeOK
    <3>2. CASE ~Skipped("FTAD")
      <4>1. since["FTAD"] = 1
        BY <2>1, <3>2, OneStep DEF Timing, TimedApp
      <4>2. undisturbed' = (undisturbed /\ ~EkfIsUsed)
        BY <1>4, <3>2 DEF APP_FTAD_exec
      <4>3. ~EkfIsUsed => q_est' = IF stt_available THEN q_est ELSE Propagated(q_est, 1)
        BY <1>4, <3>2, <4>1 DEF APP_FTAD_exec, SttDirect
      <4>4. Propagated(-2, 1) = -1 /\ Propagated(-1, 1) = 0
        BY AttitudeAssumption DEF Propagated, Clip
      <4>5. ASSUME undisturbed
            PROVE  IF stt_available THEN q_est = 0 ELSE q_est \in {-2, -1}
        BY <2>1, <4>5 DEF Handover
      <4> QED
        BY <4>2, <4>3, <4>4, <4>5
    <3> QED
      BY <3>1, <3>2
  <2> QED
    BY <2>1, <2>2 DEF Handover, RtadModes
<1> QED
  BY <1>1, <1>2, <1>3, <1>4 DEF Entry

LEMMA HandoverCommands ==
    ASSUME IInv, Handover, Commands
    PROVE  Handover'
<1>1. UNCHANGED <<place, since, drivers, q_est>> /\ undisturbed' = undisturbed
  BY DEF Commands, OnCommand, Cmd_APP_RTAD_SET_METHOD, Cmd_APP_FTAD_SET_METHOD,
         Cmd_STT_GYRO_EKF_ENABLE_ESTIMATED_ATTITUDE, Cmd_STT_GYRO_EKF_RESET_ESTIMATION,
         Cmd_APP_SAGITTA_FILTER_RESET_SPIKE_FILTER, trust
<1> QED
  BY <1>1 DEF Handover, place, drivers

LEMMA HandoverEnd ==
    ASSUME IInv, Handover, EndCycle
    PROVE  Handover'
<1> USE DEF IInv
<1> SUFFICES ASSUME undisturbed' PROVE Handover'
  BY DEF Handover
<1>1. next = Len(TaskList[mode]) + 1 /\ next' = 1 /\ mode \in Mode
  BY DEF EndCycle, TypeOK
<1>2. undisturbed /\ mode' # "BDOT"
  BY DEF EndCycle
<1>3. mode' = mode \/ mode' \in Successors[mode] \ {mode}
  BY DEF EndCycle
<1>4. mode \in RtadModes \cup {"FINE_THREE_AXIS"}
  BY <1>1, <1>2 DEF Handover, Mode, RtadModes
<1>5. q_est' = Later(q_est)
  BY DEF EndCycle
<1>6. Later(0) = -1 /\ Later(-1) \in {-2, -1}
  BY AttitudeAssumption DEF Later, Clip
<1>7. CASE mode \in RtadModes
  <2>1. next # 1
    <3>1. Len(TaskList[mode]) \in {1, 2}
      BY <1>7, Lengths DEF RtadModes
    <3> QED
      BY <1>1, <3>1
  <2>2. q_est' = -1 /\ since'["RTAD"] = 1
    BY <1>2, <1>5, <1>6, <1>7, <2>1, SinceStep DEF Handover, Timing, TimedApp
  <2>3. mode' # "INITIAL"
    BY <1>3, <1>7 DEF Successors, Mode, RtadModes
  <2> QED
    BY <1>1, <1>2, <2>2, <2>3 DEF Handover
<1>8. CASE mode = "FINE_THREE_AXIS"
  <2>1. mode' = "FINE_THREE_AXIS"
    BY <1>2, <1>3, <1>8 DEF Successors, Mode
  <2>2. next = 3
    BY <1>1, <1>8, Lengths
  <2>3. q_est' \in {-2, -1}
    BY <1>2, <1>5, <1>6, <1>8, <2>2 DEF Handover
  <2>4. since'["FTAD"] = 1
    BY <1>8, <2>2, SinceStep DEF Timing, TimedApp
  <2>5. since'["FTAD"] # TooLong
    BY <2>4, AttitudeAssumption DEF TooLong
  <2> QED
    BY <1>1, <2>1, <2>3, <2>5 DEF Handover, RtadModes
<1> QED
  BY <1>4, <1>7, <1>8

LEMMA HandoverStutter ==
    ASSUME Handover, UNCHANGED vars
    PROVE  Handover'
  BY DEF Handover, vars, place, drivers, trust

LEMMA HandoverInductive == Spec => []Handover
<1>1. Init => Handover
  BY DEF Init, Handover
<1>2. IInv /\ Handover /\ [Next]_vars => Handover'
  BY HandoverEntries, HandoverCommands, HandoverEnd, HandoverStutter DEF Next
<1> QED
  BY <1>1, <1>2, Inductive, PTL DEF Spec

-----------------------------------------------------------------------------
(* No time is propagated twice, and at most one cycle is lost. *)

\* The state keeps its types: what the filters, the determinations and the Kalman filter
\* write stays in range, and the place in the task lists is one that the mode has.
THEOREM TypeCorrect == Spec => []TypeOK
<1>1. IInv => TypeOK
  BY DEF IInv
<1> QED
  BY <1>1, Inductive, PTL

\* No time is propagated twice: the determinations share an estimate, but each propagates it
\* over the time since its own last run, and takes a time that spans other modes as too long.
THEOREM NeverAheadAlways == Spec => []NeverAhead
<1>1. IInv => NeverAhead
  BY DEF IInv, Lag, NeverAhead
<1> QED
  BY <1>1, Inductive, PTL

\* The change from the rough to the fine determination, and every outage of sun and stars
\* around it, costs an estimate that nothing wrong has disturbed at most one cycle.
THEOREM HandoverAlways == Spec => []HandoverKeepsAttitude
<1>1. IInv /\ Handover => HandoverKeepsAttitude
  <2> SUFFICES ASSUME IInv, Handover, AtEnd, undisturbed PROVE q_est \in {-1, 0}
    BY DEF HandoverKeepsAttitude
  <2>1. mode \in RtadModes \cup {"FINE_THREE_AXIS"}
    BY DEF Handover, IInv, TypeOK, Mode, RtadModes
  <2>2. CASE mode \in RtadModes
    <3>1. next # 1
      <4>1. Len(TaskList[mode]) \in {1, 2}
        BY <2>2, Lengths DEF RtadModes
      <4> QED
        BY <4>1 DEF AtEnd
    <3> QED
      BY <2>2, <3>1 DEF Handover
  <2>3. CASE mode = "FINE_THREE_AXIS"
    BY <2>3, Lengths DEF Handover, AtEnd
  <2> QED
    BY <2>1, <2>2, <2>3
<1> QED
  BY <1>1, Inductive, HandoverInductive, PTL

-----------------------------------------------------------------------------
(* The Kalman filter. *)

\* While nothing but right solutions was taken, the estimate of the Kalman filter is right, or
\* leads by one once it has run; coming from another mode it may be anything, but then the
\* first time step is too long.  A solution that is taken is the estimate of the manager.
Bridge ==
    /\ mode = "FINE_THREE_AXIS" /\ next = 2 /\ stt_available /\ filter_ok => q_est = stt.q
    /\ sound =>
           /\ ekf.rate = 1
           /\ mode = "FINE_THREE_AXIS" =>
                  /\ next # 3 => since["FTAD"] = TooLong \/ ekf.q \in {-1, 0}
                  /\ next = 3 => ekf.q \in {0, 1} /\ (EkfIsUsed => q_est = ekf.q)

LEMMA BridgeTracker ==
    ASSUME IInv, Bridge, STT_UPDATE
    PROVE  Bridge'
<1> USE DEF IInv
<1>1. next = 1 /\ mode' = mode /\ next' = 2
  BY Places DEF STT_UPDATE, GoOn
<1>2. UNCHANGED <<since, settings, ekf, sound>>
  BY DEF STT_UPDATE
<1>3. stt_available' /\ filter_ok' => q_est' = stt'.q
  <2>1. PICK turned \in BOOLEAN : APP_SAGITTA_FILTER_exec(stt_available', stt', opposite # turned)
    BY TrackerStep
  <2>2. (opposite # turned) \in BOOLEAN
    OBVIOUS
  <2> QED
    BY <2>1, <2>2, FilterStep, TrackerStep
<1> QED
  BY <1>1, <1>2, <1>3 DEF Bridge

\* One step of the Kalman filter from a right estimate.
LEMMA BridgeEstimate ==
    ASSUME IInv, Bridge, mode = "FINE_THREE_AXIS", next = 2, since["FTAD"] = 1,
           ExecuteEstimation(1), sound'
    PROVE  ekf'.rate = 1 /\ ekf'.q \in {0, 1}
<1>1. /\ ekf.q \in Int /\ q_est \in Int /\ sound \in BOOLEAN
      /\ since["FTAD"] # TooLong
  <2>1. ekf.q \in Error /\ q_est \in Error /\ sound \in BOOLEAN
    BY DEF IInv, TypeOK
  <2>2. 1 # TooLong
    BY AttitudeAssumption DEF TooLong
  <2> QED
    BY <2>1, <2>2, ErrorType
<1>2. sound => ekf.rate = 1 /\ ekf.q \in {-1, 0}
  BY <1>1 DEF Bridge
<1>3. Clip(0) = 0 /\ Clip(1) = 1
  BY AttitudeAssumption DEF Clip
<1>4. ~(1 > AcceptableMaxTimeStep \/ 1 <= 0)
  BY DEF ExecuteEstimation
<1>5. CASE SttIsUpdated
  <2>1. PICK c \in Corrections :
            /\ ekf' = [q |-> Clip(ekf.q + ekf.rate * 1 + c), rate |-> 1]
            /\ sound' = (stt.q = 0 /\ (sound \/ ekf'.q \in {0, 1}))
    BY <1>4, <1>5 DEF ExecuteEstimation
  <2>2. CASE sound
    <3>1. q_est = 0
      BY <1>5, <2>1 DEF Bridge, SttIsUpdated
    <3>2. ekf.rate = 1 /\ ekf.q \in {-1, 0}
      BY <1>2, <2>2
    <3>3. c \in 0 .. -ekf.q
      BY <2>1, <3>1, <3>2 DEF Corrections
    <3>4. ekf.q + ekf.rate * 1 + c \in {0, 1}
      BY <3>2, <3>3
    <3> QED
      BY <1>3, <2>1, <3>4
  <2>3. CASE ~sound
    BY <2>1, <2>3
  <2> QED
    BY <2>2, <2>3
<1>6. CASE ~SttIsUpdated
  <2>1. ekf' = [q |-> Clip(ekf.q + ekf.rate * 1), rate |-> 1] /\ sound' = sound
    BY <1>4, <1>6 DEF ExecuteEstimation
  <2>2. ekf.rate = 1 /\ ekf.q \in {-1, 0}
    BY <1>2, <2>1
  <2>3. ekf.q + ekf.rate * 1 \in {0, 1}
    BY <2>2
  <2> QED
    BY <1>3, <2>1, <2>3
<1> QED
  BY <1>5, <1>6

LEMMA BridgeFine ==
    ASSUME IInv, Bridge, APP_FTAD_exec
    PROVE  Bridge'
<1>1. next = 2 /\ mode = "FINE_THREE_AXIS" /\ mode' = mode /\ next' = 3
  BY Places DEF IInv, APP_FTAD_exec, GoOn
<1> SUFFICES ASSUME sound' PROVE ekf'.rate = 1 /\ ekf'.q \in {0, 1} /\ (EkfIsUsed' => q_est' = ekf'.q)
  BY <1>1 DEF Bridge
<1>2. ~Skipped("FTAD") /\ method = "EKF"
  BY DEF APP_FTAD_exec
<1>3. since["FTAD"] = 1
  BY <1>1, <1>2, OneStep DEF IInv, Timing, TimedApp
<1>4. ExecuteEstimation(1)
  BY <1>2, <1>3 DEF APP_FTAD_exec
<1>5. EkfIsUsed' = EkfIsUsed
  BY DEF APP_FTAD_exec, settings, EkfIsUsed
<1>6. EkfIsUsed => q_est' = ekf'.q
  BY <1>2 DEF APP_FTAD_exec
<1> QED
  BY <1>1, <1>3, <1>4, <1>5, <1>6, BridgeEstimate

LEMMA BridgeOthers ==
    ASSUME IInv, Bridge, DI_SAGITTA \/ APP_RTAD_exec
    PROVE  Bridge'
<1>1. mode # "FINE_THREE_AXIS" /\ mode' = mode
  BY Places DEF IInv, DI_SAGITTA, APP_RTAD_exec, GoOn, RtadModes
<1>2. UNCHANGED <<ekf, sound>>
  BY DEF DI_SAGITTA, APP_RTAD_exec
<1> QED
  BY <1>1, <1>2 DEF Bridge

LEMMA BridgeCommands ==
    ASSUME IInv, Bridge, Commands
    PROVE  Bridge'
<1>1. next = 1 /\ UNCHANGED <<place, since, drivers, q_est>>
  BY DEF Commands, OnCommand, Cmd_APP_RTAD_SET_METHOD, Cmd_APP_FTAD_SET_METHOD,
         Cmd_STT_GYRO_EKF_ENABLE_ESTIMATED_ATTITUDE, Cmd_STT_GYRO_EKF_RESET_ESTIMATION,
         Cmd_APP_SAGITTA_FILTER_RESET_SPIKE_FILTER
<1>2. UNCHANGED <<ekf, sound>> \/ sound' = FALSE
  BY DEF Commands, Cmd_APP_RTAD_SET_METHOD, Cmd_APP_FTAD_SET_METHOD,
         Cmd_STT_GYRO_EKF_ENABLE_ESTIMATED_ATTITUDE, Cmd_STT_GYRO_EKF_RESET_ESTIMATION,
         Cmd_APP_SAGITTA_FILTER_RESET_SPIKE_FILTER
<1> QED
  BY <1>1, <1>2 DEF Bridge, place

\* The end of a cycle for a mode that is entered or kept.
LEMMA FineEntered ==
    ASSUME IInv, EndCycle, mode' = "FINE_THREE_AXIS"
    PROVE  /\ next' = 1
           /\ \/ mode = "FINE_THREE_AXIS" /\ next = 3
              \/ mode = "ROUGH_THREE_AXIS_RW" /\ since'["FTAD"] = TooLong
<1>1. next = Len(TaskList[mode]) + 1 /\ next' = 1 /\ mode \in Mode
  BY DEF EndCycle, IInv, TypeOK
<1>2. mode = "FINE_THREE_AXIS" \/ mode = "ROUGH_THREE_AXIS_RW"
  BY <1>1, ModesApart DEF EndCycle
<1>3. CASE mode = "FINE_THREE_AXIS"
  BY <1>1, <1>3, Lengths
<1>4. CASE mode = "ROUGH_THREE_AXIS_RW"
  <2>1. since["FTAD"] >= obct_diff_max_limit
    BY <1>4, AttitudeAssumption DEF IInv, Timing, TooLong, RtadModes
  <2> QED
    BY <1>1, <1>4, <2>1, SinceStep DEF IInv, TimedApp
<1> QED
  BY <1>1, <1>2, <1>3, <1>4

LEMMA BridgeEnd ==
    ASSUME IInv, Bridge, EndCycle
    PROVE  Bridge'
<1>1. next' = 1 /\ sound' = sound /\ ekf' = [ekf EXCEPT !.q = Later(ekf.q)]
  BY DEF EndCycle
<1>2. ekf'.q = Later(ekf.q) /\ ekf'.rate = ekf.rate
  BY <1>1 DEF IInv, TypeOK
<1>3. Later(0) = -1 /\ Later(1) = 0
  BY AttitudeAssumption DEF Later, Clip
<1>4. ASSUME mode' = "FINE_THREE_AXIS", sound
      PROVE  since'["FTAD"] = TooLong \/ ekf'.q \in {-1, 0}
  <2>1. CASE mode = "FINE_THREE_AXIS" /\ next = 3
    BY <1>2, <1>3, <1>4, <2>1 DEF Bridge
  <2> QED
    BY <1>4, <2>1, FineEntered
<1> QED
  BY <1>1, <1>2, <1>4 DEF Bridge

LEMMA BridgeInductive == Spec => []Bridge
<1>1. Init => Bridge
  BY DEF Init, Bridge
<1>2. IInv /\ Bridge /\ UNCHANGED vars => Bridge'
  BY DEF Bridge, EkfIsUsed, vars, place, drivers, filter, settings
<1>3. IInv /\ Bridge /\ [Next]_vars => Bridge'
  BY <1>2, BridgeTracker, BridgeFine, BridgeOthers, BridgeCommands, BridgeEnd DEF Next, Entry
<1> QED
  BY <1>1, <1>3, Inductive, PTL DEF Spec

\* The Kalman filter bridges the silence of the star tracker, whatever its gain and however
\* long the silence, as long as it was corrected by right solutions of its own sign: what it
\* propagates stays within the one step it leads by.
THEOREM EkfBridgesAlways == Spec => []EkfBridgesSilence
<1>1. IInv /\ Bridge => EkfBridgesSilence
  <2> SUFFICES ASSUME Bridge, AtEnd, mode = "FINE_THREE_AXIS", EkfIsUsed, sound
               PROVE  q_est \in {0, 1}
    BY DEF EkfBridgesSilence
  <2>1. next = 3
    BY Lengths DEF AtEnd
  <2> QED
    BY <2>1 DEF Bridge
<1> QED
  BY <1>1, Inductive, BridgeInductive, PTL

-----------------------------------------------------------------------------
(* How the filter of the star tracker settles. *)

\* The error that an angle stands for: with the other sign it is missing from a full turn.
ErrorOf(angle, opposed) == IF opposed THEN FullTurn - angle ELSE angle

\* What the filter has come to after so many right solutions in a row.  After a solution that
\* it accepted, whose sign it then has, it holds what it accepted first, or what it accepted as
\* a step after that, or the angle of one cycle.  After one that it rejected, it counts, for
\* the first time or after the first accepted solution.
Stage(accepted, opposed, filter_, solutions) ==
    IF accepted
    THEN /\ ~opposed
         /\ filter_.count_to_accept = 0
         /\ \/ solutions <= count_limit_to_accept + 2
            \/ filter_.last_accept <= count_limit_to_accept + 2
         /\ solutions >= 2 * count_limit_to_accept + 5 => filter_.last_accept = 1
    ELSE /\ ErrorOf(filter_.last_reject, opposed) <= Far
         /\ \/ solutions <= filter_.count_to_accept + 1
            \/ /\ ~opposed
               /\ filter_.last_reject \in 1 .. filter_.count_to_accept + 1
               /\ solutions <= count_limit_to_accept + 3 + filter_.count_to_accept

\* The error of the attitude accepted last, after right solutions.
Held ==
    LET q == IF filter_ok THEN 0 ELSE -ErrorOf(spike.last_reject, opposite)
    IN  IF next = 1 THEN Later(q) ELSE q

Settling ==
    good > 0 =>
        /\ mode = "FINE_THREE_AXIS"
        /\ q_filtered = Held
        /\ next # 1 => stt_available /\ q_est = q_filtered
        /\ Stage(filter_ok, opposite, spike, good)

\* What a spike leaves, and what an input that is none.
LEMMA FilterOutput ==
    ASSUME NEW f \in SpikeFilterOf(0 .. FullTurn), NEW x \in 0 .. FullTurn
    PROVE  LET out == SPIKE_FILTER_calc_output(f, x)
           IN  /\ IsSpike(f, x) =>
                      /\ f.count_to_accept < count_limit_to_accept
                      /\ Distance(x, f.last_accept) > reject_threshold
                      /\ out.last_accept = f.last_accept
                      /\ out.last_reject = x
                      /\ out.count_to_accept =
                             IF Distance(x, f.last_reject) > amplitude_limit_to_accept_as_step
                             THEN 0 ELSE f.count_to_accept + 1
               /\ ~IsSpike(f, x) =>
                      /\ out.last_accept = x
                      /\ out.last_reject = x
                      /\ out.count_to_accept = 0
<1>1. x # NotANumber
  BY SpikeFilterAssumption
<1> QED
  BY <1>1 DEF SPIKE_FILTER_calc_output, IsSpike, Accept, Reject, SpikeFilterOf

LEMMA FilterFields ==
    ASSUME NEW f \in SpikeFilterOf(0 .. FullTurn)
    PROVE  /\ count_limit_to_accept \in Nat /\ reject_threshold \in Nat
           /\ amplitude_limit_to_accept_as_step \in Nat /\ Far \in Nat \ {0}
           /\ FullTurn \in Nat /\ 2 * Far <= FullTurn
           /\ f.last_accept \in 0 .. FullTurn /\ f.last_reject \in 0 .. FullTurn
           /\ f.count_to_accept \in 0 .. count_limit_to_accept
  BY SpikeFilterAssumption, AttitudeAssumption DEF SpikeFilterOf

\* The first right solution finds the filter in any state, and may have either sign.
LEMMA StageFirst ==
    ASSUME NEW f \in SpikeFilterOf(0 .. FullTurn), NEW x \in 0 .. FullTurn,
           NEW opposed \in BOOLEAN, ErrorOf(x, opposed) <= Far
    PROVE  Stage(~IsSpike(f, x), opposed /\ IsSpike(f, x), SPIKE_FILTER_calc_output(f, x), 1)
<1> DEFINE out == SPIKE_FILTER_calc_output(f, x)
<1>1. CASE IsSpike(f, x)
  <2>1. out.last_reject = x /\ out.count_to_accept \in {0, f.count_to_accept + 1}
    BY <1>1, FilterOutput
  <2>2. 1 <= out.count_to_accept + 1
    BY <2>1, FilterFields
  <2>3. (opposed /\ IsSpike(f, x)) = opposed
    BY <1>1
  <2> QED
    BY <1>1, <2>1, <2>2, <2>3 DEF Stage
<1>2. CASE ~IsSpike(f, x)
  <2>1. out.count_to_accept = 0
    BY <1>2, FilterOutput
  <2>2. 1 <= count_limit_to_accept + 2 /\ ~(1 >= 2 * count_limit_to_accept + 5)
    BY FilterFields
  <2> QED
    BY <1>2, <2>1, <2>2 DEF Stage
<1> QED
  BY <1>1, <1>2

\* After a right solution that was accepted, the next one is one cycle away.
LEMMA StageAccepted ==
    ASSUME SlowTurn, NEW f \in SpikeFilterOf(0 .. FullTurn), NEW g \in Nat, NEW h \in Nat,
           h <= g + 1, Stage(TRUE, FALSE, f, g)
    PROVE  Stage(~IsSpike(f, 1), FALSE, SPIKE_FILTER_calc_output(f, 1), h)
<1> DEFINE out == SPIKE_FILTER_calc_output(f, 1)
<1>1. 1 \in 0 .. FullTurn /\ 1 <= Far
  BY FilterFields
<1>2. CASE IsSpike(f, 1)
  <2>1. f.last_accept > count_limit_to_accept + 2
    <3>1. Distance(1, f.last_accept) > count_limit_to_accept + 1
      BY <1>1, <1>2, FilterOutput, FilterFields DEF SlowTurn, Distance
    <3> QED
      BY <3>1, FilterFields DEF Distance
  <2>2. g <= count_limit_to_accept + 2
    BY <2>1, FilterFields DEF Stage
  <2>3. out.last_reject = 1 /\ out.count_to_accept \in {0, f.count_to_accept + 1}
    BY <1>1, <1>2, FilterOutput
  <2>4. ErrorOf(out.last_reject, FALSE) <= Far /\ out.last_reject \in 1 .. out.count_to_accept + 1
    BY <1>1, <2>3, FilterFields DEF ErrorOf
  <2>5. h <= count_limit_to_accept + 3 + out.count_to_accept
    BY <2>2, <2>3, FilterFields
  <2> QED
    BY <1>2, <2>4, <2>5 DEF Stage
<1>3. CASE ~IsSpike(f, 1)
  <2>1. out.count_to_accept = 0 /\ out.last_accept = 1
    BY <1>1, <1>3, FilterOutput
  <2>2. 1 <= count_limit_to_accept + 2
    BY FilterFields
  <2> QED
    BY <1>3, <2>1, <2>2 DEF Stage
<1> QED
  BY <1>2, <1>3

\* After one that was rejected, the next one of the same sign is near it, so that the filter
\* counts.
LEMMA StageRejected ==
    ASSUME SlowTurn, NEW f \in SpikeFilterOf(0 .. FullTurn), NEW g \in Nat, NEW h \in Nat,
           NEW opposed \in BOOLEAN, h <= g + 1, Stage(FALSE, opposed, f, g),
           NEW x \in 0 .. FullTurn, ErrorOf(x, opposed) <= Far,
           ErrorOf(x, opposed) \in
               {ErrorOf(f.last_reject, opposed), ErrorOf(f.last_reject, opposed) + 1}
    PROVE  Stage(~IsSpike(f, x), opposed /\ IsSpike(f, x), SPIKE_FILTER_calc_output(f, x), h)
<1> DEFINE out == SPIKE_FILTER_calc_output(f, x)
           c == f.count_to_accept
<1>1. \/ g <= c + 1
      \/ ~opposed /\ f.last_reject \in 1 .. c + 1 /\ g <= count_limit_to_accept + 3 + c
  BY DEF Stage
<1>2. CASE IsSpike(f, x)
  <2>1. ~(Distance(x, f.last_reject) > amplitude_limit_to_accept_as_step)
    <3> DEFINE r == f.last_reject
    <3>1. r \in Int /\ FullTurn \in Int /\ amplitude_limit_to_accept_as_step \in Int
      BY FilterFields
    <3>2. 1 <= amplitude_limit_to_accept_as_step
      BY DEF SlowTurn
    <3>3. ErrorOf(x, opposed) \in {ErrorOf(r, opposed), ErrorOf(r, opposed) + 1}
      OBVIOUS
    <3> HIDE DEF r
    <3>4. x = r \/ x = r + 1 \/ x = r - 1
      BY <3>1, <3>3 DEF ErrorOf
    <3>5. Distance(x, r) <= 1
      BY <3>1, <3>4 DEF Distance
    <3>6. Distance(x, r) \in Int
      BY <3>1 DEF Distance
    <3> QED
      BY <3>1, <3>2, <3>5, <3>6 DEF r
  <2>2. out.last_reject = x /\ out.count_to_accept = c + 1
    BY <1>2, <2>1, FilterOutput
  <2>3. (opposed /\ IsSpike(f, x)) = opposed
    BY <1>2
  <2>4. CASE g <= c + 1
    <3>1. h <= (c + 1) + 1
      BY <2>4, FilterFields
    <3> QED
      BY <1>2, <2>2, <2>3, <3>1 DEF Stage
  <2>5. CASE ~opposed /\ f.last_reject \in 1 .. c + 1 /\ g <= count_limit_to_accept + 3 + c
    <3>1. c \in Nat /\ count_limit_to_accept \in Nat
      BY FilterFields
    <3>2. x \in 1 .. (c + 1) + 1
      BY <2>5, <3>1, FilterFields DEF ErrorOf
    <3>3. h <= count_limit_to_accept + 3 + (c + 1)
      BY <2>5, <3>1
    <3> QED
      BY <1>2, <2>2, <2>3, <2>5, <3>2, <3>3 DEF Stage
  <2> QED
    BY <1>1, <2>4, <2>5
<1>3. CASE ~IsSpike(f, x)
  <2>1. out.count_to_accept = 0 /\ out.last_accept = x
    BY <1>3, FilterOutput
  <2>2. h <= count_limit_to_accept + 2 \/ x <= count_limit_to_accept + 2
    BY <1>1, FilterFields DEF ErrorOf
  <2>3. ~(h >= 2 * count_limit_to_accept + 5)
    BY <1>1, FilterFields
  <2> QED
    BY <1>3, <2>1, <2>2, <2>3 DEF Stage
<1> QED
  BY <1>2, <1>3

\* What the filter does with a right solution, of the sign of the last one or the first of
\* its sign.
LEMMA RightSolution ==
    ASSUME SlowTurn, IInv, Settling, next = 1,
           NEW obs \in DriverRecord, obs.number, obs.q = 0, NEW opposed \in BOOLEAN,
           APP_SAGITTA_FILTER_exec(TRUE, obs, opposed),
           NEW h \in Nat, h = 1 \/ (good > 0 /\ h <= good + 1 /\ opposed = opposite)
    PROVE  /\ q_est' = q_filtered'
           /\ q_filtered' = IF filter_ok' THEN 0 ELSE -ErrorOf(spike'.last_reject, opposite')
           /\ Stage(filter_ok', opposite', spike', h)
<1>1. PICK x \in SeparationAngles(obs, opposed) :
         /\ filter_ok' = IsAccepted(spike, x)
         /\ spike' = SPIKE_FILTER_calc_output(spike, x)
         /\ q_filtered' = IF filter_ok' THEN 0 ELSE q_filtered
         /\ opposite' = (opposed /\ ~filter_ok')
         /\ q_est' = q_filtered'
  BY DEF APP_SAGITTA_FILTER_exec
<1>2. q_filtered \in Error /\ q_filtered < 0 /\ q_filtered \in Int
      /\ spike \in SpikeFilterOf(0 .. FullTurn)
  BY ErrorType DEF IInv, TypeOK, Lag
<1>3. x \in 0 .. FullTurn /\ x # NotANumber /\ ErrorOf(x, opposed) = -q_filtered
  <2>1. /\ x \in 0 .. FullTurn /\ x # NotANumber
        /\ ~opposed => x = Distance(q_filtered, 0)
        /\ opposed => x = FullTurn - Distance(q_filtered, 0) \/ q_filtered = 0
    BY AngleType DEF IInv
  <2>2. Distance(q_filtered, 0) = -q_filtered
    BY <1>2 DEF Distance
  <2>3. FullTurn \in Nat
    BY AttitudeAssumption
  <2> QED
    BY <1>2, <2>1, <2>2, <2>3 DEF ErrorOf
<1>4. /\ filter_ok' = ~IsSpike(spike, x)
      /\ opposite' = (opposed /\ IsSpike(spike, x))
  BY <1>1, <1>3 DEF IsAccepted
<1>5. IsSpike(spike, x) => spike'.last_reject = x
  BY <1>1, <1>2, <1>3, FilterOutput
<1>6. ErrorOf(x, opposed) <= Far
  BY <1>2, <1>3, AttitudeAssumption DEF Error
<1>7. Stage(filter_ok', opposite', spike', h)
  <2>1. good \in Nat
    BY AttitudeAssumption DEF IInv, TypeOK
  <2>2. CASE h = 1
    BY <1>1, <1>2, <1>3, <1>4, <1>6, <2>2, StageFirst
  <2>3. CASE h # 1 /\ filter_ok
    <3>1. q_filtered = Later(0) /\ Stage(TRUE, opposite, spike, good)
      BY <2>3 DEF Settling, Held
    <3>2. ~opposite /\ opposed = FALSE
      BY <2>3, <3>1 DEF Stage
    <3>3. x = 1
      BY <1>3, <3>1, <3>2, AttitudeAssumption DEF Later, Clip, ErrorOf
    <3>4. opposite' = FALSE /\ opposite = FALSE
      BY <1>4, <3>2 DEF IInv, TypeOK
    <3> QED
      BY <1>1, <1>2, <1>4, <2>1, <2>3, <3>1, <3>3, <3>4, StageAccepted
  <2>4. CASE h # 1 /\ ~filter_ok
    <3> DEFINE e == ErrorOf(spike.last_reject, opposed)
    <3>1. q_filtered = Later(-e) /\ Stage(FALSE, opposed, spike, good)
      <4>1. filter_ok = FALSE
        BY <2>4 DEF IInv, TypeOK
      <4> QED
        BY <2>4, <4>1 DEF Settling, Held
    <3>2. e \in 0 .. Far
      <4>1. e <= Far
        BY <3>1 DEF Stage
      <4> QED
        BY <1>2, <4>1, FilterFields DEF ErrorOf
    <3>3. ErrorOf(x, opposed) \in {e, e + 1}
      <4> HIDE DEF e
      <4> QED
        BY <1>3, <3>1, <3>2, AttitudeAssumption DEF Later, Clip
    <3> QED
      BY <1>1, <1>2, <1>3, <1>4, <1>6, <2>1, <2>4, <3>1, <3>3, StageRejected
  <2> QED
    BY <2>2, <2>3, <2>4
<1>8. q_filtered' = IF filter_ok' THEN 0 ELSE -ErrorOf(spike'.last_reject, opposite')
  <2>1. CASE IsSpike(spike, x)
    <3>1. filter_ok' = FALSE /\ opposite' = opposed /\ q_filtered' = q_filtered
      BY <1>1, <1>4, <2>1
    <3>2. q_filtered = -ErrorOf(x, opposed)
      BY <1>2, <1>3
    <3> QED
      BY <1>5, <2>1, <3>1, <3>2
  <2>2. CASE ~IsSpike(spike, x)
    BY <1>1, <1>4, <2>2
  <2> QED
    BY <2>1, <2>2
<1> QED
  BY <1>1, <1>7, <1>8

LEMMA SettlingTracker ==
    ASSUME SlowTurn, IInv, Settling, STT_UPDATE
    PROVE  Settling'
<1> SUFFICES ASSUME good' > 0 PROVE Settling'
  BY DEF Settling
<1>1. next = 1 /\ mode' = mode /\ next' = 2
  BY Places DEF IInv, STT_UPDATE, GoOn
<1>2. PICK turned \in BOOLEAN :
         /\ APP_SAGITTA_FILTER_exec(stt_available', stt', opposite # turned)
         /\ good' = IF mode = "FINE_THREE_AXIS" /\ stt'.valid /\ stt'.number /\ stt'.q = 0
                    THEN Min2((IF turned THEN 0 ELSE good) + 1, SettleCycles)
                    ELSE 0
  BY TrackerStep DEF IInv
<1>3. /\ mode = "FINE_THREE_AXIS" /\ stt'.valid /\ stt'.number /\ stt'.q = 0
      /\ good' = Min2((IF turned THEN 0 ELSE good) + 1, SettleCycles)
  BY <1>2
<1>4. /\ stt' \in DriverRecord
      /\ stt_available' = TRUE
      /\ APP_SAGITTA_FILTER_exec(TRUE, stt', opposite # turned)
  <2>1. stt' \in DriverRecord /\ stt_available' = stt'.valid
    BY TrackerStep DEF IInv
  <2>2. stt_available' = TRUE
    BY <1>3, <2>1 DEF DriverRecord
  <2> QED
    BY <1>2, <2>1, <2>2
<1>5. good' \in Nat /\ (good' = 1 \/ (good > 0 /\ good' <= good + 1 /\ ~turned))
  <2>1. good \in Nat /\ SettleCycles \in Nat /\ SettleCycles >= 1
    BY AttitudeAssumption, SpikeFilterAssumption DEF IInv, TypeOK, SlowTurn
  <2> QED
    BY <1>3, <2>1 DEF Min2
<1>6. /\ q_est' = q_filtered'
      /\ q_filtered' = IF filter_ok' THEN 0 ELSE -ErrorOf(spike'.last_reject, opposite')
      /\ Stage(filter_ok', opposite', spike', good')
  <2> DEFINE h == good'
             obs == stt'
             opposed == (opposite # turned)
  <2>1. h \in Nat /\ opposed \in BOOLEAN /\ obs \in DriverRecord /\ obs.number /\ obs.q = 0
    BY <1>3, <1>4, <1>5
  <2>2. h = 1 \/ (good > 0 /\ h <= good + 1 /\ opposed = opposite)
    BY <1>5 DEF IInv, TypeOK
  <2>3. APP_SAGITTA_FILTER_exec(TRUE, obs, opposed)
    BY <1>4
  <2> HIDE DEF h, obs, opposed
  <2>4. /\ q_est' = q_filtered'
        /\ q_filtered' = IF filter_ok' THEN 0 ELSE -ErrorOf(spike'.last_reject, opposite')
        /\ Stage(filter_ok', opposite', spike', h)
    BY <1>1, <2>1, <2>2, <2>3, RightSolution
  <2> QED
    BY <2>4 DEF h
<1>7. q_filtered' = Held'
  BY <1>1, <1>6 DEF Held
<1> QED
  BY <1>1, <1>3, <1>4, <1>6, <1>7 DEF Settling

LEMMA SettlingFine ==
    ASSUME IInv, Settling, APP_FTAD_exec
    PROVE  Settling'
<1> SUFFICES ASSUME good' > 0 PROVE Settling'
  BY DEF Settling
<1>1. next = 2 /\ mode = "FINE_THREE_AXIS" /\ mode' = mode /\ next' = 3
  BY Places DEF IInv, APP_FTAD_exec, GoOn
<1>2. ~EkfIsUsed /\ good' = good
  BY DEF APP_FTAD_exec
<1>3. stt_available /\ q_est = q_filtered /\ q_filtered = Held /\ Stage(filter_ok, opposite, spike, good)
  BY <1>1, <1>2 DEF Settling
<1>4. q_est' = q_est
  <2>1. CASE Skipped("FTAD")
    BY <2>1 DEF APP_FTAD_exec
  <2>2. CASE ~Skipped("FTAD")
    BY <1>2, <1>3, <2>2 DEF APP_FTAD_exec, SttDirect
  <2> QED
    BY <2>1, <2>2
<1>5. UNCHANGED <<stt_available, q_filtered, spike, filter_ok, opposite>>
  BY DEF APP_FTAD_exec, filter
<1>6. Held' = Held
  BY <1>1, <1>5 DEF Held
<1> QED
  BY <1>1, <1>2, <1>3, <1>4, <1>5, <1>6 DEF Settling

LEMMA SettlingOthers ==
    ASSUME IInv, Settling, DI_SAGITTA \/ APP_RTAD_exec
    PROVE  Settling'
<1>1. mode # "FINE_THREE_AXIS" /\ mode' = mode
  BY Places DEF IInv, DI_SAGITTA, APP_RTAD_exec, GoOn, RtadModes
<1>2. good' = good
  BY DEF DI_SAGITTA, APP_RTAD_exec, trust
<1> QED
  BY <1>1, <1>2 DEF Settling

LEMMA SettlingCommands ==
    ASSUME IInv, Settling, Commands
    PROVE  Settling'
<1>1. next = 1 /\ UNCHANGED <<place, q_est>>
  BY DEF Commands, OnCommand, Cmd_APP_RTAD_SET_METHOD, Cmd_APP_FTAD_SET_METHOD,
         Cmd_STT_GYRO_EKF_ENABLE_ESTIMATED_ATTITUDE, Cmd_STT_GYRO_EKF_RESET_ESTIMATION,
         Cmd_APP_SAGITTA_FILTER_RESET_SPIKE_FILTER
<1>2. UNCHANGED <<filter, good>> \/ good' = 0
  BY DEF Commands, Cmd_APP_RTAD_SET_METHOD, Cmd_APP_FTAD_SET_METHOD,
         Cmd_STT_GYRO_EKF_ENABLE_ESTIMATED_ATTITUDE, Cmd_STT_GYRO_EKF_RESET_ESTIMATION,
         Cmd_APP_SAGITTA_FILTER_RESET_SPIKE_FILTER, trust
<1> QED
  BY <1>1, <1>2 DEF Settling, Held, place, filter

LEMMA SettlingEnd ==
    ASSUME IInv, Settling, EndCycle
    PROVE  Settling'
<1> SUFFICES ASSUME good' > 0 PROVE Settling'
  BY DEF Settling
<1>1. mode' = mode /\ good' = good /\ next' = 1
  BY DEF EndCycle
<1>2. mode = "FINE_THREE_AXIS" /\ q_filtered = Held /\ Stage(filter_ok, opposite, spike, good)
  BY <1>1 DEF Settling
<1>3. next # 1
  BY <1>2, Lengths DEF EndCycle
<1>4. q_filtered' = Later(q_filtered) /\ UNCHANGED <<spike, filter_ok, opposite>>
  BY DEF EndCycle
<1>5. q_filtered' = Held'
  BY <1>1, <1>2, <1>3, <1>4 DEF Held
<1> QED
  BY <1>1, <1>2, <1>4, <1>5 DEF Settling

LEMMA SettlingInductive == ASSUME SlowTurn PROVE Spec => []Settling
<1>1. Init => Settling
  BY DEF Init, Settling
<1>2. Settling /\ UNCHANGED vars => Settling'
  BY DEF Settling, Held, vars, place, drivers, filter, trust
<1>3. IInv /\ Settling /\ [Next]_vars => Settling'
  BY <1>2, SettlingTracker, SettlingFine, SettlingOthers, SettlingCommands, SettlingEnd
  DEF Next, Entry
<1> QED
  BY <1>1, <1>3, Inductive, PTL DEF Spec

\* Whatever the filter has accepted, rejected or counted before, whatever sign the solutions
\* had, through which modes and commands ever, SettleCycles right solutions in a row that keep
\* their sign end with the estimate at the observed attitude.
THEOREM SettlesAlways == ASSUME SlowTurn PROVE Spec => []FineAttitudeIsCurrent
<1>1. IInv /\ Settling => FineAttitudeIsCurrent
  <2> SUFFICES ASSUME IInv, Settling, AtEnd, mode = "FINE_THREE_AXIS", good = SettleCycles
               PROVE  q_est = 0
    BY DEF FineAttitudeIsCurrent
  <2>1. next = 3
    BY Lengths DEF AtEnd
  <2>2. spike \in SpikeFilterOf(0 .. FullTurn)
    BY DEF IInv, TypeOK
  <2>3. good \in Nat /\ good >= 2 * count_limit_to_accept + 5 /\ good > 0
    BY AttitudeAssumption, SpikeFilterAssumption DEF SlowTurn
  <2>4. q_est = Held /\ Stage(filter_ok, opposite, spike, good)
    BY <2>1, <2>3 DEF Settling
  <2>5. filter_ok
    BY <2>2, <2>3, <2>4, FilterFields DEF Stage
  <2> QED
    BY <2>1, <2>4, <2>5 DEF Held
<1> QED
  BY <1>1, Inductive, SettlingInductive, PTL

-----------------------------------------------------------------------------
(* How the filter keeps wrong solutions out. *)

\* How far the estimates may have fallen behind since the filter was settled.
Age == IF next = 1 THEN faulty + 1 ELSE faulty

\* What was accepted since then was as old as that at most; what is older is wrong.
Kept ==
    faulty <= count_limit_to_accept =>
        /\ mode = "FINE_THREE_AXIS"
        /\ q_est >= -Age
        /\ q_filtered >= -Age
        /\ stt.number => stt.q >= -Age \/ \E w \in WrongErrors : stt.q <= w
        /\ spike.count_to_accept <= faulty
        /\ spike.last_accept <= faulty + 1

LEMMA LimitType == count_limit_to_accept \in Nat /\ reject_threshold \in Nat
  BY SpikeFilterAssumption

\* An angle beyond what may have been accepted is a spike, and the filter still counts.
LEMMA BeyondIsSpike ==
    ASSUME NEW f \in SpikeFilterOf(0 .. FullTurn), NEW n \in Nat,
           n + 1 <= count_limit_to_accept, f.count_to_accept <= n, f.last_accept <= n + 1,
           NEW x \in 0 .. FullTurn, x > reject_threshold + (n + 1)
    PROVE  IsSpike(f, x)
<1>1. Distance(x, f.last_accept) > reject_threshold
  BY FilterFields, LimitType DEF Distance
<1>2. f.count_to_accept < count_limit_to_accept
  BY FilterFields
<1> QED
  BY <1>1, <1>2 DEF IsSpike

\* A wrong solution is a spike, and so is every solution with the other sign, but for one
\* of the attitude that the filter holds.
LEMMA WrongIsSpike ==
    ASSUME WrongIsFar, TypeOK, NEW n \in Nat, n + 1 <= count_limit_to_accept,
           spike.count_to_accept <= n, spike.last_accept <= n + 1,
           q_filtered <= 0, q_filtered >= -(n + 1),
           NEW obs \in DriverRecord, obs.q <= 0, NEW opposed \in BOOLEAN,
           obs.q >= -(n + 1) \/ \E w \in WrongErrors : obs.q <= w,
           NEW x \in SeparationAngles(obs, opposed), x # NotANumber
    PROVE  IsSpike(spike, x) \/ (obs.q >= -(n + 1) /\ x <= n + 1)
<1> DEFINE o == obs.q
           d == Distance(q_filtered, o)
<1>1. /\ q_filtered \in Error /\ q_filtered \in Int /\ o \in Error /\ o \in Int
      /\ spike \in SpikeFilterOf(0 .. FullTurn)
  BY ErrorType DEF TypeOK, DriverRecord
<1>2. /\ x \in 0 .. FullTurn
      /\ ~opposed => x = d
      /\ opposed => x = FullTurn - d \/ (x = 0 /\ q_filtered = o)
  <2>1. obs.number
    BY AngleType DEF DriverRecord
  <2> QED
    BY <2>1, AngleType
<1> HIDE DEF o
<1>3. CASE ~opposed /\ o >= -(n + 1)
  <2>1. d <= n + 1
    BY <1>1, <1>3 DEF Distance, o
  <2> QED
    BY <1>2, <1>3, <2>1 DEF o
<1>4. CASE ~opposed /\ \E w \in WrongErrors : o <= w
  <2>1. PICK w \in WrongErrors : o <= w
    BY <1>4
  <2>2. reject_threshold + 2 * count_limit_to_accept < -w /\ w \in Int
    BY ErrorType DEF WrongIsFar
  <2>3. d > reject_threshold + (n + 1)
    BY <1>1, <2>1, <2>2, LimitType DEF Distance
  <2> QED
    BY <1>1, <1>2, <1>4, <2>3, BeyondIsSpike
<1>5. CASE opposed /\ x = FullTurn - d
  <2>1. d <= Far /\ d \in Nat
    BY <1>1, AttitudeAssumption DEF Distance, Error, o
  <2>2. reject_threshold + 2 * count_limit_to_accept < Far
    BY DEF WrongIsFar
  <2>3. x > reject_threshold + (n + 1)
    <3> HIDE DEF d
    <3>1. x >= Far
      BY <1>5, <2>1, AttitudeAssumption
    <3>2. Far \in Nat
      BY AttitudeAssumption
    <3> QED
      BY <1>2, <2>2, <3>1, <3>2, LimitType
  <2> QED
    BY <1>1, <1>2, <2>3, BeyondIsSpike
<1>6. CASE x = 0 /\ q_filtered = o
  BY <1>6 DEF o
<1> QED
  BY <1>2, <1>3, <1>4, <1>5, <1>6 DEF o

\* What the filter holds after a solution of a known age.
LEMMA FilterAges ==
    ASSUME NEW f \in SpikeFilterOf(0 .. FullTurn), NEW n \in Nat,
           f.count_to_accept <= n, f.last_accept <= n + 1,
           NEW x \in 0 .. FullTurn, IsSpike(f, x) \/ x <= n + 1
    PROVE  LET out == SPIKE_FILTER_calc_output(f, x)
           IN  out.count_to_accept <= n + 1 /\ out.last_accept <= n + 2
<1>1. CASE IsSpike(f, x)
  BY <1>1, FilterOutput, FilterFields
<1>2. CASE ~IsSpike(f, x)
  BY <1>2, FilterOutput, FilterFields
<1> QED
  BY <1>1, <1>2

LEMMA KeptTracker ==
    ASSUME SlowTurn, WrongIsFar, IInv, Settling', Kept, STT_UPDATE
    PROVE  Kept'
<1> SUFFICES ASSUME faulty' <= count_limit_to_accept PROVE Kept'
  BY DEF Kept
<1>1. next = 1 /\ mode' = mode /\ next' = 2
  BY Places DEF IInv, STT_UPDATE, GoOn
<1>2. /\ stt' \in DI_SAGITTA_update(stt)
      /\ stt' \in DriverRecord
      /\ stt_available' = stt'.valid /\ stt_available' \in BOOLEAN
      /\ faulty' = IF good' = SettleCycles THEN 0 ELSE Min2(faulty + 1, count_limit_to_accept + 1)
  BY TrackerStep DEF IInv, STT_UPDATE
<1>6. PICK opposed \in BOOLEAN :
         /\ APP_SAGITTA_FILTER_exec(stt_available', stt', opposed)
         /\ good' > 0 => mode = "FINE_THREE_AXIS" /\ stt'.q = 0
  <2>1. PICK turned \in BOOLEAN :
           /\ APP_SAGITTA_FILTER_exec(stt_available', stt', opposite # turned)
           /\ good' = IF mode = "FINE_THREE_AXIS" /\ stt'.valid /\ stt'.number /\ stt'.q = 0
                      THEN Min2((IF turned THEN 0 ELSE good) + 1, SettleCycles)
                      ELSE 0
    BY TrackerStep DEF IInv
  <2>2. (opposite # turned) \in BOOLEAN
    OBVIOUS
  <2>3. good' > 0 => mode = "FINE_THREE_AXIS" /\ stt'.q = 0
    BY <2>1
  <2> QED
    BY <2>1, <2>2, <2>3
<1>3. Age' = faulty'
  BY <1>1 DEF Age
<1>4. CASE good' = SettleCycles
  <2>1. SettleCycles \in Nat /\ SettleCycles > 0 /\ SettleCycles >= 2 * count_limit_to_accept + 5
    BY AttitudeAssumption, SpikeFilterAssumption DEF SlowTurn
  <2>2. faulty' = 0 /\ mode = "FINE_THREE_AXIS" /\ stt'.q = 0
    BY <1>2, <1>4, <1>6, <2>1
  <2>3. q_est' = q_filtered' /\ q_filtered' = Held' /\ Stage(filter_ok', opposite', spike', good')
    BY <1>1, <1>4, <2>1 DEF Settling
  <2>4. spike' \in SpikeFilterOf(0 .. FullTurn)
    BY StepTracker DEF IInv, TypeOK
  <2>5. filter_ok' /\ spike'.count_to_accept = 0 /\ spike'.last_accept = 1
    <3> DEFINE f == spike'
               g == good'
               p == opposite'
    <3>1. f \in SpikeFilterOf(0 .. FullTurn) /\ g = SettleCycles /\ Stage(filter_ok', p, f, g)
      BY <1>4, <2>3, <2>4
    <3> HIDE DEF f, g, p
    <3>2. filter_ok' /\ f.count_to_accept = 0 /\ f.last_accept = 1
      BY <2>1, <3>1, FilterFields DEF Stage
    <3> QED
      BY <3>2 DEF f
  <2>6. q_filtered' = 0
    BY <1>1, <2>3, <2>5 DEF Held
  <2> QED
    BY <1>1, <1>3, <2>2, <2>3, <2>5, <2>6 DEF Kept
<1>5. CASE good' # SettleCycles
  <2> DEFINE n == faulty
  <2>1. n \in Nat /\ n + 1 <= count_limit_to_accept /\ faulty' = n + 1
    <3>1. faulty' = Min2(faulty + 1, count_limit_to_accept + 1)
      BY <1>2, <1>5
    <3>2. faulty \in Nat
      BY LimitType DEF IInv, TypeOK
    <3> QED
      BY <3>1, <3>2, LimitType DEF Min2
  <2>2. Age = n + 1 /\ Age' = n + 1
    BY <1>1, <1>3, <2>1 DEF Age
  <2>3. /\ mode = "FINE_THREE_AXIS"
        /\ q_est >= -(n + 1) /\ q_filtered >= -(n + 1)
        /\ stt.number => stt.q >= -(n + 1) \/ \E w \in WrongErrors : stt.q <= w
        /\ spike.count_to_accept <= n /\ spike.last_accept <= n + 1
    BY <2>1, <2>2, LimitType DEF Kept
  <2>4. /\ q_est \in Error /\ q_est <= 0 /\ q_filtered \in Error /\ q_filtered <= 0
        /\ spike \in SpikeFilterOf(0 .. FullTurn)
        /\ stt'.q \in Error /\ stt'.q <= 0
    <3>1. q_est <= 0 /\ q_filtered <= 0 /\ stt.q <= 0
      BY <1>1, FreshBound DEF Fresh
    <3> QED
      BY <1>2, <3>1, DriverType DEF IInv, TypeOK, DriverRecord
  <2>5. stt'.number => stt'.q >= -(n + 1) \/ \E w \in WrongErrors : stt'.q <= w
    <3>1. stt \in DriverRecord
      BY DEF IInv, TypeOK, DriverRecord
    <3>2. stt'.number => (stt'.q = stt.q /\ stt.number) \/ stt'.q \in {0} \cup WrongErrors
      BY <1>2, <3>1 DEF DI_SAGITTA_update, Received, Solution, DriverRecord
    <3>3. CASE stt'.q = stt.q /\ stt.number
      BY <2>3, <3>3
    <3>4. CASE stt'.q = 0
      BY <2>1, <3>4
    <3>5. CASE stt'.q \in WrongErrors
      BY <3>5, ErrorType
    <3> QED
      BY <3>2, <3>3, <3>4, <3>5
  <2>6. CASE stt_available'
    <3>1. PICK x \in SeparationAngles(stt', opposed) :
             /\ filter_ok' = IsAccepted(spike, x)
             /\ spike' = SPIKE_FILTER_calc_output(spike, x)
             /\ q_filtered' = IF filter_ok' THEN stt'.q ELSE q_filtered
             /\ q_est' = q_filtered'
      BY <1>6, <2>6 DEF APP_SAGITTA_FILTER_exec
    <3>2. CASE x = NotANumber
      <4>1. filter_ok' = FALSE /\ spike' = spike
        BY <3>1, <3>2 DEF IsAccepted, SPIKE_FILTER_calc_output
      <4>2. spike.count_to_accept <= n + 1 /\ spike.last_accept <= n + 2
        BY <2>1, <2>3, <2>4, FilterFields
      <4> QED
        BY <1>1, <2>1, <2>2, <2>3, <2>5, <3>1, <4>1, <4>2 DEF Kept
    <3>3. CASE x # NotANumber
      <4>1. stt'.number /\ x \in 0 .. FullTurn
        BY <1>2, <3>3, AngleType DEF IInv, DriverRecord
      <4>2. filter_ok' = ~IsSpike(spike, x)
        BY <3>1, <3>3 DEF IsAccepted
      <4>3. IsSpike(spike, x) \/ (stt'.q >= -(n + 1) /\ x <= n + 1)
        <5> DEFINE obs == stt'
        <5>1. /\ obs \in DriverRecord /\ obs.q <= 0 /\ x \in SeparationAngles(obs, opposed)
              /\ obs.q >= -(n + 1) \/ \E w \in WrongErrors : obs.q <= w
          BY <1>2, <2>4, <2>5, <4>1
        <5> HIDE DEF obs, n
        <5>2. IsSpike(spike, x) \/ (obs.q >= -(n + 1) /\ x <= n + 1)
          BY <2>1, <2>3, <2>4, <3>3, <5>1, WrongIsSpike DEF IInv
        <5> QED
          BY <5>2 DEF obs
      <4>4. spike'.count_to_accept <= n + 1 /\ spike'.last_accept <= n + 2
        <5> HIDE DEF n
        <5>1. LET out == SPIKE_FILTER_calc_output(spike, x)
              IN  out.count_to_accept <= n + 1 /\ out.last_accept <= n + 2
          BY <2>1, <2>3, <2>4, <4>1, <4>3, FilterAges
        <5> QED
          BY <3>1, <5>1
      <4>5. q_filtered' >= -(n + 1)
        BY <2>3, <3>1, <4>2, <4>3
      <4> QED
        BY <1>1, <2>1, <2>2, <2>3, <2>5, <3>1, <4>4, <4>5 DEF Kept
    <3> QED
      BY <3>2, <3>3
  <2>7. CASE ~stt_available'
    <3>1. q_filtered' = q_est /\ q_est' = q_est /\ spike' = spike
      BY <1>6, <2>7 DEF APP_SAGITTA_FILTER_exec
    <3>2. spike.count_to_accept <= n + 1 /\ spike.last_accept <= n + 2
      BY <2>1, <2>3, <2>4, FilterFields
    <3> QED
      BY <1>1, <2>1, <2>2, <2>3, <2>5, <3>1, <3>2 DEF Kept
  <2> QED
    BY <2>6, <2>7
<1> QED
  BY <1>4, <1>5

LEMMA KeptFine ==
    ASSUME IInv, Kept, APP_FTAD_exec
    PROVE  Kept'
<1> SUFFICES ASSUME faulty' <= count_limit_to_accept PROVE Kept'
  BY DEF Kept
<1>1. next = 2 /\ mode = "FINE_THREE_AXIS" /\ mode' = mode /\ next' = 3
  BY Places DEF IInv, APP_FTAD_exec, GoOn
<1>2. ~EkfIsUsed /\ faulty' = faulty
  BY LimitType DEF APP_FTAD_exec
<1>3. Age = faulty /\ Age' = faulty /\ faulty \in Nat
  BY <1>1, <1>2, LimitType DEF Age, IInv, TypeOK
<1>4. q_est \in Error /\ q_est \in Int /\ q_est <= 0
  BY <1>1, FreshBound, ErrorType DEF Fresh, IInv, TypeOK
<1>5. q_est' >= q_est
  <2>1. CASE Skipped("FTAD")
    BY <1>4, <2>1 DEF APP_FTAD_exec
  <2>2. CASE ~Skipped("FTAD")
    <3>1. since["FTAD"] = 1
      BY <1>1, <2>2, OneStep DEF IInv, Timing, TimedApp
    <3>2. q_est' = q_est \/ q_est' = Propagated(q_est, 1)
      BY <1>2, <2>2, <3>1 DEF APP_FTAD_exec, SttDirect
    <3>3. Propagated(q_est, 1) >= q_est
      BY <1>4, AttitudeAssumption DEF Propagated, Clip, Error
    <3> QED
      BY <1>4, <3>2, <3>3
  <2> QED
    BY <2>1, <2>2
<1>6. q_est' \in Int
  BY StepFine, ErrorType DEF IInv, TypeOK
<1>7. UNCHANGED <<q_filtered, spike>>
  BY DEF APP_FTAD_exec, filter
<1>8. stt'.q = stt.q /\ stt'.number = stt.number
  <2>1. stt' = stt \/ stt' = [stt EXCEPT !.moved = FALSE]
    BY DEF APP_FTAD_exec, ExecuteEstimation
  <2> QED
    BY <2>1 DEF IInv, TypeOK
<1> QED
  BY <1>1, <1>2, <1>3, <1>4, <1>5, <1>6, <1>7, <1>8 DEF Kept

LEMMA KeptOthers ==
    ASSUME IInv, Kept, DI_SAGITTA \/ APP_RTAD_exec
    PROVE  Kept'
<1>1. mode # "FINE_THREE_AXIS"
  BY Places DEF IInv, DI_SAGITTA, APP_RTAD_exec, RtadModes
<1>2. faulty' = faulty
  BY DEF DI_SAGITTA, APP_RTAD_exec, trust
<1> QED
  BY <1>1, <1>2 DEF Kept

LEMMA KeptCommands ==
    ASSUME IInv, Kept, Commands
    PROVE  Kept'
<1>1. next = 1 /\ UNCHANGED <<place, drivers, q_est>>
  BY DEF Commands, OnCommand, Cmd_APP_RTAD_SET_METHOD, Cmd_APP_FTAD_SET_METHOD,
         Cmd_STT_GYRO_EKF_ENABLE_ESTIMATED_ATTITUDE, Cmd_STT_GYRO_EKF_RESET_ESTIMATION,
         Cmd_APP_SAGITTA_FILTER_RESET_SPIKE_FILTER
<1>2. /\ UNCHANGED <<q_filtered, faulty>>
      /\ spike' = spike \/ spike' = SPIKE_FILTER_reset
  BY DEF Commands, Cmd_APP_RTAD_SET_METHOD, Cmd_APP_FTAD_SET_METHOD,
         Cmd_STT_GYRO_EKF_ENABLE_ESTIMATED_ATTITUDE, Cmd_STT_GYRO_EKF_RESET_ESTIMATION,
         Cmd_APP_SAGITTA_FILTER_RESET_SPIKE_FILTER, filter, trust
<1>3. faulty \in Nat
  BY LimitType DEF IInv, TypeOK
<1>4. CASE spike' = spike
  BY <1>1, <1>2, <1>4 DEF Kept, Age, place, drivers
<1>5. CASE spike' = SPIKE_FILTER_reset
  <2>1. spike'.count_to_accept <= faulty /\ spike'.last_accept <= faulty + 1
    BY <1>3, <1>5 DEF SPIKE_FILTER_reset
  <2> QED
    BY <1>1, <1>2, <2>1 DEF Kept, Age, place, drivers
<1> QED
  BY <1>2, <1>4, <1>5

LEMMA KeptEnd ==
    ASSUME WrongIsFar, IInv, Kept, EndCycle
    PROVE  Kept'
<1> SUFFICES ASSUME faulty' <= count_limit_to_accept PROVE Kept'
  BY DEF Kept
<1>1. mode' = mode /\ faulty' = faulty /\ next' = 1
  BY LimitType DEF EndCycle
<1>2. /\ mode = "FINE_THREE_AXIS"
      /\ q_est >= -Age /\ q_filtered >= -Age
      /\ stt.number => stt.q >= -Age \/ \E w \in WrongErrors : stt.q <= w
      /\ spike.count_to_accept <= faulty /\ spike.last_accept <= faulty + 1
  BY <1>1 DEF Kept
<1>3. next # 1
  BY <1>2, Lengths DEF EndCycle
<1>4. Age = faulty /\ Age' = faulty + 1 /\ faulty \in Nat
  BY <1>1, <1>3, LimitType DEF Age, IInv, TypeOK
<1>5. q_est' = Later(q_est) /\ q_filtered' = Later(q_filtered) /\ spike' = spike
  BY DEF EndCycle
<1>6. stt'.q = Later(stt.q) /\ stt'.number = stt.number
  BY DEF EndCycle, IInv, TypeOK
<1>7. ASSUME NEW q \in Error
      PROVE  /\ q >= -faulty => Later(q) >= -(faulty + 1)
             /\ \A w \in WrongErrors : q <= w => Later(q) <= w
  <2>1. \A w \in WrongErrors : w \in Error
    BY ErrorType
  <2> QED
    BY <1>4, <2>1, AttitudeAssumption DEF Later, Clip, Error
<1>8. q_est \in Error /\ q_filtered \in Error /\ stt.q \in Error
  BY DEF IInv, TypeOK
<1>9. stt'.number => stt'.q >= -(faulty + 1) \/ \E w \in WrongErrors : stt'.q <= w
  BY <1>2, <1>4, <1>6, <1>7, <1>8
<1>10. q_est' >= -(faulty + 1) /\ q_filtered' >= -(faulty + 1)
  BY <1>2, <1>4, <1>5, <1>7, <1>8
<1> QED
  BY <1>1, <1>2, <1>4, <1>5, <1>9, <1>10 DEF Kept

LEMMA KeptInductive == ASSUME SlowTurn, WrongIsFar PROVE Spec => []Kept
<1>1. Init => Kept
  BY LimitType DEF Init, Kept
<1>2. Kept /\ UNCHANGED vars => Kept'
  BY DEF Kept, Age, vars, place, drivers, filter, trust
<1>3. IInv /\ Settling' /\ Kept /\ [Next]_vars => Kept'
  BY <1>2, KeptTracker, KeptFine, KeptOthers, KeptCommands, KeptEnd DEF Next, Entry
<1> QED
  BY <1>1, <1>3, Inductive, SettlingInductive, PTL DEF Spec

\* A settled estimate is not moved by wrong solutions, in whatever order they come with right,
\* old and missing ones, of either sign, and whatever is commanded, until the filter stops to
\* count.
THEOREM SpikesStayOutAlways == ASSUME SlowTurn, WrongIsFar PROVE Spec => []SpikesStayOut
<1>1. IInv /\ Kept => SpikesStayOut
  <2> SUFFICES ASSUME Kept, AtEnd, mode = "FINE_THREE_AXIS", faulty <= count_limit_to_accept
               PROVE  q_est >= -faulty
    BY DEF SpikesStayOut
  <2>1. next = 3
    BY Lengths DEF AtEnd
  <2> QED
    BY <2>1 DEF Kept, Age
<1> QED
  BY <1>1, Inductive, KeptInductive, PTL

=============================================================================
