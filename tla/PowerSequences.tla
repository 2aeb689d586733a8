--------------------------- MODULE PowerSequences ---------------------------
(***************************************************************************)
(* The block commands that switch the units of the AOCS on and off, and    *)
(* those of the mode transitions that deploy them.  A block is a sequence  *)
(* of entries <<offset, command>>; the offset is in cycles from the cycle  *)
(* in which the block is deployed.                                         *)
(*                                                                         *)
(* A command that changes nothing which is modelled here, such as those    *)
(* that set up a unit, is kept for the turn of the dispatcher that it      *)
(* takes.                                                                  *)
(***************************************************************************)
EXTENDS Integers, Sequences

CONSTANTS
    OBCT_CYCLES_PER_SEC,
    StartModeManager   \* the seconds from the end of a transition until automatic
                       \* transitions are allowed again, by the mode that it leads to

\* The waits of the blocks are given in seconds, and their bursts take up to ten cycles:
\* they count on ten cycles in a second.
ASSUME CyclesAssumption == OBCT_CYCLES_PER_SEC \in Nat /\ OBCT_CYCLES_PER_SEC >= 10

OBCT_sec2cycle(s) == s * OBCT_CYCLES_PER_SEC
Sec(s) == OBCT_sec2cycle(s)

Wheel == {"RWX", "RWY", "RWZ"}

\* Units whose magnetic moment disturbs the magnetometers while they are on.
Biasing == {"STIM210", "SAGITTA", "OEM7600", "NANOSSOC_D60"}

\* What the power switches switch.
Unit == Wheel \cup Biasing \cup {"INA260", "MPU9250", "RM3100", "MTQ"}

\* Units with an INA260 current sensor of their own.
Monitored == Unit \ {"INA260", "MPU9250"}

Mag == {"ON_AOBC", "EXTERNAL"}

(* Event logger groups, and event handler rules that look at one group. *)

HwOc == <<"HW_OC">>
SwOc == <<"SW_OC">>
TlmError(u) == <<"TLM_ERROR", u>>
CrcError(u) == <<"CRC_ERROR", u>>
UnitError(u) == <<"ERROR", u>>

Group == {HwOc, SwOc} \cup ({"TLM_ERROR", "CRC_ERROR", "ERROR"} \X Unit)

RuleName ==
    {"TLM_ERROR", "TLM_ERROR_BROKEN", "CRC_ERROR", "CRC_ERROR_BROKEN", "TLM_ERROR_ON_AOBC",
     "TLM_ERROR_ON_AOBC_BROKEN", "TLM_ERROR_EXTERNAL", "TLM_ERROR_EXTERNAL_BROKEN",
     "TLM_ERROR_INA260", "HW_OC", "HW_OC_BROKEN", "SW_OC", "SW_OC_BROKEN"}
        \X (Unit \cup {"PIC"})

OcRules(u) ==
    << <<"HW_OC", u>>, <<"HW_OC_BROKEN", u>>, <<"SW_OC", u>>, <<"SW_OC_BROKEN", u>> >>

(* Commands. *)

PowerOn(u) == <<"ON", u>>
PowerOff(u) == <<"OFF", u>>
InitSensor(u) == <<"INIT", u>>               \* start the current sensor of u
Protect(u) == <<"PROTECT", u>>               \* over-current protection of u, latch released
EnableLogging(g) == <<"ENABLE_LOGGING", g>>
DisableLogging(g) == <<"DISABLE_LOGGING", g>>
ActivateRule(r) == <<"ACTIVATE_RULE", r>>
InactivateRule(r) == <<"INACTIVATE_RULE", r>>
AddBias(m, u, n) == <<"ADD_BIAS", m, u, n>>
ClearBias(m) == <<"CLEAR_BIAS", m>>
SelectGyro(g) == <<"SELECT_GYRO", g>>
Deploy(b) == <<"DEPLOY", b>>
FinishTransition == <<"FINISH_TRANSITION">>
OwnCommand == <<"OWN">>                      \* any other: it only takes its turn

\* A block is named by what it does and to what.
BlockId ==
    ({"ON", "OFF", "RESET"} \X Unit)
        \cup ({"ACTIVATE"} \X (Biasing \cup {"INA260"}))
        \cup ({"INACTIVATE"} \X Biasing)
        \cup { <<"OC_LIMIT", "INA260">>, <<"SET_PARAMETER", "SAGITTA">>,
                <<"READ_PARAMETER", "SAGITTA">> }

Command ==
    ({"ON", "OFF"} \X Unit)
        \cup ({"INIT", "PROTECT"} \X (Monitored \cup {"PIC"}))
        \cup ({"ENABLE_LOGGING", "DISABLE_LOGGING"} \X Group)
        \cup ({"ACTIVATE_RULE", "INACTIVATE_RULE"} \X RuleName)
        \cup ({"ADD_BIAS"} \X Mag \X Biasing \X {-1, 1})
        \cup ({"CLEAR_BIAS"} \X Mag)
        \cup ({"SELECT_GYRO"} \X {"MPU9250", "STIM210"})
        \cup ({"DEPLOY"} \X BlockId)
        \cup {FinishTransition, OwnCommand}

\* Commands in consecutive cycles, the first one at offset t.
From(t, commands) == [i \in DOMAIN commands |-> <<t + i - 1, commands[i]>>]

EnableAll(gs) == [i \in DOMAIN gs |-> EnableLogging(gs[i])]
DisableAll(gs) == [i \in DOMAIN gs |-> DisableLogging(gs[i])]
ActivateAll(rs) == [i \in DOMAIN rs |-> ActivateRule(rs[i])]
InactivateAll(rs) == [i \in DOMAIN rs |-> InactivateRule(rs[i])]
BiasBoth(u, n) == <<AddBias("ON_AOBC", u, n), AddBias("EXTERNAL", u, n)>>

\* Off, and on again when the unit has lost its charge.
OffThenOn(u, off, on) == << <<off, Deploy(<<"OFF", u>>)>>, <<on, Deploy(<<"ON", u>>)>> >>

-----------------------------------------------------------------------------
(* The reaction wheels. *)

RwRules(u) == <<TlmError(u), CrcError(u)>> \o OcRules(u)
RwGroups(u) == <<TlmError(u), CrcError(u), UnitError(u)>>

PowerOnRw(u) ==
    From(1, <<Protect(u), DisableLogging(HwOc)>>)
        \o From(Sec(1) + 2, <<PowerOn(u)>>)
        \o From(Sec(6) + 2, EnableAll(RwGroups(u) \o <<HwOc>>) \o ActivateAll(RwRules(u)))

PowerOffRw(u) ==
    From(Sec(1), InactivateAll(RwRules(u)) \o DisableAll(RwGroups(u)))
        \o From(Sec(2) + 9, <<PowerOff(u)>>)

ResetRw(u) == OffThenOn(u, Sec(1), Sec(6))

(* The magnetometers. *)

Rm3100Rules ==
    << <<"TLM_ERROR_ON_AOBC", "RM3100">>, <<"TLM_ERROR_ON_AOBC_BROKEN", "RM3100">>,
       <<"TLM_ERROR_EXTERNAL", "RM3100">>, <<"TLM_ERROR_EXTERNAL_BROKEN", "RM3100">> >>
        \o OcRules("RM3100")
Rm3100Groups == <<TlmError("RM3100"), UnitError("RM3100")>>

PowerOnRm3100 ==
    From(Sec(1), <<Protect("RM3100"), DisableLogging(HwOc)>>)
        \o From(Sec(2) + 1, <<PowerOn("RM3100")>>)
        \o From(Sec(8) + 1, EnableAll(Rm3100Groups \o <<HwOc>>) \o ActivateAll(Rm3100Rules))

PowerOffRm3100 ==
    From(Sec(1), DisableAll(Rm3100Groups) \o InactivateAll(Rm3100Rules))
        \o From(Sec(2) + 9, <<PowerOff("RM3100")>>)

ResetRm3100 == OffThenOn("RM3100", Sec(1), Sec(6))

(* The small gyroscope. *)

Mpu9250Groups == <<TlmError("MPU9250"), UnitError("MPU9250")>>

PowerOnMpu9250 ==
    From(Sec(1), <<DisableLogging(HwOc)>>)
        \o From(Sec(2), <<PowerOn("MPU9250")>>)
        \o From(Sec(6), EnableAll(Mpu9250Groups \o <<HwOc>>)
                            \o <<ActivateRule(TlmError("MPU9250"))>>)

PowerOffMpu9250 ==
    From(Sec(1), <<InactivateRule(TlmError("MPU9250"))>> \o DisableAll(Mpu9250Groups))
        \o From(Sec(2) + 3, <<PowerOff("MPU9250")>>)

ResetMpu9250 == OffThenOn("MPU9250", Sec(1), Sec(5))

(* The magnetorquers. *)

\* Variant: the logging is not enabled again.
PowerOnMtq_LeftMasked ==
    From(1, <<Protect("MTQ"), DisableLogging(HwOc)>>)
        \o From(Sec(1) + 2, <<PowerOn("MTQ")>>)
        \o From(Sec(4) + 3, ActivateAll(OcRules("MTQ")))

PowerOnMtq ==
    From(1, <<Protect("MTQ"), DisableLogging(HwOc)>>)
        \o From(Sec(1) + 2, <<PowerOn("MTQ")>>)
        \o From(Sec(4) + 2, <<EnableLogging(HwOc)>> \o ActivateAll(OcRules("MTQ")))

\* Variant: one rule stays active.
PowerOffMtq_RuleLeft ==
    From(Sec(1), InactivateAll(Tail(OcRules("MTQ")))) \o From(Sec(2) + 3, <<PowerOff("MTQ")>>)

PowerOffMtq ==
    From(Sec(1), InactivateAll(OcRules("MTQ"))) \o From(Sec(2) + 3, <<PowerOff("MTQ")>>)

ResetMtq == OffThenOn("MTQ", Sec(1), Sec(6))

-----------------------------------------------------------------------------
(* The sun sensors.  Off inactivates more rules than on activates: those of *)
(* the three sensors that are not flown are never active.                   *)

SunSensorRules == <<TlmError("NANOSSOC_D60"), CrcError("NANOSSOC_D60")>> \o OcRules("NANOSSOC_D60")
SunSensorGroups == <<TlmError("NANOSSOC_D60"), CrcError("NANOSSOC_D60"), UnitError("NANOSSOC_D60")>>

\* Variant: only the bias of one magnetometer is corrected.
PowerOnNanossocD60_OneBias ==
    From(Sec(1), <<Protect("NANOSSOC_D60"), DisableLogging(HwOc)>>)
        \o From(Sec(2) + 1, <<PowerOn("NANOSSOC_D60")>>)
        \o From(Sec(5) + 1, <<AddBias("ON_AOBC", "NANOSSOC_D60", 1)>>
                                \o EnableAll(SunSensorGroups \o <<HwOc>>)
                                \o <<Deploy(<<"ACTIVATE", "NANOSSOC_D60">>)>>)

PowerOnNanossocD60 ==
    From(Sec(1), <<Protect("NANOSSOC_D60"), DisableLogging(HwOc)>>)
        \o From(Sec(2) + 1, <<PowerOn("NANOSSOC_D60")>>)
        \o From(Sec(5) + 1, BiasBoth("NANOSSOC_D60", 1)
                                \o EnableAll(SunSensorGroups \o <<HwOc>>)
                                \o <<Deploy(<<"ACTIVATE", "NANOSSOC_D60">>)>>)

PowerOffNanossocD60 ==
    From(Sec(1), <<Deploy(<<"INACTIVATE", "NANOSSOC_D60">>)>>)
        \o From(Sec(3), DisableAll(SunSensorGroups))
        \o From(Sec(4) + 2, <<PowerOff("NANOSSOC_D60")>>)
        \o From(Sec(5) + 2, BiasBoth("NANOSSOC_D60", -1))

ResetNanossocD60 == OffThenOn("NANOSSOC_D60", 1, Sec(5) + 3)
ActivateNanossocD60 == From(1, ActivateAll(SunSensorRules))

InactivateNanossocD60 ==
    From(1, InactivateAll(<<TlmError("NANOSSOC_D60")>>))
        \o From(5, InactivateAll(<<CrcError("NANOSSOC_D60")>>))
        \o From(9, InactivateAll(OcRules("NANOSSOC_D60")))

(* The GPS receiver. *)

Oem7600Rules == <<CrcError("OEM7600")>> \o OcRules("OEM7600")
Oem7600Groups == <<CrcError("OEM7600"), UnitError("OEM7600")>>

PowerOnOem7600 ==
    From(1, <<Protect("OEM7600"), DisableLogging(HwOc)>>)
        \o From(Sec(1) + 2, <<PowerOn("OEM7600")>>)
        \o From(Sec(15) + 2, BiasBoth("OEM7600", 1) \o <<Deploy(<<"ACTIVATE", "OEM7600">>)>>)

PowerOffOem7600 ==
    From(Sec(1), <<Deploy(<<"INACTIVATE", "OEM7600">>)>>)
        \o From(Sec(2), <<PowerOff("OEM7600")>>)
        \o From(Sec(3), BiasBoth("OEM7600", -1))

ResetOem7600 == OffThenOn("OEM7600", Sec(1), Sec(6))
ActivateOem7600 ==
    From(1, EnableAll(Oem7600Groups \o <<HwOc>>) \o ActivateAll(Oem7600Rules))
InactivateOem7600 == From(1, InactivateAll(Oem7600Rules) \o DisableAll(Oem7600Groups))

(* The star tracker. *)

SagittaRules == <<TlmError("SAGITTA"), CrcError("SAGITTA")>> \o OcRules("SAGITTA")
SagittaGroups == <<TlmError("SAGITTA"), CrcError("SAGITTA"), UnitError("SAGITTA")>>

PowerOnSagitta ==
    From(Sec(1), <<DisableLogging(HwOc), Protect("SAGITTA")>>)
        \o From(Sec(2) + 1, <<PowerOn("SAGITTA")>>)
        \o From(Sec(6) + 1, BiasBoth("SAGITTA", 1))
        \o << <<Sec(41) + 3, Protect("SAGITTA")>>,
              <<Sec(41) + 3, Deploy(<<"ACTIVATE", "SAGITTA">>)>> >>

PowerOffSagitta ==
    From(Sec(1), <<Deploy(<<"INACTIVATE", "SAGITTA">>)>>)
        \o From(Sec(2), <<PowerOff("SAGITTA")>>)
        \o From(Sec(3), BiasBoth("SAGITTA", -1))

ResetSagitta == OffThenOn("SAGITTA", 1, Sec(5) + 3)
ActivateSagitta == From(1, EnableAll(SagittaGroups \o <<HwOc>>) \o ActivateAll(SagittaRules))
InactivateSagitta == From(1, InactivateAll(SagittaRules) \o DisableAll(SagittaGroups))

(* The gyroscope. *)

Stim210Rules ==
    << TlmError("STIM210"), <<"TLM_ERROR_BROKEN", "STIM210">>,
       CrcError("STIM210"), <<"CRC_ERROR_BROKEN", "STIM210">> >> \o OcRules("STIM210")
Stim210Groups == <<TlmError("STIM210"), CrcError("STIM210"), UnitError("STIM210")>>

\* Variant: the gyro is selected before it is on.
PowerOnStim210_SelectFirst ==
    From(1, <<Protect("STIM210"), DisableLogging(HwOc)>>)
        \o From(Sec(1) + 2, <<SelectGyro("STIM210"), PowerOn("STIM210")>>)
        \o From(Sec(3) + 2, BiasBoth("STIM210", 1))
        \o From(Sec(12) + 4, <<Deploy(<<"ACTIVATE", "STIM210">>), Protect("STIM210")>>)

PowerOnStim210 ==
    From(1, <<Protect("STIM210"), DisableLogging(HwOc)>>)
        \o From(Sec(1) + 2, <<PowerOn("STIM210")>>)
        \o From(Sec(3) + 2, BiasBoth("STIM210", 1))
        \o From(Sec(11) + 4, <<SelectGyro("STIM210")>>)
        \o From(Sec(12) + 4, <<Deploy(<<"ACTIVATE", "STIM210">>), Protect("STIM210")>>)

PowerOffStim210 ==
    From(1, <<Deploy(<<"INACTIVATE", "STIM210">>)>>)
        \o From(Sec(2) + 1, <<SelectGyro("MPU9250")>>)
        \o From(Sec(3) + 1, <<PowerOff("STIM210")>> \o BiasBoth("STIM210", -1))

ResetStim210 == OffThenOn("STIM210", Sec(1), Sec(6))
ActivateStim210 == From(1, EnableAll(Stim210Groups \o <<HwOc>>) \o ActivateAll(Stim210Rules))
InactivateStim210 == From(1, InactivateAll(Stim210Rules) \o DisableAll(Stim210Groups))

(* The current sensors.  The one of the PIC has no unit of its own. *)

INA260_IDX == <<"PIC", "STIM210", "SAGITTA", "OEM7600", "RM3100", "NANOSSOC_D60", "MTQ",
                "RWX", "RWY", "RWZ">>
Ina260Rules == [i \in DOMAIN INA260_IDX |-> <<"TLM_ERROR_INA260", INA260_IDX[i]>>]
Ina260Groups == <<TlmError("INA260"), HwOc, SwOc>>

PowerOnIna260 ==
    From(1, <<PowerOn("INA260")>>)
        \o From(Sec(1) + 1, <<InitSensor("PIC")>>
                                 \o [i \in DOMAIN INA260_IDX |-> InitSensor(INA260_IDX[i])]
                                 \o EnableAll(Ina260Groups)
                                 \o <<Deploy(<<"ACTIVATE", "INA260">>)>>)

SetIna260OcLimit == From(1, [i \in DOMAIN INA260_IDX |-> Protect(INA260_IDX[i])])

PowerOffIna260 ==
    From(Sec(1), InactivateAll(Ina260Rules) \o DisableAll(Ina260Groups))
        \o From(Sec(3) + 3, <<PowerOff("INA260")>>)

\* Variant: on again before it is off.
ResetIna260_TooEarly ==
    OffThenOn("INA260", Sec(1), Sec(2)) \o << <<Sec(13), Deploy(<<"OC_LIMIT", "INA260">>)>> >>

ResetIna260 ==
    OffThenOn("INA260", Sec(1), Sec(8)) \o << <<Sec(13), Deploy(<<"OC_LIMIT", "INA260">>)>> >>

ActivateIna260 == From(1, ActivateAll(Ina260Rules))

-----------------------------------------------------------------------------
(* Mode transitions. *)

\* Entries <<seconds, command>>.
Timed(entries) == [i \in DOMAIN entries |-> <<Sec(entries[i][1]), entries[i][2]>>]
On(u) == Deploy(<<"ON", u>>)
Off(u) == Deploy(<<"OFF", u>>)
Reset(u) == Deploy(<<"RESET", u>>)

StartUpToInitial ==
    Timed(<< <<2, On("INA260")>>, <<7, Deploy(<<"OC_LIMIT", "INA260">>)>>,
             <<12, FinishTransition>> >>)

BdotToInitial ==
    Timed(<< <<1, Off("MTQ")>>, <<4, Reset("INA260")>>, <<9, Reset("MPU9250")>>,
             <<24, Reset("RM3100")>>, <<42, FinishTransition>> >>)

InitialToBdot ==
    Timed(<< <<1, On("MPU9250")>>, <<8, On("RM3100")>>, <<18, On("MTQ")>>,
             <<23, FinishTransition>> >>)

AnyToBdot ==
    Timed(<< <<2, Off("RWX")>>, <<6, Off("RWY")>>, <<10, Off("RWZ")>>, <<14, Off("OEM7600")>>,
             <<18, Off("STIM210")>>, <<22, Off("SAGITTA")>>, <<26, Off("NANOSSOC_D60")>>,
             <<33, Reset("INA260")>>, <<49, Reset("MTQ")>>, <<59, Reset("MPU9250")>>,
             <<75, Reset("RM3100")>>, <<93, ClearBias("EXTERNAL")>>, <<95, FinishTransition>> >>)

BdotToRoughSunPointing == Timed(<< <<2, On("NANOSSOC_D60")>>, <<12, FinishTransition>> >>)

RoughSunPointingToRoughThreeAxis == Timed(<< <<7, FinishTransition>> >>)

RoughThreeAxisToRoughThreeAxisRw ==
    Timed(<< <<3, On("RWX")>>, <<13, On("RWY")>>, <<23, On("RWZ")>>, <<28, FinishTransition>> >>)

RoughThreeAxisRwToFineThreeAxis ==
    Timed(<< <<3, On("STIM210")>>, <<17, On("SAGITTA")>>, <<60, FinishTransition>> >>)

Nop == Timed(<< <<5, FinishTransition>> >>)

Mode == {"START_UP", "INITIAL", "BDOT", "ROUGH_SUN_POINTING", "ROUGH_THREE_AXIS",
         "ROUGH_THREE_AXIS_RW", "FINE_THREE_AXIS"}

\* The modes that the transition table leads to from each mode.
Successors ==
    [m \in Mode |->
        CASE m = "START_UP" -> {"INITIAL"}
          [] m = "INITIAL" -> {"BDOT"}
          [] m = "BDOT" -> {"INITIAL", m, "ROUGH_SUN_POINTING"}
          [] m = "ROUGH_SUN_POINTING" -> {"BDOT", m, "ROUGH_THREE_AXIS"}
          [] m = "ROUGH_THREE_AXIS" -> {"BDOT", m, "ROUGH_THREE_AXIS_RW"}
          [] m = "ROUGH_THREE_AXIS_RW" -> {"BDOT", m, "FINE_THREE_AXIS"}
          [] m = "FINE_THREE_AXIS" -> {"BDOT", m}]

SwitchingTransition(m, n) ==
    CASE m = n -> Nop
      [] m = "START_UP" -> StartUpToInitial
      [] m = "BDOT" /\ n = "INITIAL" -> BdotToInitial
      [] m = "INITIAL" /\ n = "BDOT" -> InitialToBdot
      [] n = "ROUGH_SUN_POINTING" /\ m # n -> BdotToRoughSunPointing
      [] n = "ROUGH_THREE_AXIS" /\ m # n -> RoughSunPointingToRoughThreeAxis
      [] n = "ROUGH_THREE_AXIS_RW" /\ m # n -> RoughThreeAxisToRoughThreeAxisRw
      [] n = "FINE_THREE_AXIS" /\ m # n -> RoughThreeAxisRwToFineThreeAxis
      [] OTHER -> AnyToBdot

-----------------------------------------------------------------------------
(* The table of blocks. *)

PowerOnBlock(u) ==
    CASE u \in Wheel -> PowerOnRw(u)
      [] u = "RM3100" -> PowerOnRm3100
      [] u = "MPU9250" -> PowerOnMpu9250
      [] u = "MTQ" -> PowerOnMtq
      [] u = "NANOSSOC_D60" -> PowerOnNanossocD60
      [] u = "OEM7600" -> PowerOnOem7600
      [] u = "SAGITTA" -> PowerOnSagitta
      [] u = "STIM210" -> PowerOnStim210
      [] u = "INA260" -> PowerOnIna260

PowerOffBlock(u) ==
    CASE u \in Wheel -> PowerOffRw(u)
      [] u = "RM3100" -> PowerOffRm3100
      [] u = "MPU9250" -> PowerOffMpu9250
      [] u = "MTQ" -> PowerOffMtq
      [] u = "NANOSSOC_D60" -> PowerOffNanossocD60
      [] u = "OEM7600" -> PowerOffOem7600
      [] u = "SAGITTA" -> PowerOffSagitta
      [] u = "STIM210" -> PowerOffStim210
      [] u = "INA260" -> PowerOffIna260

ResetBlock(u) ==
    CASE u \in Wheel -> ResetRw(u)
      [] u = "RM3100" -> ResetRm3100
      [] u = "MPU9250" -> ResetMpu9250
      [] u = "MTQ" -> ResetMtq
      [] u = "NANOSSOC_D60" -> ResetNanossocD60
      [] u = "OEM7600" -> ResetOem7600
      [] u = "SAGITTA" -> ResetSagitta
      [] u = "STIM210" -> ResetStim210
      [] u = "INA260" -> ResetIna260

WatchBlock(b) ==
    CASE b = <<"ACTIVATE", "NANOSSOC_D60">> -> ActivateNanossocD60
      [] b = <<"INACTIVATE", "NANOSSOC_D60">> -> InactivateNanossocD60
      [] b = <<"ACTIVATE", "OEM7600">> -> ActivateOem7600
      [] b = <<"INACTIVATE", "OEM7600">> -> InactivateOem7600
      [] b = <<"ACTIVATE", "SAGITTA">> -> ActivateSagitta
      [] b = <<"INACTIVATE", "SAGITTA">> -> InactivateSagitta
      [] b = <<"ACTIVATE", "STIM210">> -> ActivateStim210
      [] b = <<"INACTIVATE", "STIM210">> -> InactivateStim210
      [] b = <<"ACTIVATE", "INA260">> -> ActivateIna260

SwitchingBlock(b) ==
    CASE b[1] = "ON" -> PowerOnBlock(b[2])
      [] b[1] = "OFF" -> PowerOffBlock(b[2])
      [] b[1] = "RESET" -> ResetBlock(b[2])
      [] b[1] = "OC_LIMIT" -> SetIna260OcLimit
      [] b[1] \in {"ACTIVATE", "INACTIVATE"} -> WatchBlock(b)
      [] OTHER -> << >>

-----------------------------------------------------------------------------
(* The other commands of the blocks and transitions. *)

OwnAt(times) == [i \in DOMAIN times |-> <<times[i], OwnCommand>>]

\* Commands, the first one at offset t and the others a second after each other.
EverySecond(t, n) == OwnAt([i \in 1..n |-> t + Sec(i - 1)])

OwnCommands(b) ==
    CASE b[1] = "ON" /\ b[2] \in Wheel -> OwnAt(<<Sec(3) + 2>>)
      [] b = <<"ON", "RM3100">> -> OwnAt(<<Sec(4) + 1, Sec(5) + 1>>)
      [] b = <<"ON", "MPU9250">> -> OwnAt(<<Sec(3)>>)
      [] b = <<"ON", "OEM7600">> -> OwnAt(<<Sec(2) + 2, Sec(7) + 2, Sec(12) + 2>>)
      [] b = <<"ON", "STIM210">> -> EverySecond(Sec(3) + 4, 6)
      [] b = <<"ON", "SAGITTA">> ->
             OwnAt(<<Sec(4) + 1, Sec(38) + 3>>)
                 \o << <<Sec(6) + 3, Deploy(<<"SET_PARAMETER", "SAGITTA">>)>>,
                       <<Sec(22) + 3, Deploy(<<"READ_PARAMETER", "SAGITTA">>)>> >>
      [] b = <<"SET_PARAMETER", "SAGITTA">> -> EverySecond(1, 16)
      [] b = <<"READ_PARAMETER", "SAGITTA">> -> EverySecond(1, 17)
      [] b \in { <<"RESET", "SAGITTA">>, <<"RESET", "NANOSSOC_D60">> } ->
             OwnAt(<<Sec(5) + 1, Sec(5) + 2>>)
      [] b = <<"INACTIVATE", "NANOSSOC_D60">> -> OwnAt(<<2, 3, 4, 6, 7, 8>>)
      [] OTHER -> << >>

Block(b) == SwitchingBlock(b) \o OwnCommands(b)

\* A transition forbids automatic transitions at first, sets the thresholds of its mode,
\* and some time after its end allows them again.
OwnCommandsOfTransition(m, n) ==
    CASE m = n -> << >>
      [] m = "START_UP" /\ n # m -> OwnAt(<<Sec(1)>>)
      [] n = "BDOT" /\ m \notin {n, "INITIAL"} ->
             OwnAt(<<Sec(1), Sec(94), Sec(95 + StartModeManager[n])>>)
      [] n = "ROUGH_SUN_POINTING" /\ m # n -> OwnAt(<<Sec(1), Sec(12 + StartModeManager[n])>>)
      [] n = "ROUGH_THREE_AXIS" /\ m # n ->
             OwnAt(<<Sec(1), Sec(2), Sec(7 + StartModeManager[n])>>)
      [] n = "ROUGH_THREE_AXIS_RW" /\ m # n ->
             OwnAt(<<Sec(1), Sec(2), Sec(28 + StartModeManager[n])>>)
      [] n = "FINE_THREE_AXIS" /\ m # n ->
             OwnAt(<<Sec(1), Sec(2), Sec(60 + StartModeManager[n])>>)
      [] OTHER -> << >>

Transition(m, n) == SwitchingTransition(m, n) \o OwnCommandsOfTransition(m, n)
=============================================================================
