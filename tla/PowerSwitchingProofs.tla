------------------------ MODULE PowerSwitchingProofs ------------------------
(***************************************************************************)
(* Type correctness of PowerSwitching, and that no interleaving of power   *)
(* sequences leaves the over-current reports disabled, for any transitions *)
(* and any faults.                                                         *)
(***************************************************************************)
EXTENDS PowerSwitching, TLAPS

Entry == Int \X Command

\* A command after which over-current reports may be missing.
Opener(c) == c \in {DisableLogging(HwOc), PowerOn("INA260")}

\* Each of them is followed by a later command that ends this.
Closed(s) ==
    \A i \in DOMAIN s : Opener(s[i][2]) =>
        \E j \in DOMAIN s : s[j][1] > s[i][1] /\ EndsMasking(s[j][2])

\* The way a block is shown to be closed: all that opens is before T, and something at T or
\* later ends it.
OpensBefore(s, T) == \A i \in DOMAIN s : Opener(s[i][2]) => s[i][1] < T
EndsAt(s, T) == \E j \in DOMAIN s : s[j][1] >= T /\ EndsMasking(s[j][2])

-----------------------------------------------------------------------------
(* Sequences of entries. *)

LEMMA FromType ==
    ASSUME NEW t \in Int, NEW cs \in Seq(Command)
    PROVE  /\ From(t, cs) \in Seq(Entry)
           /\ DOMAIN From(t, cs) = 1..Len(cs)
           /\ \A i \in 1..Len(cs) : From(t, cs)[i] = <<t + i - 1, cs[i]>>
<1>1. DOMAIN cs = 1..Len(cs) /\ Len(cs) \in Nat
  OBVIOUS
<1>2. \A i \in 1..Len(cs) : <<t + i - 1, cs[i]>> \in Entry
  BY <1>1 DEF Entry
<1>3. From(t, cs) \in [1..Len(cs) -> Entry]
  BY <1>1, <1>2 DEF From
<1>4. From(t, cs) \in Seq(Entry)
  BY <1>1, <1>3
<1> QED
  BY <1>1, <1>4 DEF From

\* What the four ways to name commands for all members of a sequence give.
LEMMA AllType ==
    /\ \A gs \in Seq(Group) : EnableAll(gs) \in Seq(Command) /\ DisableAll(gs) \in Seq(Command)
    /\ \A rs \in Seq(RuleName) :
           ActivateAll(rs) \in Seq(Command) /\ InactivateAll(rs) \in Seq(Command)
<1>1. ASSUME NEW gs \in Seq(Group)
      PROVE  EnableAll(gs) \in Seq(Command) /\ DisableAll(gs) \in Seq(Command)
  <2>1. /\ DOMAIN gs = 1..Len(gs)
        /\ Len(gs) \in Nat
        /\ \A i \in 1..Len(gs) : gs[i] \in Group
    OBVIOUS
  <2>2. \A i \in 1..Len(gs) : EnableLogging(gs[i]) \in Command /\ DisableLogging(gs[i]) \in Command
    BY <2>1 DEF EnableLogging, DisableLogging, Command
  <2>3. /\ EnableAll(gs) \in [1..Len(gs) -> Command]
        /\ DisableAll(gs) \in [1..Len(gs) -> Command]
    BY <2>1, <2>2 DEF EnableAll, DisableAll
  <2> QED
    BY <2>1, <2>3
<1>2. ASSUME NEW rs \in Seq(RuleName)
      PROVE  ActivateAll(rs) \in Seq(Command) /\ InactivateAll(rs) \in Seq(Command)
  <2>1. /\ DOMAIN rs = 1..Len(rs)
        /\ Len(rs) \in Nat
        /\ \A i \in 1..Len(rs) : rs[i] \in RuleName
    OBVIOUS
  <2>2. \A i \in 1..Len(rs) : ActivateRule(rs[i]) \in Command /\ InactivateRule(rs[i]) \in Command
    BY <2>1 DEF ActivateRule, InactivateRule, Command
  <2>3. /\ ActivateAll(rs) \in [1..Len(rs) -> Command]
        /\ InactivateAll(rs) \in [1..Len(rs) -> Command]
    BY <2>1, <2>2 DEF ActivateAll, InactivateAll
  <2> QED
    BY <2>1, <2>3
<1> QED
  BY <1>1, <1>2

LEMMA ConcatProperties ==
    ASSUME NEW S, NEW s \in Seq(S), NEW t \in Seq(S)
    PROVE  /\ s \o t \in Seq(S)
           /\ DOMAIN (s \o t) = 1..(Len(s) + Len(t))
           /\ \A i \in 1..Len(s) : (s \o t)[i] = s[i]
           /\ \A i \in 1..Len(t) : (s \o t)[Len(s) + i] = t[i]
           /\ \A i \in (Len(s) + 1)..(Len(s) + Len(t)) :
                  (s \o t)[i] = t[i - Len(s)] /\ i - Len(s) \in 1..Len(t)
  OBVIOUS

LEMMA ConcatOpensBefore ==
    ASSUME NEW s \in Seq(Entry), NEW t \in Seq(Entry), NEW T \in Int,
           OpensBefore(s, T), OpensBefore(t, T)
    PROVE  OpensBefore(s \o t, T)
<1> SUFFICES ASSUME NEW i \in DOMAIN (s \o t), Opener((s \o t)[i][2])
             PROVE  (s \o t)[i][1] < T
  BY DEF OpensBefore
<1>1. CASE i \in 1..Len(s)
  BY <1>1, ConcatProperties DEF OpensBefore
<1>2. CASE i \in (Len(s) + 1)..(Len(s) + Len(t))
  <2>1. (s \o t)[i] = t[i - Len(s)] /\ i - Len(s) \in DOMAIN t
    BY <1>2, ConcatProperties
  <2> QED
    BY <2>1 DEF OpensBefore
<1> QED
  BY <1>1, <1>2, ConcatProperties

LEMMA ConcatEndsAt ==
    ASSUME NEW s \in Seq(Entry), NEW t \in Seq(Entry), NEW T \in Int,
           EndsAt(s, T) \/ EndsAt(t, T)
    PROVE  EndsAt(s \o t, T)
<1>1. CASE EndsAt(s, T)
  <2>1. PICK j \in DOMAIN s : s[j][1] >= T /\ EndsMasking(s[j][2])
    BY <1>1 DEF EndsAt
  <2>2. j \in DOMAIN (s \o t) /\ (s \o t)[j] = s[j]
    BY <2>1, ConcatProperties
  <2> QED
    BY <2>1, <2>2 DEF EndsAt
<1>2. CASE EndsAt(t, T)
  <2>1. PICK j \in DOMAIN t : t[j][1] >= T /\ EndsMasking(t[j][2])
    BY <1>2 DEF EndsAt
  <2>2. Len(s) + j \in DOMAIN (s \o t) /\ (s \o t)[Len(s) + j] = t[j]
    BY <2>1, ConcatProperties
  <2> QED
    BY <2>1, <2>2 DEF EndsAt
<1> QED
  BY <1>1, <1>2

LEMMA ConcatClosed ==
    ASSUME NEW s \in Seq(Entry), NEW t \in Seq(Entry), Closed(s), Closed(t)
    PROVE  Closed(s \o t)
<1> SUFFICES ASSUME NEW i \in DOMAIN (s \o t), Opener((s \o t)[i][2])
             PROVE  \E j \in DOMAIN (s \o t) :
                        (s \o t)[j][1] > (s \o t)[i][1] /\ EndsMasking((s \o t)[j][2])
  BY DEF Closed
<1>1. CASE i \in 1..Len(s)
  <2>1. (s \o t)[i] = s[i] /\ i \in DOMAIN s
    BY <1>1, ConcatProperties
  <2>2. PICK j \in DOMAIN s : s[j][1] > s[i][1] /\ EndsMasking(s[j][2])
    BY <2>1 DEF Closed
  <2>3. j \in DOMAIN (s \o t) /\ (s \o t)[j] = s[j]
    BY <2>2, ConcatProperties
  <2> QED
    BY <2>1, <2>2, <2>3
<1>2. CASE i \in (Len(s) + 1)..(Len(s) + Len(t))
  <2>1. (s \o t)[i] = t[i - Len(s)] /\ i - Len(s) \in DOMAIN t
    BY <1>2, ConcatProperties
  <2>2. PICK j \in DOMAIN t : t[j][1] > t[i - Len(s)][1] /\ EndsMasking(t[j][2])
    BY <2>1 DEF Closed
  <2>3. Len(s) + j \in DOMAIN (s \o t) /\ (s \o t)[Len(s) + j] = t[j]
    BY <2>2, ConcatProperties
  <2> QED
    BY <2>1, <2>2, <2>3
<1>3. i \in 1..Len(s) \/ i \in (Len(s) + 1)..(Len(s) + Len(t))
  BY ConcatProperties
<1> QED
  BY <1>1, <1>2, <1>3

LEMMA ClosedIfEnded ==
    ASSUME NEW s \in Seq(Entry), NEW T \in Int, OpensBefore(s, T), EndsAt(s, T)
    PROVE  Closed(s)
<1>1. PICK j \in DOMAIN s : s[j][1] >= T /\ EndsMasking(s[j][2])
  BY DEF EndsAt
<1>2. \A i \in DOMAIN s : s[i][1] \in Int
  BY DEF Entry
<1> QED
  BY <1>1, <1>2 DEF Closed, OpensBefore

-----------------------------------------------------------------------------
(* Commands. *)

LEMMA CommandType ==
    /\ \A u \in Unit : {PowerOn(u), PowerOff(u)} \subseteq Command
    /\ \A u \in Monitored \cup {"PIC"} : {InitSensor(u), Protect(u)} \subseteq Command
    /\ \A g \in Group : {EnableLogging(g), DisableLogging(g)} \subseteq Command
    /\ \A r \in RuleName : {ActivateRule(r), InactivateRule(r)} \subseteq Command
    /\ \A m \in Mag, u \in Biasing, n \in {-1, 1} : AddBias(m, u, n) \in Command
    /\ \A m \in Mag : ClearBias(m) \in Command
    /\ {SelectGyro("MPU9250"), SelectGyro("STIM210")} \subseteq Command
    /\ \A b \in BlockId : Deploy(b) \in Command
    /\ FinishTransition \in Command /\ OwnCommand \in Command
<1>1. /\ \A u \in Unit : {PowerOn(u), PowerOff(u)} \subseteq Command
      /\ \A u \in Monitored \cup {"PIC"} : {InitSensor(u), Protect(u)} \subseteq Command
  BY DEF PowerOn, PowerOff, InitSensor, Protect, Command
<1>2. /\ \A g \in Group : {EnableLogging(g), DisableLogging(g)} \subseteq Command
      /\ \A r \in RuleName : {ActivateRule(r), InactivateRule(r)} \subseteq Command
  BY DEF EnableLogging, DisableLogging, ActivateRule, InactivateRule, Command
<1>3. /\ \A m \in Mag, u \in Biasing, n \in {-1, 1} : AddBias(m, u, n) \in Command
      /\ \A m \in Mag : ClearBias(m) \in Command
      /\ {SelectGyro("MPU9250"), SelectGyro("STIM210")} \subseteq Command
  BY DEF AddBias, ClearBias, SelectGyro, Command
<1>4. /\ \A b \in BlockId : Deploy(b) \in Command
      /\ FinishTransition \in Command /\ OwnCommand \in Command
  BY DEF Deploy, FinishTransition, OwnCommand, Command
<1> QED
  BY <1>1, <1>2, <1>3, <1>4

LEMMA NoOpeners ==
    /\ \A u : u # "INA260" => ~Opener(PowerOn(u))
    /\ \A g : g # HwOc => ~Opener(DisableLogging(g))
    /\ \A u : ~Opener(PowerOff(u)) /\ ~Opener(InitSensor(u)) /\ ~Opener(Protect(u))
    /\ \A g : ~Opener(EnableLogging(g))
    /\ \A r : ~Opener(ActivateRule(r)) /\ ~Opener(InactivateRule(r))
    /\ \A m, u, n : ~Opener(AddBias(m, u, n))
    /\ \A m : ~Opener(ClearBias(m))
    /\ \A g : ~Opener(SelectGyro(g))
    /\ \A b : ~Opener(Deploy(b))
    /\ ~Opener(FinishTransition) /\ ~Opener(OwnCommand)
BY DEF Opener, PowerOn, PowerOff, InitSensor, Protect, EnableLogging, DisableLogging,
       ActivateRule, InactivateRule, AddBias, ClearBias, SelectGyro, Deploy, FinishTransition,
       OwnCommand

LEMMA Enders ==
    /\ EndsMasking(EnableLogging(HwOc))
    /\ EndsMasking(PowerOff("INA260"))
BY DEF EndsMasking, Ends1, Ends0

\* Commands of which none is an opener, and commands of which one ends what openers begin.
Calm(cs) == cs \in Seq(Command) /\ \A i \in DOMAIN cs : ~Opener(cs[i])
Ending(cs) == cs \in Seq(Command) /\ \E k \in DOMAIN cs : EndsMasking(cs[k])

LEMMA CalmConcat ==
    ASSUME NEW cs, NEW ds, Calm(cs), Calm(ds)
    PROVE  Calm(cs \o ds)
<1>1. cs \in Seq(Command) /\ ds \in Seq(Command)
  BY DEF Calm
<1>2. cs \o ds \in Seq(Command)
  BY <1>1
<1>3. ASSUME NEW i \in DOMAIN (cs \o ds)
      PROVE  ~Opener((cs \o ds)[i])
  <2>1. CASE i \in 1..Len(cs)
    BY <1>1, <2>1, ConcatProperties DEF Calm
  <2>2. CASE i \in (Len(cs) + 1)..(Len(cs) + Len(ds))
    <3>1. (cs \o ds)[i] = ds[i - Len(cs)] /\ i - Len(cs) \in DOMAIN ds
      BY <1>1, <2>2, ConcatProperties
    <3> QED
      BY <3>1 DEF Calm
  <2>3. i \in 1..Len(cs) \/ i \in (Len(cs) + 1)..(Len(cs) + Len(ds))
    BY <1>1, ConcatProperties
  <2> QED
    BY <2>1, <2>2, <2>3
<1> QED
  BY <1>2, <1>3 DEF Calm

LEMMA EndingConcat ==
    ASSUME NEW cs \in Seq(Command), NEW ds \in Seq(Command), Ending(cs) \/ Ending(ds)
    PROVE  Ending(cs \o ds)
<1>1. CASE Ending(cs)
  <2>1. PICK k \in DOMAIN cs : EndsMasking(cs[k])
    BY <1>1 DEF Ending
  <2>2. k \in DOMAIN (cs \o ds) /\ (cs \o ds)[k] = cs[k]
    BY <2>1, ConcatProperties
  <2> QED
    BY <2>1, <2>2 DEF Ending
<1>2. CASE Ending(ds)
  <2>1. PICK k \in DOMAIN ds : EndsMasking(ds[k])
    BY <1>2 DEF Ending
  <2>2. Len(cs) + k \in DOMAIN (cs \o ds) /\ (cs \o ds)[Len(cs) + k] = ds[k]
    BY <2>1, ConcatProperties
  <2> QED
    BY <2>1, <2>2 DEF Ending
<1> QED
  BY <1>1, <1>2

LEMMA CalmAll ==
    /\ \A gs \in Seq(Group) : Calm(EnableAll(gs))
    /\ \A gs \in Seq(Group) : (\A i \in DOMAIN gs : gs[i] # HwOc) => Calm(DisableAll(gs))
    /\ \A rs \in Seq(RuleName) : Calm(ActivateAll(rs)) /\ Calm(InactivateAll(rs))
BY AllType, NoOpeners DEF Calm, EnableAll, DisableAll, ActivateAll, InactivateAll

\* Enabling groups of which the last is that of the over-current reports.
LEMMA EnablesHwOc ==
    ASSUME NEW gs \in Seq(Group)
    PROVE  Calm(EnableAll(gs \o <<HwOc>>)) /\ Ending(EnableAll(gs \o <<HwOc>>))
<1>1. <<HwOc>> \in Seq(Group) /\ gs \o <<HwOc>> \in Seq(Group)
  BY DEF Group
<1>2. Len(gs) + 1 \in DOMAIN (gs \o <<HwOc>>) /\ (gs \o <<HwOc>>)[Len(gs) + 1] = HwOc
  OBVIOUS
<1>3. /\ Len(gs) + 1 \in DOMAIN EnableAll(gs \o <<HwOc>>)
      /\ EnableAll(gs \o <<HwOc>>)[Len(gs) + 1] = EnableLogging(HwOc)
  BY <1>2 DEF EnableAll
<1> QED
  BY <1>1, <1>3, CalmAll, AllType, Enders DEF Ending

-----------------------------------------------------------------------------
(* Parts of blocks. *)

\* A part of a block in which the openers come before T.
Part(s, T) == s \in Seq(Entry) /\ OpensBefore(s, T)
Proper(s) == s \in Seq(Entry) /\ Closed(s)

LEMMA CalmPart ==
    ASSUME NEW t \in Int, NEW T \in Int, NEW cs, Calm(cs)
    PROVE  Part(From(t, cs), T)
BY FromType DEF Calm, Part, OpensBefore

LEMMA EarlyPart ==
    ASSUME NEW t \in Int, NEW T \in Int, NEW cs \in Seq(Command), t + Len(cs) - 1 < T
    PROVE  Part(From(t, cs), T)
BY FromType DEF Part, OpensBefore

LEMMA EndingPart ==
    ASSUME NEW t \in Int, NEW T \in Int, NEW cs, Ending(cs), t >= T
    PROVE  EndsAt(From(t, cs), T)
<1>1. cs \in Seq(Command) /\ DOMAIN cs = 1..Len(cs)
  BY DEF Ending
<1>2. PICK k \in 1..Len(cs) : EndsMasking(cs[k])
  BY <1>1 DEF Ending
<1>3. k \in DOMAIN From(t, cs) /\ From(t, cs)[k] = <<t + k - 1, cs[k]>>
  BY <1>1, FromType
<1> QED
  BY <1>2, <1>3 DEF EndsAt

LEMMA JoinParts ==
    ASSUME NEW T \in Int, NEW s, NEW t, Part(s, T), Part(t, T)
    PROVE  /\ Part(s \o t, T)
           /\ EndsAt(s, T) \/ EndsAt(t, T) => EndsAt(s \o t, T)
BY ConcatOpensBefore, ConcatEndsAt, ConcatProperties DEF Part

LEMMA ProperIfEnded ==
    ASSUME NEW T \in Int, NEW s, Part(s, T), EndsAt(s, T)
    PROVE  Proper(s)
BY ClosedIfEnded DEF Part, Proper

LEMMA CalmIsProper ==
    ASSUME NEW t \in Int, NEW cs, Calm(cs)
    PROVE  Proper(From(t, cs))
BY FromType DEF Calm, Proper, Closed

LEMMA JoinProper ==
    ASSUME NEW s, NEW t, Proper(s), Proper(t)
    PROVE  Proper(s \o t)
BY ConcatClosed, ConcatProperties DEF Proper

-----------------------------------------------------------------------------
(* The rules and groups of the units. *)

LEMMA OcRulesType == \A u \in Unit : OcRules(u) \in Seq(RuleName)
BY DEF OcRules, RuleName

LEMMA RulesType ==
    /\ \A u \in Unit : RwRules(u) \in Seq(RuleName)
    /\ Rm3100Rules \in Seq(RuleName)
    /\ SunSensorRules \in Seq(RuleName)
    /\ Oem7600Rules \in Seq(RuleName)
    /\ SagittaRules \in Seq(RuleName)
    /\ Stim210Rules \in Seq(RuleName)
    /\ Ina260Rules \in Seq(RuleName)
<1>1. ASSUME NEW u \in Unit PROVE RwRules(u) \in Seq(RuleName)
  <2>1. <<TlmError(u), CrcError(u)>> \in Seq(RuleName)
    BY DEF TlmError, CrcError, RuleName
  <2> QED
    BY <2>1, OcRulesType DEF RwRules
<1>2. {"RM3100", "NANOSSOC_D60", "OEM7600", "SAGITTA", "STIM210"} \subseteq Unit
  BY DEF Unit, Biasing
<1>3. Rm3100Rules \in Seq(RuleName)
  <2>1. << <<"TLM_ERROR_ON_AOBC", "RM3100">>, <<"TLM_ERROR_ON_AOBC_BROKEN", "RM3100">>,
           <<"TLM_ERROR_EXTERNAL", "RM3100">>, <<"TLM_ERROR_EXTERNAL_BROKEN", "RM3100">> >>
            \in Seq(RuleName)
    BY <1>2 DEF RuleName
  <2> QED
    BY <1>2, <2>1, OcRulesType DEF Rm3100Rules
<1>4. SunSensorRules \in Seq(RuleName)
  <2>1. <<TlmError("NANOSSOC_D60"), CrcError("NANOSSOC_D60")>> \in Seq(RuleName)
    BY <1>2 DEF TlmError, CrcError, RuleName
  <2> QED
    BY <1>2, <2>1, OcRulesType DEF SunSensorRules
<1>5. Oem7600Rules \in Seq(RuleName)
  <2>1. <<CrcError("OEM7600")>> \in Seq(RuleName)
    BY <1>2 DEF CrcError, RuleName
  <2> QED
    BY <1>2, <2>1, OcRulesType DEF Oem7600Rules
<1>6. SagittaRules \in Seq(RuleName)
  <2>1. <<TlmError("SAGITTA"), CrcError("SAGITTA")>> \in Seq(RuleName)
    BY <1>2 DEF TlmError, CrcError, RuleName
  <2> QED
    BY <1>2, <2>1, OcRulesType DEF SagittaRules
<1>7. Stim210Rules \in Seq(RuleName)
  <2>1. << TlmError("STIM210"), <<"TLM_ERROR_BROKEN", "STIM210">>,
           CrcError("STIM210"), <<"CRC_ERROR_BROKEN", "STIM210">> >> \in Seq(RuleName)
    BY <1>2 DEF TlmError, CrcError, RuleName
  <2> QED
    BY <1>2, <2>1, OcRulesType DEF Stim210Rules
<1>8. Ina260Rules \in Seq(RuleName)
  <2>1. /\ DOMAIN INA260_IDX = 1..10
        /\ \A i \in 1..10 : INA260_IDX[i] \in Unit \cup {"PIC"}
    BY DEF INA260_IDX, Unit, Wheel, Biasing
  <2>2. Ina260Rules \in [1..10 -> RuleName]
    BY <2>1 DEF Ina260Rules, RuleName
  <2>3. ASSUME NEW n \in Nat, NEW f \in [1..n -> RuleName]
        PROVE  f \in Seq(RuleName)
    OBVIOUS
  <2> QED
    BY <2>2, <2>3
<1> QED
  BY <1>1, <1>3, <1>4, <1>5, <1>6, <1>7, <1>8

LEMMA GroupsType ==
    /\ HwOc \in Group
    /\ \A u \in Unit : RwGroups(u) \in Seq(Group)
    /\ {Rm3100Groups, Mpu9250Groups, SunSensorGroups, Oem7600Groups} \subseteq Seq(Group)
    /\ {SagittaGroups, Stim210Groups, Ina260Groups} \subseteq Seq(Group)
<1>1. {"RM3100", "MPU9250", "NANOSSOC_D60", "OEM7600", "SAGITTA", "STIM210", "INA260"}
          \subseteq Unit
  BY DEF Unit, Biasing
<1>2. /\ HwOc \in Group /\ SwOc \in Group
      /\ \A u \in Unit : TlmError(u) \in Group /\ CrcError(u) \in Group /\ UnitError(u) \in Group
  BY DEF Group, TlmError, CrcError, UnitError
<1>3. \A u \in Unit : RwGroups(u) \in Seq(Group)
  BY <1>2 DEF RwGroups
<1>4. {Rm3100Groups, Mpu9250Groups, SunSensorGroups, Oem7600Groups} \subseteq Seq(Group)
  BY <1>1, <1>2 DEF Rm3100Groups, Mpu9250Groups, SunSensorGroups, Oem7600Groups
<1>5. {SagittaGroups, Stim210Groups, Ina260Groups} \subseteq Seq(Group)
  BY <1>1, <1>2 DEF SagittaGroups, Stim210Groups, Ina260Groups
<1> QED
  BY <1>2, <1>3, <1>4, <1>5

\* None of the groups of a unit is that of the over-current reports.
LEMMA UnitGroupsCalm ==
    /\ \A u \in Unit : Calm(DisableAll(RwGroups(u)))
    /\ Calm(DisableAll(Rm3100Groups)) /\ Calm(DisableAll(Mpu9250Groups))
    /\ Calm(DisableAll(SunSensorGroups)) /\ Calm(DisableAll(Oem7600Groups))
    /\ Calm(DisableAll(SagittaGroups)) /\ Calm(DisableAll(Stim210Groups))
<1>1. \A u : TlmError(u) # HwOc /\ CrcError(u) # HwOc /\ UnitError(u) # HwOc
  BY DEF TlmError, CrcError, UnitError, HwOc
<1>2. \A u \in Unit : \A i \in DOMAIN RwGroups(u) : RwGroups(u)[i] # HwOc
  BY <1>1 DEF RwGroups
<1>3. /\ \A i \in DOMAIN Rm3100Groups : Rm3100Groups[i] # HwOc
      /\ \A i \in DOMAIN Mpu9250Groups : Mpu9250Groups[i] # HwOc
      /\ \A i \in DOMAIN SunSensorGroups : SunSensorGroups[i] # HwOc
  BY <1>1 DEF Rm3100Groups, Mpu9250Groups, SunSensorGroups
<1>4. /\ \A i \in DOMAIN Oem7600Groups : Oem7600Groups[i] # HwOc
      /\ \A i \in DOMAIN SagittaGroups : SagittaGroups[i] # HwOc
      /\ \A i \in DOMAIN Stim210Groups : Stim210Groups[i] # HwOc
  BY <1>1 DEF Oem7600Groups, SagittaGroups, Stim210Groups
<1> QED
  BY <1>2, <1>3, <1>4, GroupsType, CalmAll

-----------------------------------------------------------------------------
(* Every block is proper. *)

LEMMA SecType ==
    /\ \A k \in Nat : Sec(k) \in Int
    /\ Sec(1) >= 1
    /\ Sec(3) >= Sec(1) + 10
    /\ \A k \in Nat : k >= 2 => Sec(k) > Sec(1)
BY CyclesAssumption DEF Sec, OBCT_sec2cycle

\* Entries that switch and watch nothing.
Idle(c) == c \in {OwnCommand, Deploy(<<"SET_PARAMETER", "SAGITTA">>),
                  Deploy(<<"READ_PARAMETER", "SAGITTA">>)}
Idling(s) == s \in Seq(Entry) /\ \A i \in DOMAIN s : Idle(s[i][2])

LEMMA IdleCommand ==
    /\ \A c : Idle(c) => c \in Command /\ ~Opener(c)
    /\ Idle(OwnCommand)
<1>1. /\ <<"SET_PARAMETER", "SAGITTA">> \in BlockId
      /\ <<"READ_PARAMETER", "SAGITTA">> \in BlockId
  BY DEF BlockId
<1> QED
  BY <1>1, CommandType, NoOpeners DEF Idle

LEMMA AtIdles == ASSUME NEW times \in Seq(Int) PROVE Idling(OwnAt(times))
<1>1. DOMAIN times = 1..Len(times) /\ Len(times) \in Nat
  OBVIOUS
<1>2. \A i \in 1..Len(times) : <<times[i], OwnCommand>> \in Entry
  BY <1>1, IdleCommand DEF Entry
<1>3. OwnAt(times) \in [1..Len(times) -> Entry]
  BY <1>1, <1>2 DEF OwnAt
<1>4. OwnAt(times) \in Seq(Entry)
  BY <1>1, <1>3
<1> QED
  BY <1>1, <1>4, IdleCommand DEF OwnAt, Idling

LEMMA EverySecondIdles ==
    ASSUME NEW t \in Int, NEW n \in Nat
    PROVE  Idling(EverySecond(t, n))
<1> DEFINE times == [i \in 1..n |-> t + Sec(i - 1)]
<1>1. \A i \in 1..n : t + Sec(i - 1) \in Int
  <2>1. ASSUME NEW i \in 1..n
        PROVE  t + Sec(i - 1) \in Int
    <3>1. i - 1 \in Nat
      OBVIOUS
    <3>2. Sec(i - 1) \in Int
      BY <3>1, SecType
    <3> QED
      BY <3>2
  <2> QED
    BY <2>1
<1>2. times \in [1..n -> Int]
  BY <1>1
<1>3. times \in Seq(Int)
  BY <1>2
<1> HIDE DEF times
<1>4. Idling(OwnAt(times))
  BY <1>3, AtIdles
<1> QED
  BY <1>4 DEF EverySecond, times

LEMMA JoinIdling == ASSUME NEW s, NEW t, Idling(s), Idling(t) PROVE Idling(s \o t)
<1>1. s \in Seq(Entry) /\ t \in Seq(Entry)
  BY DEF Idling
<1>2. s \o t \in Seq(Entry)
  BY <1>1
<1>3. ASSUME NEW i \in DOMAIN (s \o t)
      PROVE  Idle((s \o t)[i][2])
  <2>1. \/ i \in DOMAIN s /\ (s \o t)[i] = s[i]
        \/ i - Len(s) \in DOMAIN t /\ (s \o t)[i] = t[i - Len(s)]
    BY <1>1
  <2> QED
    BY <2>1 DEF Idling
<1> QED
  BY <1>2, <1>3 DEF Idling

\* The commands that blocks and transitions hold besides are idle.
LEMMA OwnCommandsIdle ==
    /\ \A b \in BlockId : Idling(OwnCommands(b))
    /\ \A m \in Mode, n \in Mode : Idling(OwnCommandsOfTransition(m, n))
<1>1. /\ \A k \in Nat : Sec(k) \in Int
      /\ \A t \in Int, n \in Nat : Idling(EverySecond(t, n))
  BY SecType, EverySecondIdles
<1>2. Idling(<< >>)
  BY DEF Idling
<1>3. /\ Idling(OwnAt(<<Sec(3) + 2>>)) /\ Idling(OwnAt(<<Sec(3)>>))
      /\ Idling(OwnAt(<<Sec(4) + 1, Sec(5) + 1>>))
      /\ Idling(OwnAt(<<Sec(2) + 2, Sec(7) + 2, Sec(12) + 2>>))
  <2>1. /\ <<Sec(3) + 2>> \in Seq(Int) /\ <<Sec(3)>> \in Seq(Int)
        /\ <<Sec(4) + 1, Sec(5) + 1>> \in Seq(Int)
        /\ <<Sec(2) + 2, Sec(7) + 2, Sec(12) + 2>> \in Seq(Int)
    BY <1>1
  <2> QED
    BY <2>1, AtIdles
<1>4. /\ Idling(OwnAt(<<Sec(5) + 1, Sec(5) + 2>>))
      /\ Idling(OwnAt(<<2, 3, 4, 6, 7, 8>>))
  <2>1. /\ <<Sec(5) + 1, Sec(5) + 2>> \in Seq(Int)
        /\ <<2, 3, 4, 6, 7, 8>> \in Seq(Int)
    BY <1>1
  <2> QED
    BY <2>1, AtIdles
<1>5. Idling(OwnAt(<<Sec(4) + 1, Sec(38) + 3>>)
                 \o << <<Sec(6) + 3, Deploy(<<"SET_PARAMETER", "SAGITTA">>)>>,
                       <<Sec(22) + 3, Deploy(<<"READ_PARAMETER", "SAGITTA">>)>> >>)
  <2> DEFINE deploys == << <<Sec(6) + 3, Deploy(<<"SET_PARAMETER", "SAGITTA">>)>>,
                           <<Sec(22) + 3, Deploy(<<"READ_PARAMETER", "SAGITTA">>)>> >>
  <2>1. <<Sec(4) + 1, Sec(38) + 3>> \in Seq(Int)
    BY <1>1
  <2>2. /\ Idle(Deploy(<<"SET_PARAMETER", "SAGITTA">>))
        /\ Idle(Deploy(<<"READ_PARAMETER", "SAGITTA">>))
    BY DEF Idle
  <2>3. /\ Deploy(<<"SET_PARAMETER", "SAGITTA">>) \in Command
        /\ Deploy(<<"READ_PARAMETER", "SAGITTA">>) \in Command
        /\ Sec(6) + 3 \in Int /\ Sec(22) + 3 \in Int
    BY <1>1, <2>2, IdleCommand
  <2>4. deploys \in Seq(Entry)
    BY <2>3 DEF Entry
  <2>5. Idling(deploys)
    BY <2>2, <2>4 DEF Idling
  <2> HIDE DEF deploys
  <2>6. Idling(OwnAt(<<Sec(4) + 1, Sec(38) + 3>>) \o deploys)
    BY <2>1, <2>5, AtIdles, JoinIdling
  <2> QED
    BY <2>6 DEF deploys
<1>6. ASSUME NEW b \in BlockId
      PROVE  Idling(OwnCommands(b))
  <2>1. Idling(EverySecond(Sec(3) + 4, 6)) /\ Idling(EverySecond(1, 16))
        /\ Idling(EverySecond(1, 17))
    BY <1>1
  <2> QED
    BY <1>2, <1>3, <1>4, <1>5, <2>1 DEF OwnCommands
<1>7. ASSUME NEW m \in Mode, NEW n \in Mode
      PROVE  Idling(OwnCommandsOfTransition(m, n))
  <2>1. StartModeManager[n] \in Nat
    BY PowerAssumption
  <2> DEFINE w == StartModeManager[n]
  <2>2. /\ <<Sec(1)>> \in Seq(Int)
        /\ <<Sec(1), Sec(94), Sec(95 + w)>> \in Seq(Int)
        /\ <<Sec(1), Sec(12 + w)>> \in Seq(Int)
        /\ <<Sec(1), Sec(2), Sec(7 + w)>> \in Seq(Int)
        /\ <<Sec(1), Sec(2), Sec(28 + w)>> \in Seq(Int)
        /\ <<Sec(1), Sec(2), Sec(60 + w)>> \in Seq(Int)
    <3>1. /\ 95 + w \in Nat /\ 12 + w \in Nat /\ 7 + w \in Nat /\ 28 + w \in Nat
          /\ 60 + w \in Nat
      BY <2>1
    <3> HIDE DEF w
    <3> QED
      BY <1>1, <3>1
  <2>3. /\ Idling(OwnAt(<<Sec(1)>>))
        /\ Idling(OwnAt(<<Sec(1), Sec(94), Sec(95 + w)>>))
        /\ Idling(OwnAt(<<Sec(1), Sec(12 + w)>>))
        /\ Idling(OwnAt(<<Sec(1), Sec(2), Sec(7 + w)>>))
        /\ Idling(OwnAt(<<Sec(1), Sec(2), Sec(28 + w)>>))
        /\ Idling(OwnAt(<<Sec(1), Sec(2), Sec(60 + w)>>))
    BY <2>2, AtIdles
  <2> QED
    BY <1>2, <2>3 DEF OwnCommandsOfTransition
<1> QED
  BY <1>6, <1>7

LEMMA WatchBlocksCalm ==
    /\ Proper(ActivateNanossocD60) /\ Proper(InactivateNanossocD60)
    /\ Proper(ActivateOem7600) /\ Proper(InactivateOem7600)
    /\ Proper(ActivateSagitta) /\ Proper(InactivateSagitta)
    /\ Proper(ActivateStim210) /\ Proper(InactivateStim210)
    /\ Proper(ActivateIna260)
<1>1. Proper(ActivateNanossocD60) /\ Proper(ActivateIna260)
  BY RulesType, CalmAll, CalmIsProper DEF ActivateNanossocD60, ActivateIna260
<1>2. Proper(InactivateNanossocD60)
  <2>1. {"NANOSSOC_D60"} \subseteq Unit
    BY DEF Unit, Biasing
  <2>2. /\ <<TlmError("NANOSSOC_D60")>> \in Seq(RuleName)
        /\ <<CrcError("NANOSSOC_D60")>> \in Seq(RuleName)
        /\ OcRules("NANOSSOC_D60") \in Seq(RuleName)
    BY <2>1, OcRulesType DEF TlmError, CrcError, RuleName
  <2>3. /\ Proper(From(1, InactivateAll(<<TlmError("NANOSSOC_D60")>>)))
        /\ Proper(From(5, InactivateAll(<<CrcError("NANOSSOC_D60")>>)))
        /\ Proper(From(9, InactivateAll(OcRules("NANOSSOC_D60"))))
    BY <2>2, CalmAll, CalmIsProper
  <2> QED
    BY <2>3, JoinProper DEF InactivateNanossocD60
<1>3. Proper(ActivateOem7600) /\ Proper(ActivateSagitta) /\ Proper(ActivateStim210)
  <2>1. /\ Calm(EnableAll(Oem7600Groups \o <<HwOc>>)) /\ Calm(ActivateAll(Oem7600Rules))
        /\ Calm(EnableAll(SagittaGroups \o <<HwOc>>)) /\ Calm(ActivateAll(SagittaRules))
        /\ Calm(EnableAll(Stim210Groups \o <<HwOc>>)) /\ Calm(ActivateAll(Stim210Rules))
    BY GroupsType, RulesType, EnablesHwOc, CalmAll
  <2> QED
    BY <2>1, CalmConcat, CalmIsProper DEF ActivateOem7600, ActivateSagitta, ActivateStim210
<1>4. Proper(InactivateOem7600) /\ Proper(InactivateSagitta) /\ Proper(InactivateStim210)
  <2>1. /\ Calm(InactivateAll(Oem7600Rules)) /\ Calm(InactivateAll(SagittaRules))
        /\ Calm(InactivateAll(Stim210Rules))
    BY RulesType, CalmAll
  <2> QED
    BY <2>1, UnitGroupsCalm, CalmConcat, CalmIsProper
    DEF InactivateOem7600, InactivateSagitta, InactivateStim210
<1> QED
  BY <1>1, <1>2, <1>3, <1>4

\* The blocks that activate the rules of a unit enable the over-current reports again.
LEMMA ActivatingEnds ==
    \A u \in {"OEM7600", "SAGITTA", "STIM210"} : EndsMasking(Deploy(<<"ACTIVATE", u>>))
<1>1. ASSUME NEW b, NEW gs \in Seq(Group), NEW rs \in Seq(RuleName),
             Block(b) = From(1, EnableAll(gs \o <<HwOc>>) \o ActivateAll(rs))
      PROVE  EndsMasking(Deploy(b))
  <2> DEFINE cs == EnableAll(gs \o <<HwOc>>) \o ActivateAll(rs)
  <2>1. /\ cs \in Seq(Command)
        /\ Len(gs) + 1 \in DOMAIN cs
        /\ cs[Len(gs) + 1] = EnableLogging(HwOc)
    <3>1. gs \o <<HwOc>> \in Seq(Group) /\ Len(gs \o <<HwOc>>) = Len(gs) + 1
      BY GroupsType
    <3>2. (gs \o <<HwOc>>)[Len(gs) + 1] = HwOc
      OBVIOUS
    <3>3. /\ EnableAll(gs \o <<HwOc>>) \in Seq(Command)
          /\ ActivateAll(rs) \in Seq(Command)
      BY <3>1, AllType
    <3>4. /\ Len(gs) + 1 \in 1..Len(EnableAll(gs \o <<HwOc>>))
          /\ EnableAll(gs \o <<HwOc>>)[Len(gs) + 1] = EnableLogging(HwOc)
      <4>1. DOMAIN EnableAll(gs \o <<HwOc>>) = 1..(Len(gs) + 1)
        BY <3>1 DEF EnableAll
      <4>2. DOMAIN EnableAll(gs \o <<HwOc>>) = 1..Len(EnableAll(gs \o <<HwOc>>))
        BY <3>3
      <4>3. Len(gs) + 1 \in DOMAIN EnableAll(gs \o <<HwOc>>)
        BY <4>1
      <4> QED
        BY <3>1, <3>2, <4>2, <4>3 DEF EnableAll
    <3> QED
      BY <3>3, <3>4, ConcatProperties
  <2>2. /\ Len(gs) + 1 \in DOMAIN Block(b)
        /\ Block(b)[Len(gs) + 1][2] = EnableLogging(HwOc)
    <3>1. Block(b) = From(1, cs)
      BY <1>1
    <3> HIDE DEF cs
    <3>2. 1 \in Int /\ DOMAIN cs = 1..Len(cs)
      BY <2>1
    <3> QED
      BY <2>1, <3>1, <3>2, FromType
  <2> QED
    BY <2>2 DEF EndsMasking, Ends1, DeploysAny, Ends0, Deploy
<1>2. /\ Block(<<"ACTIVATE", "OEM7600">>) = ActivateOem7600
      /\ Block(<<"ACTIVATE", "SAGITTA">>) = ActivateSagitta
      /\ Block(<<"ACTIVATE", "STIM210">>) = ActivateStim210
  <2>1. /\ SwitchingBlock(<<"ACTIVATE", "OEM7600">>) = ActivateOem7600
        /\ SwitchingBlock(<<"ACTIVATE", "SAGITTA">>) = ActivateSagitta
        /\ SwitchingBlock(<<"ACTIVATE", "STIM210">>) = ActivateStim210
    BY DEF SwitchingBlock, WatchBlock
  <2>2. \A u : OwnCommands(<<"ACTIVATE", u>>) = << >>
    BY DEF OwnCommands
  <2>3. \A s \in Seq(Entry) : s \o << >> = s
    OBVIOUS
  <2>4. /\ ActivateOem7600 \in Seq(Entry) /\ ActivateSagitta \in Seq(Entry)
        /\ ActivateStim210 \in Seq(Entry)
    BY WatchBlocksCalm DEF Proper
  <2> QED
    BY <2>1, <2>2, <2>3, <2>4 DEF Block
<1> QED
  BY <1>1, <1>2, GroupsType, RulesType DEF ActivateOem7600, ActivateSagitta, ActivateStim210

\* Most blocks that switch a unit on: the reports are disabled, the unit is switched on,
\* and its groups and rules and the reports are enabled.
LEMMA MaskedBlock ==
    ASSUME NEW t1 \in Int, NEW t2 \in Int, NEW t3 \in Int,
           NEW cs1 \in Seq(Command), NEW cs2, NEW cs3,
           Calm(cs2), Calm(cs3), Ending(cs3), t1 + Len(cs1) - 1 < t3
    PROVE  Proper(From(t1, cs1) \o From(t2, cs2) \o From(t3, cs3))
<1>1. /\ Part(From(t1, cs1), t3) /\ Part(From(t2, cs2), t3) /\ Part(From(t3, cs3), t3)
      /\ EndsAt(From(t3, cs3), t3)
  BY EarlyPart, CalmPart, EndingPart
<1>2. Part(From(t1, cs1) \o From(t2, cs2), t3)
  BY <1>1, JoinParts
<1>3. /\ Part((From(t1, cs1) \o From(t2, cs2)) \o From(t3, cs3), t3)
      /\ EndsAt((From(t1, cs1) \o From(t2, cs2)) \o From(t3, cs3), t3)
  BY <1>1, <1>2, JoinParts
<1> QED
  BY <1>3, ProperIfEnded

LEMMA UnitsOfBlocks ==
    /\ Wheel \cup Biasing \cup {"RM3100", "MTQ"} \subseteq Monitored
    /\ Wheel \cup Biasing \subseteq Unit
    /\ {"STIM210", "SAGITTA", "OEM7600", "NANOSSOC_D60"} \subseteq Biasing
    /\ {"RM3100", "MPU9250", "MTQ", "INA260"} \subseteq Unit
    /\ "INA260" \notin Wheel \cup Biasing
BY DEF Monitored, Unit, Biasing, Wheel

LEMMA CommandLists ==
    /\ \A u \in Monitored : /\ <<Protect(u), DisableLogging(HwOc)>> \in Seq(Command)
                            /\ <<DisableLogging(HwOc), Protect(u)>> \in Seq(Command)
    /\ \A u \in Unit : /\ Calm(<<PowerOff(u)>>)
                       /\ u # "INA260" => Calm(<<PowerOn(u)>>)
    /\ <<DisableLogging(HwOc)>> \in Seq(Command)
    /\ <<PowerOn("INA260")>> \in Seq(Command)
    /\ Calm(<<EnableLogging(HwOc)>>) /\ Ending(<<EnableLogging(HwOc)>>)
    /\ Ending(<<PowerOff("INA260")>>)
    /\ \A b \in BlockId : Calm(<<Deploy(b)>>)
    /\ \A u \in Biasing, n \in {-1, 1} : Calm(BiasBoth(u, n))
<1>1. \A u \in Monitored : /\ <<Protect(u), DisableLogging(HwOc)>> \in Seq(Command)
                           /\ <<DisableLogging(HwOc), Protect(u)>> \in Seq(Command)
  BY CommandType, GroupsType
<1>2. \A u \in Unit : /\ Calm(<<PowerOff(u)>>)
                      /\ u # "INA260" => Calm(<<PowerOn(u)>>)
  BY CommandType, NoOpeners DEF Calm
<1>3. /\ <<DisableLogging(HwOc)>> \in Seq(Command)
      /\ <<PowerOn("INA260")>> \in Seq(Command)
  BY CommandType, GroupsType, UnitsOfBlocks
<1>4. /\ Calm(<<EnableLogging(HwOc)>>) /\ Ending(<<EnableLogging(HwOc)>>)
      /\ Ending(<<PowerOff("INA260")>>)
  BY CommandType, NoOpeners, GroupsType, UnitsOfBlocks, Enders DEF Calm, Ending
<1>5. \A b \in BlockId : Calm(<<Deploy(b)>>)
  BY CommandType, NoOpeners DEF Calm
<1>6. \A u \in Biasing, n \in {-1, 1} : Calm(BiasBoth(u, n))
  BY CommandType, NoOpeners DEF Calm, BiasBoth, Mag
<1> QED
  BY <1>1, <1>2, <1>3, <1>4, <1>5, <1>6

LEMMA PowerOnRwProper == \A u \in Wheel : Proper(PowerOnRw(u))
<1> SUFFICES ASSUME NEW u \in Wheel PROVE Proper(PowerOnRw(u))
  OBVIOUS
<1> DEFINE watch == EnableAll(RwGroups(u) \o <<HwOc>>) \o ActivateAll(RwRules(u))
<1>1. u \in Unit /\ u \in Monitored /\ u # "INA260"
  BY UnitsOfBlocks
<1>2. Calm(watch) /\ Ending(watch)
  BY <1>1, GroupsType, RulesType, EnablesHwOc, CalmAll, CalmConcat, EndingConcat DEF Calm
<1>3. /\ <<Protect(u), DisableLogging(HwOc)>> \in Seq(Command)
      /\ Len(<<Protect(u), DisableLogging(HwOc)>>) = 2
      /\ Calm(<<PowerOn(u)>>)
  BY <1>1, CommandLists
<1>4. /\ 1 \in Int /\ Sec(1) + 2 \in Int /\ Sec(6) + 2 \in Int
      /\ 1 + Len(<<Protect(u), DisableLogging(HwOc)>>) - 1 < Sec(6) + 2
  BY <1>3, SecType
<1> HIDE DEF watch
<1>5. Proper(From(1, <<Protect(u), DisableLogging(HwOc)>>)
                \o From(Sec(1) + 2, <<PowerOn(u)>>) \o From(Sec(6) + 2, watch))
  BY <1>2, <1>3, <1>4, MaskedBlock
<1> QED
  BY <1>5 DEF PowerOnRw, watch

LEMMA PowerOnRm3100Proper == Proper(PowerOnRm3100)
<1> DEFINE watch == EnableAll(Rm3100Groups \o <<HwOc>>) \o ActivateAll(Rm3100Rules)
<1>1. Calm(watch) /\ Ending(watch)
  BY GroupsType, RulesType, EnablesHwOc, CalmAll, CalmConcat, EndingConcat DEF Calm
<1>2. /\ <<Protect("RM3100"), DisableLogging(HwOc)>> \in Seq(Command)
      /\ Len(<<Protect("RM3100"), DisableLogging(HwOc)>>) = 2
      /\ Calm(<<PowerOn("RM3100")>>)
  BY UnitsOfBlocks, CommandLists
<1>3. Sec(1) \in Int /\ Sec(2) + 1 \in Int /\ Sec(8) + 1 \in Int /\ Sec(1) + 2 - 1 < Sec(8) + 1
  BY SecType
<1> HIDE DEF watch
<1>4. Proper(From(Sec(1), <<Protect("RM3100"), DisableLogging(HwOc)>>)
                \o From(Sec(2) + 1, <<PowerOn("RM3100")>>) \o From(Sec(8) + 1, watch))
  BY <1>1, <1>2, <1>3, MaskedBlock
<1> QED
  BY <1>4 DEF PowerOnRm3100, watch

LEMMA PowerOnMpu9250Proper == Proper(PowerOnMpu9250)
<1> DEFINE watch == EnableAll(Mpu9250Groups \o <<HwOc>>) \o <<ActivateRule(TlmError("MPU9250"))>>
<1>1. Calm(<<ActivateRule(TlmError("MPU9250"))>>)
  BY UnitsOfBlocks, CommandType, NoOpeners DEF Calm, TlmError, RuleName
<1>2. Calm(watch) /\ Ending(watch)
  BY <1>1, GroupsType, EnablesHwOc, CalmConcat, EndingConcat DEF Calm
<1>3. /\ <<DisableLogging(HwOc)>> \in Seq(Command)
      /\ Len(<<DisableLogging(HwOc)>>) = 1
      /\ Calm(<<PowerOn("MPU9250")>>)
  BY UnitsOfBlocks, CommandLists
<1>4. Sec(1) \in Int /\ Sec(2) \in Int /\ Sec(6) \in Int /\ Sec(1) + 1 - 1 < Sec(6)
  BY SecType
<1> HIDE DEF watch
<1>5. Proper(From(Sec(1), <<DisableLogging(HwOc)>>)
                \o From(Sec(2), <<PowerOn("MPU9250")>>) \o From(Sec(6), watch))
  BY <1>2, <1>3, <1>4, MaskedBlock
<1> QED
  BY <1>5 DEF PowerOnMpu9250, watch

LEMMA PowerOnMtqProper == Proper(PowerOnMtq)
<1> DEFINE watch == <<EnableLogging(HwOc)>> \o ActivateAll(OcRules("MTQ"))
<1>1. Calm(ActivateAll(OcRules("MTQ")))
  BY UnitsOfBlocks, OcRulesType, CalmAll
<1>2. Calm(watch) /\ Ending(watch)
  BY <1>1, CommandLists, CalmConcat, EndingConcat DEF Calm
<1>3. /\ <<Protect("MTQ"), DisableLogging(HwOc)>> \in Seq(Command)
      /\ Len(<<Protect("MTQ"), DisableLogging(HwOc)>>) = 2
      /\ Calm(<<PowerOn("MTQ")>>)
  BY UnitsOfBlocks, CommandLists
<1>4. /\ 1 \in Int /\ Sec(1) + 2 \in Int /\ Sec(4) + 2 \in Int
      /\ 1 + Len(<<Protect("MTQ"), DisableLogging(HwOc)>>) - 1 < Sec(4) + 2
  BY <1>3, SecType
<1> HIDE DEF watch
<1>5. Proper(From(1, <<Protect("MTQ"), DisableLogging(HwOc)>>)
                \o From(Sec(1) + 2, <<PowerOn("MTQ")>>) \o From(Sec(4) + 2, watch))
  BY <1>2, <1>3, <1>4, MaskedBlock
<1> QED
  BY <1>5 DEF PowerOnMtq, watch

LEMMA PowerOnNanossocD60Proper == Proper(PowerOnNanossocD60)
<1> DEFINE u == "NANOSSOC_D60"
           watch == BiasBoth(u, 1) \o EnableAll(SunSensorGroups \o <<HwOc>>)
                        \o <<Deploy(<<"ACTIVATE", u>>)>>
<1>1. /\ Calm(BiasBoth(u, 1)) /\ Calm(<<Deploy(<<"ACTIVATE", u>>)>>)
      /\ Calm(EnableAll(SunSensorGroups \o <<HwOc>>))
      /\ Ending(EnableAll(SunSensorGroups \o <<HwOc>>))
  BY UnitsOfBlocks, CommandLists, GroupsType, EnablesHwOc DEF BlockId
<1>2. /\ Calm(BiasBoth(u, 1) \o EnableAll(SunSensorGroups \o <<HwOc>>))
      /\ Ending(BiasBoth(u, 1) \o EnableAll(SunSensorGroups \o <<HwOc>>))
  BY <1>1, CalmConcat, EndingConcat DEF Calm
<1>3. Calm(watch) /\ Ending(watch)
  BY <1>1, <1>2, CalmConcat, EndingConcat DEF Calm
<1>4. /\ <<Protect(u), DisableLogging(HwOc)>> \in Seq(Command)
      /\ Len(<<Protect(u), DisableLogging(HwOc)>>) = 2
      /\ Calm(<<PowerOn(u)>>)
  BY UnitsOfBlocks, CommandLists
<1>5. /\ Sec(1) \in Int /\ Sec(2) + 1 \in Int /\ Sec(5) + 1 \in Int
      /\ Sec(1) + Len(<<Protect(u), DisableLogging(HwOc)>>) - 1 < Sec(5) + 1
  BY <1>4, SecType
<1> HIDE DEF watch
<1>6. Proper(From(Sec(1), <<Protect(u), DisableLogging(HwOc)>>)
                \o From(Sec(2) + 1, <<PowerOn(u)>>) \o From(Sec(5) + 1, watch))
  BY <1>3, <1>4, <1>5, MaskedBlock
<1> QED
  BY <1>6 DEF PowerOnNanossocD60, watch

LEMMA PowerOnOem7600Proper == Proper(PowerOnOem7600)
<1> DEFINE u == "OEM7600"
           watch == BiasBoth(u, 1) \o <<Deploy(<<"ACTIVATE", u>>)>>
<1>1. Calm(BiasBoth(u, 1)) /\ Calm(<<Deploy(<<"ACTIVATE", u>>)>>)
  BY UnitsOfBlocks, CommandLists DEF BlockId
<1>2. Ending(<<Deploy(<<"ACTIVATE", u>>)>>)
  BY <1>1, ActivatingEnds DEF Calm, Ending
<1>3. Calm(watch) /\ Ending(watch)
  BY <1>1, <1>2, CalmConcat, EndingConcat DEF Calm
<1>4. /\ <<Protect(u), DisableLogging(HwOc)>> \in Seq(Command)
      /\ Len(<<Protect(u), DisableLogging(HwOc)>>) = 2
      /\ Calm(<<PowerOn(u)>>)
  BY UnitsOfBlocks, CommandLists
<1>5. /\ 1 \in Int /\ Sec(1) + 2 \in Int /\ Sec(15) + 2 \in Int
      /\ 1 + Len(<<Protect(u), DisableLogging(HwOc)>>) - 1 < Sec(15) + 2
  BY <1>4, SecType
<1> HIDE DEF watch
<1>6. Proper(From(1, <<Protect(u), DisableLogging(HwOc)>>)
                \o From(Sec(1) + 2, <<PowerOn(u)>>) \o From(Sec(15) + 2, watch))
  BY <1>3, <1>4, <1>5, MaskedBlock
<1> QED
  BY <1>6 DEF PowerOnOem7600, watch

\* The two units whose blocks have more parts.
LEMMA PowerOnSagittaProper == Proper(PowerOnSagitta)
<1> DEFINE u == "SAGITTA"
           T == Sec(41) + 3
           mask == From(Sec(1), <<DisableLogging(HwOc), Protect(u)>>)
           on == From(Sec(2) + 1, <<PowerOn(u)>>)
           correct == From(Sec(6) + 1, BiasBoth(u, 1))
           watch == << <<T, Protect(u)>>, <<T, Deploy(<<"ACTIVATE", u>>)>> >>
<1>1. T \in Int /\ Sec(1) \in Int /\ Sec(2) + 1 \in Int /\ Sec(6) + 1 \in Int /\ Sec(1) + 1 < T
  BY SecType
<1>2. Part(mask, T)
  <2>1. /\ <<DisableLogging(HwOc), Protect(u)>> \in Seq(Command)
        /\ Len(<<DisableLogging(HwOc), Protect(u)>>) = 2
    BY UnitsOfBlocks, CommandLists
  <2>2. Sec(1) + Len(<<DisableLogging(HwOc), Protect(u)>>) - 1 < T
    BY <1>1, <2>1
  <2> HIDE DEF T
  <2> QED
    BY <1>1, <2>1, <2>2, EarlyPart
<1>3. Part(on, T) /\ Part(correct, T)
  <2>1. Calm(<<PowerOn(u)>>) /\ Calm(BiasBoth(u, 1))
    BY UnitsOfBlocks, CommandLists
  <2> HIDE DEF T
  <2> QED
    BY <1>1, <2>1, CalmPart
<1>4. Part(watch, T) /\ EndsAt(watch, T)
  <2>1. Protect(u) \in Command /\ Deploy(<<"ACTIVATE", u>>) \in Command
    BY UnitsOfBlocks, CommandType DEF BlockId
  <2> HIDE DEF T
  <2>2. watch \in Seq(Entry)
    BY <1>1, <2>1 DEF Entry
  <2>3. OpensBefore(watch, T)
    BY NoOpeners DEF OpensBefore
  <2>4. EndsAt(watch, T)
    <3>1. 2 \in DOMAIN watch /\ watch[2] = <<T, Deploy(<<"ACTIVATE", u>>)>>
      OBVIOUS
    <3>2. EndsMasking(Deploy(<<"ACTIVATE", u>>)) /\ T >= T
      BY <1>1, ActivatingEnds
    <3> QED
      BY <3>1, <3>2 DEF EndsAt
  <2> QED
    BY <2>2, <2>3, <2>4 DEF Part
<1> HIDE DEF T, mask, on, correct, watch
<1>5. Part(mask \o on, T)
  BY <1>1, <1>2, <1>3, JoinParts
<1>6. Part((mask \o on) \o correct, T)
  BY <1>1, <1>3, <1>5, JoinParts
<1>7. Part(((mask \o on) \o correct) \o watch, T) /\ EndsAt(((mask \o on) \o correct) \o watch, T)
  BY <1>1, <1>4, <1>6, JoinParts
<1> QED
  BY <1>1, <1>7, ProperIfEnded DEF PowerOnSagitta, T, mask, on, correct, watch

LEMMA PowerOnStim210Proper == Proper(PowerOnStim210)
<1> DEFINE u == "STIM210"
           T == Sec(12) + 4
           mask == From(1, <<Protect(u), DisableLogging(HwOc)>>)
           on == From(Sec(1) + 2, <<PowerOn(u)>>)
           correct == From(Sec(3) + 2, BiasBoth(u, 1))
           select == From(Sec(11) + 4, <<SelectGyro(u)>>)
           watch == From(T, <<Deploy(<<"ACTIVATE", u>>), Protect(u)>>)
<1>1. /\ T \in Int /\ 1 \in Int /\ Sec(1) + 2 \in Int /\ Sec(3) + 2 \in Int /\ Sec(11) + 4 \in Int
      /\ 2 < T /\ T >= T
  BY SecType
<1>2. Part(mask, T)
  <2>1. /\ <<Protect(u), DisableLogging(HwOc)>> \in Seq(Command)
        /\ Len(<<Protect(u), DisableLogging(HwOc)>>) = 2
    BY UnitsOfBlocks, CommandLists
  <2>2. 1 + Len(<<Protect(u), DisableLogging(HwOc)>>) - 1 < T
    BY <1>1, <2>1
  <2> HIDE DEF T
  <2> QED
    BY <1>1, <2>1, <2>2, EarlyPart
<1>3. Part(on, T) /\ Part(correct, T) /\ Part(select, T)
  <2>1. Calm(<<PowerOn(u)>>) /\ Calm(BiasBoth(u, 1)) /\ Calm(<<SelectGyro(u)>>)
    BY UnitsOfBlocks, CommandLists, CommandType, NoOpeners DEF Calm
  <2> HIDE DEF T
  <2> QED
    BY <1>1, <2>1, CalmPart
<1>4. Part(watch, T) /\ EndsAt(watch, T)
  <2>1. Protect(u) \in Command /\ Deploy(<<"ACTIVATE", u>>) \in Command
    BY UnitsOfBlocks, CommandType DEF BlockId
  <2>2. Calm(<<Deploy(<<"ACTIVATE", u>>), Protect(u)>>)
    BY <2>1, NoOpeners DEF Calm
  <2>3. Ending(<<Deploy(<<"ACTIVATE", u>>), Protect(u)>>)
    BY <2>1, ActivatingEnds DEF Ending
  <2> HIDE DEF T
  <2> QED
    BY <1>1, <2>2, <2>3, CalmPart, EndingPart
<1> HIDE DEF T, mask, on, correct, select, watch
<1>5. Part(mask \o on, T)
  BY <1>1, <1>2, <1>3, JoinParts
<1>6. Part((mask \o on) \o correct, T)
  BY <1>1, <1>3, <1>5, JoinParts
<1>7. Part(((mask \o on) \o correct) \o select, T)
  BY <1>1, <1>3, <1>6, JoinParts
<1>8. /\ Part((((mask \o on) \o correct) \o select) \o watch, T)
      /\ EndsAt((((mask \o on) \o correct) \o select) \o watch, T)
  BY <1>1, <1>4, <1>7, JoinParts
<1> QED
  BY <1>1, <1>8, ProperIfEnded DEF PowerOnStim210, T, mask, on, correct, select, watch

\* The current sensors: switching them on asks for their reports, switching them off ends
\* what disabling the reports began.
LEMMA Ina260Proper == Proper(PowerOnIna260) /\ Proper(PowerOffIna260) /\ Proper(SetIna260OcLimit)
<1>1. /\ DOMAIN INA260_IDX = 1..10
      /\ \A i \in 1..10 : INA260_IDX[i] \in Monitored \cup {"PIC"}
  BY DEF INA260_IDX, Monitored, Unit, Wheel, Biasing
<1>2. ASSUME NEW n \in Nat, NEW f \in [1..n -> Command]
      PROVE  f \in Seq(Command)
  OBVIOUS
<1>3. Proper(PowerOnIna260)
  <2> DEFINE T == Sec(1) + 1
             inits == [i \in DOMAIN INA260_IDX |-> InitSensor(INA260_IDX[i])]
             first == <<InitSensor("PIC")>>
             enable == EnableAll(Ina260Groups)
             last == <<Deploy(<<"ACTIVATE", "INA260">>)>>
  <2>1. Calm(first) /\ Calm(inits) /\ Calm(enable) /\ Calm(last)
    <3>1. Calm(first)
      BY CommandType, NoOpeners DEF Calm
    <3>2. inits \in [1..10 -> Command]
      BY <1>1, CommandType
    <3>3. Calm(inits)
      BY <1>2, <3>2, NoOpeners DEF Calm
    <3> QED
      BY <3>1, <3>3, GroupsType, CalmAll, CommandLists DEF BlockId
  <2>2. Ending(enable)
    <3>1. 2 \in DOMAIN Ina260Groups /\ Ina260Groups[2] = HwOc
      BY DEF Ina260Groups
    <3>2. 2 \in DOMAIN enable /\ enable[2] = EnableLogging(HwOc)
      BY <3>1 DEF EnableAll
    <3> QED
      BY <2>1, <3>2, Enders DEF Calm, Ending
  <2>3. T \in Int /\ 1 \in Int /\ 1 < T /\ T >= T
    BY SecType
  <2>4. Part(From(1, <<PowerOn("INA260")>>), T)
    <3>1. <<PowerOn("INA260")>> \in Seq(Command) /\ Len(<<PowerOn("INA260")>>) = 1
      BY CommandLists
    <3>2. 1 + Len(<<PowerOn("INA260")>>) - 1 < T
      BY <2>3, <3>1
    <3> HIDE DEF T
    <3> QED
      BY <2>3, <3>1, <3>2, EarlyPart
  <2> HIDE DEF T, inits, first, enable, last
  <2>5. Calm(first \o inits)
    BY <2>1, CalmConcat
  <2>6. Calm((first \o inits) \o enable) /\ Ending((first \o inits) \o enable)
    BY <2>1, <2>2, <2>5, CalmConcat, EndingConcat DEF Calm
  <2>7. Calm(((first \o inits) \o enable) \o last) /\ Ending(((first \o inits) \o enable) \o last)
    BY <2>1, <2>6, CalmConcat, EndingConcat DEF Calm
  <2>8. /\ Part(From(T, ((first \o inits) \o enable) \o last), T)
        /\ EndsAt(From(T, ((first \o inits) \o enable) \o last), T)
    BY <2>3, <2>7, CalmPart, EndingPart
  <2>9. Proper(From(1, <<PowerOn("INA260")>>) \o From(T, ((first \o inits) \o enable) \o last))
    BY <2>3, <2>4, <2>8, JoinParts, ProperIfEnded
  <2> QED
    BY <2>9 DEF PowerOnIna260, T, inits, first, enable, last
<1>4. Proper(PowerOffIna260)
  <2> DEFINE T == Sec(3) + 3
             quiet == InactivateAll(Ina260Rules) \o DisableAll(Ina260Groups)
  <2>1. quiet \in Seq(Command) /\ Len(quiet) = 13
    <3>1. /\ InactivateAll(Ina260Rules) \in Seq(Command)
          /\ DisableAll(Ina260Groups) \in Seq(Command)
      BY RulesType, GroupsType, AllType
    <3>2. DOMAIN InactivateAll(Ina260Rules) = 1..10
      BY <1>1 DEF InactivateAll, Ina260Rules
    <3>3. DOMAIN DisableAll(Ina260Groups) = 1..3
      BY DEF DisableAll, Ina260Groups
    <3>4. Len(InactivateAll(Ina260Rules)) = 10 /\ Len(DisableAll(Ina260Groups)) = 3
      BY <3>1, <3>2, <3>3
    <3>5. /\ quiet \in Seq(Command)
          /\ Len(quiet) = Len(InactivateAll(Ina260Rules)) + Len(DisableAll(Ina260Groups))
      BY <3>1
    <3> QED
      BY <3>4, <3>5
  <2> HIDE DEF quiet
  <2>2. /\ T \in Int /\ Sec(1) \in Int /\ T >= T
        /\ Sec(1) + Len(quiet) - 1 < T
    <3>1. Sec(1) \in Int /\ Sec(3) \in Int /\ Sec(3) >= Sec(1) + 10
      BY SecType
    <3> QED
      BY <2>1, <3>1
  <2> HIDE DEF T
  <2>3. Part(From(Sec(1), quiet), T)
    BY <2>1, <2>2, EarlyPart
  <2>4. /\ Part(From(T, <<PowerOff("INA260")>>), T)
        /\ EndsAt(From(T, <<PowerOff("INA260")>>), T)
    BY <2>2, UnitsOfBlocks, CommandLists, CalmPart, EndingPart
  <2>5. Proper(From(Sec(1), quiet) \o From(T, <<PowerOff("INA260")>>))
    BY <2>2, <2>3, <2>4, JoinParts, ProperIfEnded
  <2> QED
    BY <2>5 DEF PowerOffIna260, T, quiet
<1>5. Proper(SetIna260OcLimit)
  <2> DEFINE protects == [i \in DOMAIN INA260_IDX |-> Protect(INA260_IDX[i])]
  <2>1. protects \in [1..10 -> Command]
    BY <1>1, CommandType
  <2>2. Calm(protects)
    BY <1>2, <2>1, NoOpeners DEF Calm
  <2> HIDE DEF protects
  <2>3. Proper(From(1, protects))
    BY <2>2, CalmIsProper
  <2> QED
    BY <2>3 DEF SetIna260OcLimit, protects
<1> QED
  BY <1>3, <1>4, <1>5

LEMMA PowerOffProper ==
    /\ \A u \in Wheel : Proper(PowerOffRw(u))
    /\ Proper(PowerOffRm3100) /\ Proper(PowerOffMpu9250) /\ Proper(PowerOffMtq)
    /\ Proper(PowerOffNanossocD60) /\ Proper(PowerOffOem7600) /\ Proper(PowerOffSagitta)
    /\ Proper(PowerOffStim210)
<1>1. /\ Sec(1) \in Int /\ Sec(2) \in Int /\ Sec(3) \in Int
      /\ Sec(2) + 1 \in Int /\ Sec(2) + 3 \in Int /\ Sec(2) + 9 \in Int
      /\ Sec(3) + 1 \in Int /\ Sec(4) + 2 \in Int /\ Sec(5) + 2 \in Int
  BY SecType
<1>2. ASSUME NEW u \in Wheel PROVE Proper(PowerOffRw(u))
  <2>1. u \in Unit
    BY UnitsOfBlocks
  <2>2. Calm(InactivateAll(RwRules(u)) \o DisableAll(RwGroups(u)))
    BY <2>1, RulesType, CalmAll, UnitGroupsCalm, CalmConcat
  <2>3. Calm(<<PowerOff(u)>>)
    BY <2>1, CommandLists
  <2> QED
    BY <1>1, <2>2, <2>3, CalmIsProper, JoinProper DEF PowerOffRw
<1>3. Proper(PowerOffRm3100)
  <2>1. Calm(DisableAll(Rm3100Groups) \o InactivateAll(Rm3100Rules))
    BY RulesType, CalmAll, UnitGroupsCalm, CalmConcat
  <2>2. Calm(<<PowerOff("RM3100")>>)
    BY UnitsOfBlocks, CommandLists
  <2> QED
    BY <1>1, <2>1, <2>2, CalmIsProper, JoinProper DEF PowerOffRm3100
<1>4. Proper(PowerOffMpu9250)
  <2>1. Calm(<<InactivateRule(TlmError("MPU9250"))>>)
    BY UnitsOfBlocks, CommandType, NoOpeners DEF Calm, TlmError, RuleName
  <2>2. Calm(<<InactivateRule(TlmError("MPU9250"))>> \o DisableAll(Mpu9250Groups))
    BY <2>1, UnitGroupsCalm, CalmConcat
  <2>3. Calm(<<PowerOff("MPU9250")>>)
    BY UnitsOfBlocks, CommandLists
  <2> QED
    BY <1>1, <2>2, <2>3, CalmIsProper, JoinProper DEF PowerOffMpu9250
<1>5. Proper(PowerOffMtq)
  <2>1. Calm(InactivateAll(OcRules("MTQ")))
    BY UnitsOfBlocks, OcRulesType, CalmAll
  <2>2. Calm(<<PowerOff("MTQ")>>)
    BY UnitsOfBlocks, CommandLists
  <2> QED
    BY <1>1, <2>1, <2>2, CalmIsProper, JoinProper DEF PowerOffMtq
<1>6. ASSUME NEW u \in Biasing
      PROVE  /\ Calm(<<Deploy(<<"INACTIVATE", u>>)>>)
             /\ Calm(<<PowerOff(u)>>)
             /\ Calm(BiasBoth(u, -1))
             /\ Calm(<<PowerOff(u)>> \o BiasBoth(u, -1))
  <2>1. /\ Calm(<<Deploy(<<"INACTIVATE", u>>)>>)
        /\ Calm(<<PowerOff(u)>>)
        /\ Calm(BiasBoth(u, -1))
    BY UnitsOfBlocks, CommandLists DEF BlockId
  <2> QED
    BY <2>1, CalmConcat
<1>7. Proper(PowerOffNanossocD60)
  <2> DEFINE u == "NANOSSOC_D60"
  <2>1. /\ Proper(From(Sec(1), <<Deploy(<<"INACTIVATE", u>>)>>))
        /\ Proper(From(Sec(3), DisableAll(SunSensorGroups)))
        /\ Proper(From(Sec(4) + 2, <<PowerOff(u)>>))
        /\ Proper(From(Sec(5) + 2, BiasBoth(u, -1)))
    BY <1>1, <1>6, UnitsOfBlocks, UnitGroupsCalm, CalmIsProper
  <2> QED
    BY <2>1, JoinProper DEF PowerOffNanossocD60
<1>8. Proper(PowerOffOem7600) /\ Proper(PowerOffSagitta)
  <2>1. ASSUME NEW u \in Biasing
        PROVE  /\ Proper(From(Sec(1), <<Deploy(<<"INACTIVATE", u>>)>>))
               /\ Proper(From(Sec(2), <<PowerOff(u)>>))
               /\ Proper(From(Sec(3), BiasBoth(u, -1)))
    BY <1>1, <1>6, CalmIsProper
  <2>2. "OEM7600" \in Biasing /\ "SAGITTA" \in Biasing
    BY UnitsOfBlocks
  <2> QED
    BY <2>1, <2>2, JoinProper DEF PowerOffOem7600, PowerOffSagitta
<1>9. Proper(PowerOffStim210)
  <2> DEFINE u == "STIM210"
  <2>1. Calm(<<SelectGyro("MPU9250")>>)
    BY CommandType, NoOpeners DEF Calm
  <2>2. /\ Proper(From(1, <<Deploy(<<"INACTIVATE", u>>)>>))
        /\ Proper(From(Sec(2) + 1, <<SelectGyro("MPU9250")>>))
        /\ Proper(From(Sec(3) + 1, <<PowerOff(u)>> \o BiasBoth(u, -1)))
    BY <1>1, <1>6, <2>1, UnitsOfBlocks, CalmIsProper
  <2> QED
    BY <2>2, JoinProper DEF PowerOffStim210
<1> QED
  BY <1>2, <1>3, <1>4, <1>5, <1>7, <1>8, <1>9

\* Blocks and transitions that only deploy blocks.
LEMMA CalmEntries ==
    ASSUME NEW s \in Seq(Entry), \A i \in DOMAIN s : ~Opener(s[i][2])
    PROVE  Proper(s)
BY DEF Proper, Closed

LEMMA ResetProper == \A u \in Unit : Proper(ResetBlock(u))
<1>1. ASSUME NEW u \in Unit, NEW off \in Int, NEW on \in Int
      PROVE  Proper(OffThenOn(u, off, on))
  <2>1. Deploy(<<"OFF", u>>) \in Command /\ Deploy(<<"ON", u>>) \in Command
    BY CommandType DEF BlockId
  <2>2. OffThenOn(u, off, on) \in Seq(Entry)
    BY <2>1 DEF OffThenOn, Entry
  <2>3. \A i \in DOMAIN OffThenOn(u, off, on) : ~Opener(OffThenOn(u, off, on)[i][2])
    BY NoOpeners DEF OffThenOn
  <2> QED
    BY <2>2, <2>3, CalmEntries
<1>2. /\ 1 \in Int /\ Sec(1) \in Int /\ Sec(5) \in Int /\ Sec(6) \in Int /\ Sec(8) \in Int
      /\ Sec(5) + 3 \in Int /\ Sec(13) \in Int
  BY SecType
<1>3. \A u \in Wheel : Proper(ResetRw(u))
  BY <1>1, <1>2, UnitsOfBlocks DEF ResetRw
<1>4. /\ Proper(ResetRm3100) /\ Proper(ResetMpu9250) /\ Proper(ResetMtq)
      /\ Proper(ResetNanossocD60) /\ Proper(ResetOem7600) /\ Proper(ResetSagitta)
      /\ Proper(ResetStim210)
  BY <1>1, <1>2, UnitsOfBlocks
  DEF ResetRm3100, ResetMpu9250, ResetMtq, ResetNanossocD60, ResetOem7600, ResetSagitta,
      ResetStim210
<1>5. Proper(ResetIna260)
  <2> DEFINE limit == << <<Sec(13), Deploy(<<"OC_LIMIT", "INA260">>)>> >>
  <2>1. Deploy(<<"OC_LIMIT", "INA260">>) \in Command
    BY CommandType DEF BlockId
  <2>2. limit \in Seq(Entry)
    BY <1>2, <2>1 DEF Entry
  <2>3. \A i \in DOMAIN limit : ~Opener(limit[i][2])
    BY NoOpeners
  <2> HIDE DEF limit
  <2>4. Proper(OffThenOn("INA260", Sec(1), Sec(8))) /\ Proper(limit)
    BY <1>1, <1>2, <2>2, <2>3, UnitsOfBlocks, CalmEntries
  <2> QED
    BY <2>4, JoinProper DEF ResetIna260, limit
<1> QED
  BY <1>3, <1>4, <1>5 DEF ResetBlock, Unit, Biasing

\* Every block is a sequence of entries in which what disables the over-current reports is
\* followed by what enables them.
LEMMA SwitchingBlockIsProper == \A b \in BlockId : Proper(SwitchingBlock(b))
<1>1. ASSUME NEW u \in Unit PROVE Proper(PowerOnBlock(u)) /\ Proper(PowerOffBlock(u))
  <2>1. /\ \A w \in Wheel : PowerOnBlock(w) = PowerOnRw(w)
        /\ PowerOnBlock("RM3100") = PowerOnRm3100
        /\ PowerOnBlock("MPU9250") = PowerOnMpu9250
        /\ PowerOnBlock("MTQ") = PowerOnMtq
        /\ PowerOnBlock("NANOSSOC_D60") = PowerOnNanossocD60
        /\ PowerOnBlock("OEM7600") = PowerOnOem7600
        /\ PowerOnBlock("SAGITTA") = PowerOnSagitta
        /\ PowerOnBlock("STIM210") = PowerOnStim210
        /\ PowerOnBlock("INA260") = PowerOnIna260
    BY DEF PowerOnBlock, Wheel
  <2>2. /\ \A w \in Wheel : PowerOffBlock(w) = PowerOffRw(w)
        /\ PowerOffBlock("RM3100") = PowerOffRm3100
        /\ PowerOffBlock("MPU9250") = PowerOffMpu9250
        /\ PowerOffBlock("MTQ") = PowerOffMtq
        /\ PowerOffBlock("NANOSSOC_D60") = PowerOffNanossocD60
        /\ PowerOffBlock("OEM7600") = PowerOffOem7600
        /\ PowerOffBlock("SAGITTA") = PowerOffSagitta
        /\ PowerOffBlock("STIM210") = PowerOffStim210
        /\ PowerOffBlock("INA260") = PowerOffIna260
    BY DEF PowerOffBlock, Wheel
  <2>3. \/ u \in Wheel
        \/ u \in {"RM3100", "MPU9250", "MTQ", "INA260"}
        \/ u \in {"NANOSSOC_D60", "OEM7600", "SAGITTA", "STIM210"}
    BY DEF Unit, Biasing
  <2>4. Proper(PowerOnBlock(u))
    BY <2>1, <2>3, PowerOnRwProper, PowerOnRm3100Proper, PowerOnMpu9250Proper, PowerOnMtqProper,
       PowerOnNanossocD60Proper, PowerOnOem7600Proper, PowerOnSagittaProper,
       PowerOnStim210Proper, Ina260Proper
  <2>5. Proper(PowerOffBlock(u))
    BY <2>2, <2>3, PowerOffProper, Ina260Proper
  <2> QED
    BY <2>4, <2>5
<1>2. ASSUME NEW b \in ({"ACTIVATE"} \X (Biasing \cup {"INA260"})) \cup ({"INACTIVATE"} \X Biasing)
      PROVE  Proper(WatchBlock(b))
  BY <1>2, WatchBlocksCalm DEF WatchBlock, Biasing
<1>3. ASSUME NEW u \in Unit
      PROVE  /\ Proper(SwitchingBlock(<<"ON", u>>)) /\ Proper(SwitchingBlock(<<"OFF", u>>))
             /\ Proper(SwitchingBlock(<<"RESET", u>>))
  BY <1>1, ResetProper DEF SwitchingBlock
<1>4. ASSUME NEW b \in ({"ACTIVATE"} \X (Biasing \cup {"INA260"})) \cup ({"INACTIVATE"} \X Biasing)
      PROVE  Proper(SwitchingBlock(b))
  <2>1. SwitchingBlock(b) = WatchBlock(b)
    BY DEF SwitchingBlock
  <2> QED
    BY <1>2, <2>1
<1>5. Proper(SwitchingBlock(<<"OC_LIMIT", "INA260">>))
  BY Ina260Proper DEF SwitchingBlock
<1> SUFFICES ASSUME NEW b \in BlockId PROVE Proper(SwitchingBlock(b))
  OBVIOUS
<1>6. CASE b \in {"ON", "OFF", "RESET"} \X Unit
  <2>1. PICK k \in {"ON", "OFF", "RESET"}, u \in Unit : b = <<k, u>>
    BY <1>6
  <2> QED
    BY <1>3, <2>1
<1>7. CASE b \in { <<"SET_PARAMETER", "SAGITTA">>, <<"READ_PARAMETER", "SAGITTA">> }
  <2>1. SwitchingBlock(b) = << >>
    BY <1>7 DEF SwitchingBlock
  <2>2. Proper(<< >>)
    BY DEF Proper, Closed
  <2> QED
    BY <2>1, <2>2
<1> QED
  BY <1>4, <1>5, <1>6, <1>7 DEF BlockId

LEMMA IdlingProper == ASSUME NEW s, Idling(s) PROVE Proper(s)
BY IdleCommand, CalmEntries DEF Idling

\* What the blocks hold besides changes nothing in this.
LEMMA BlockIsProper == \A b \in BlockId : Proper(Block(b))
BY SwitchingBlockIsProper, OwnCommandsIdle, IdlingProper, JoinProper DEF Block

LEMMA SwitchingTransitionIsProper ==
    \A m \in Mode, n \in Mode : Proper(SwitchingTransition(m, n))
<1> DEFINE CalmCommand == {c \in Command : ~Opener(c)}
<1>1. ASSUME NEW entries \in Seq(Nat \X CalmCommand)
      PROVE  Proper(Timed(entries))
  <2>1. DOMAIN entries = 1..Len(entries) /\ Len(entries) \in Nat
    OBVIOUS
  <2>2. \A i \in 1..Len(entries) : entries[i][1] \in Nat /\ entries[i][2] \in CalmCommand
    BY <2>1
  <2>3. \A i \in 1..Len(entries) : <<Sec(entries[i][1]), entries[i][2]>> \in Entry
    <3>1. \A i \in 1..Len(entries) : Sec(entries[i][1]) \in Int
      BY <2>2, SecType
    <3> QED
      BY <2>2, <3>1 DEF Entry
  <2>4. Timed(entries) \in [1..Len(entries) -> Entry]
    BY <2>1, <2>3 DEF Timed
  <2>5. ASSUME NEW n \in Nat, NEW f \in [1..n -> Entry]
        PROVE  f \in Seq(Entry)
    OBVIOUS
  <2>6. Timed(entries) \in Seq(Entry)
    BY <2>1, <2>4, <2>5
  <2>7. \A i \in DOMAIN Timed(entries) : ~Opener(Timed(entries)[i][2])
    BY <2>1, <2>2 DEF Timed
  <2> QED
    BY <2>6, <2>7, CalmEntries
<1>2. /\ \A u \in Unit : On(u) \in CalmCommand /\ Off(u) \in CalmCommand
                          /\ Reset(u) \in CalmCommand
      /\ FinishTransition \in CalmCommand
      /\ Deploy(<<"OC_LIMIT", "INA260">>) \in CalmCommand
      /\ ClearBias("EXTERNAL") \in CalmCommand
  BY CommandType, NoOpeners DEF On, Off, Reset, BlockId, Mag
<1>3. {"INA260", "MPU9250", "RM3100", "MTQ", "NANOSSOC_D60", "STIM210", "SAGITTA",
       "OEM7600", "RWX", "RWY", "RWZ"} \subseteq Unit
  BY DEF Unit, Biasing, Wheel
<1> HIDE DEF CalmCommand
<1>4. Proper(StartUpToInitial)
  <2> DEFINE entries == << <<2, On("INA260")>>, <<7, Deploy(<<"OC_LIMIT", "INA260">>)>>,
                          <<12, FinishTransition>> >>
  <2>1. entries \in Seq(Nat \X CalmCommand)
    BY <1>2, <1>3
  <2> HIDE DEF entries
  <2>2. Proper(Timed(entries))
    BY <1>1, <2>1
  <2> QED
    BY <2>2 DEF StartUpToInitial, entries
<1>5. Proper(BdotToInitial)
  <2> DEFINE entries == << <<1, Off("MTQ")>>, <<4, Reset("INA260")>>, <<9, Reset("MPU9250")>>,
                          <<24, Reset("RM3100")>>, <<42, FinishTransition>> >>
  <2>1. entries \in Seq(Nat \X CalmCommand)
    BY <1>2, <1>3
  <2> HIDE DEF entries
  <2>2. Proper(Timed(entries))
    BY <1>1, <2>1
  <2> QED
    BY <2>2 DEF BdotToInitial, entries
<1>6. Proper(InitialToBdot)
  <2> DEFINE entries == << <<1, On("MPU9250")>>, <<8, On("RM3100")>>, <<18, On("MTQ")>>,
                          <<23, FinishTransition>> >>
  <2>1. entries \in Seq(Nat \X CalmCommand)
    BY <1>2, <1>3
  <2> HIDE DEF entries
  <2>2. Proper(Timed(entries))
    BY <1>1, <2>1
  <2> QED
    BY <2>2 DEF InitialToBdot, entries
<1>7. Proper(AnyToBdot)
  <2> DEFINE entries == << <<2, Off("RWX")>>, <<6, Off("RWY")>>, <<10, Off("RWZ")>>, <<14, Off("OEM7600")>>,
                          <<18, Off("STIM210")>>, <<22, Off("SAGITTA")>>, <<26, Off("NANOSSOC_D60")>>,
                          <<33, Reset("INA260")>>, <<49, Reset("MTQ")>>, <<59, Reset("MPU9250")>>,
                          <<75, Reset("RM3100")>>, <<93, ClearBias("EXTERNAL")>>, <<95, FinishTransition>> >>
  <2>1. entries \in Seq(Nat \X CalmCommand)
    BY <1>2, <1>3
  <2> HIDE DEF entries
  <2>2. Proper(Timed(entries))
    BY <1>1, <2>1
  <2> QED
    BY <2>2 DEF AnyToBdot, entries
<1>8. Proper(BdotToRoughSunPointing)
  <2> DEFINE entries == << <<2, On("NANOSSOC_D60")>>, <<12, FinishTransition>> >>
  <2>1. entries \in Seq(Nat \X CalmCommand)
    BY <1>2, <1>3
  <2> HIDE DEF entries
  <2>2. Proper(Timed(entries))
    BY <1>1, <2>1
  <2> QED
    BY <2>2 DEF BdotToRoughSunPointing, entries
<1>9. Proper(RoughSunPointingToRoughThreeAxis)
  <2> DEFINE entries == << <<7, FinishTransition>> >>
  <2>1. entries \in Seq(Nat \X CalmCommand)
    BY <1>2, <1>3
  <2> HIDE DEF entries
  <2>2. Proper(Timed(entries))
    BY <1>1, <2>1
  <2> QED
    BY <2>2 DEF RoughSunPointingToRoughThreeAxis, entries
<1>10. Proper(RoughThreeAxisToRoughThreeAxisRw)
  <2> DEFINE entries == << <<3, On("RWX")>>, <<13, On("RWY")>>, <<23, On("RWZ")>>, <<28, FinishTransition>> >>
  <2>1. entries \in Seq(Nat \X CalmCommand)
    BY <1>2, <1>3
  <2> HIDE DEF entries
  <2>2. Proper(Timed(entries))
    BY <1>1, <2>1
  <2> QED
    BY <2>2 DEF RoughThreeAxisToRoughThreeAxisRw, entries
<1>11. Proper(RoughThreeAxisRwToFineThreeAxis)
  <2> DEFINE entries == << <<3, On("STIM210")>>, <<17, On("SAGITTA")>>, <<60, FinishTransition>> >>
  <2>1. entries \in Seq(Nat \X CalmCommand)
    BY <1>2, <1>3
  <2> HIDE DEF entries
  <2>2. Proper(Timed(entries))
    BY <1>1, <2>1
  <2> QED
    BY <2>2 DEF RoughThreeAxisRwToFineThreeAxis, entries
<1>12. Proper(Nop)
  <2> DEFINE entries == << <<5, FinishTransition>> >>
  <2>1. entries \in Seq(Nat \X CalmCommand)
    BY <1>2, <1>3
  <2> HIDE DEF entries
  <2>2. Proper(Timed(entries))
    BY <1>1, <2>1
  <2> QED
    BY <2>2 DEF Nop, entries
<1> QED
  BY <1>4, <1>5, <1>6, <1>7, <1>8, <1>9, <1>10, <1>11, <1>12 DEF SwitchingTransition

LEMMA TransitionIsProper == \A m \in Mode, n \in Mode : Proper(Transition(m, n))
BY SwitchingTransitionIsProper, OwnCommandsIdle, IdlingProper, JoinProper DEF Transition

-----------------------------------------------------------------------------
(* The timeline. *)

\* Taking the next entry out leaves the others as they are.
LEMMA WithoutPlaces ==
    ASSUME timeline \in Seq(Entry), NEW i \in DOMAIN timeline
    PROVE  LET n == Len(timeline)
           IN  /\ n \in Nat /\ i \in 1..n /\ DOMAIN timeline = 1..n
               /\ Without(i) \in Seq(Entry) /\ DOMAIN Without(i) = 1..(n - 1)
               /\ \A k \in 1..(i - 1) : Without(i)[k] = timeline[k]
               /\ \A k \in i..(n - 1) : Without(i)[k] = timeline[k + 1]
<1> DEFINE n == Len(timeline)
           front == SubSeq(timeline, 1, i - 1)
           back == SubSeq(timeline, i + 1, n)
<1>1. n \in Nat /\ i \in 1..n /\ DOMAIN timeline = 1..n
  OBVIOUS
<1>2. /\ front \in Seq(Entry) /\ Len(front) = i - 1
      /\ \A k \in 1..(i - 1) : front[k] = timeline[k]
  BY <1>1
<1>3. /\ back \in Seq(Entry) /\ Len(back) = n - i
      /\ \A k \in 1..(n - i) : back[k] = timeline[i + k]
  BY <1>1
<1> HIDE DEF front, back
<1>4. /\ front \o back \in Seq(Entry)
      /\ DOMAIN (front \o back) = 1..(n - 1)
      /\ \A k \in 1..(i - 1) : (front \o back)[k] = timeline[k]
      /\ \A k \in i..(n - 1) : (front \o back)[k] = timeline[k + 1]
  <2>1. DOMAIN (front \o back) = 1..(n - 1)
    <3>1. DOMAIN (front \o back) = 1..(Len(front) + Len(back))
      BY <1>2, <1>3, ConcatProperties
    <3>2. Len(front) + Len(back) = n - 1
      BY <1>1, <1>2, <1>3
    <3> QED
      BY <3>1, <3>2
  <2>2. ASSUME NEW k \in 1..(i - 1)
        PROVE  (front \o back)[k] = timeline[k]
    BY <1>2, <1>3, ConcatProperties
  <2>3. ASSUME NEW k \in 1..(n - i)
        PROVE  (front \o back)[(i - 1) + k] = timeline[i + k]
    <3>1. k \in 1..Len(back)
      BY <1>3
    <3>2. (front \o back)[Len(front) + k] = back[k]
      BY <1>2, <1>3, <3>1, ConcatProperties
    <3> QED
      BY <1>2, <1>3, <3>2
  <2>4. ASSUME NEW k \in i..(n - 1)
        PROVE  (front \o back)[k] = timeline[k + 1]
    <3>1. k - (i - 1) \in 1..(n - i)
      BY <1>1
    <3>2. (front \o back)[(i - 1) + (k - (i - 1))] = timeline[i + (k - (i - 1))]
      BY <2>3, <3>1
    <3>3. (i - 1) + (k - (i - 1)) = k /\ i + (k - (i - 1)) = k + 1
      BY <1>1
    <3> QED
      BY <3>2, <3>3
  <2> QED
    BY <1>2, <1>3, <2>1, <2>2, <2>4, ConcatProperties
<1>5. Without(i) = front \o back
  BY DEF Without, front, back
<1> QED
  BY <1>1, <1>4, <1>5

LEMMA WithoutEntries ==
    ASSUME timeline \in Seq(Entry), NEW i \in DOMAIN timeline
    PROVE  /\ Without(i) \in Seq(Entry)
           /\ \A k \in DOMAIN Without(i) :
                  \E j \in DOMAIN timeline : j # i /\ Without(i)[k] = timeline[j]
           /\ \A j \in DOMAIN timeline : j # i =>
                  \E k \in DOMAIN Without(i) : Without(i)[k] = timeline[j]
<1> DEFINE n == Len(timeline)
<1>1. n \in Nat /\ i \in 1..n /\ DOMAIN timeline = 1..n
  BY WithoutPlaces
<1>2. /\ Without(i) \in Seq(Entry)
      /\ DOMAIN Without(i) = 1..(n - 1)
      /\ \A k \in 1..(i - 1) : Without(i)[k] = timeline[k]
      /\ \A k \in i..(n - 1) : Without(i)[k] = timeline[k + 1]
  BY WithoutPlaces
<1>3. ASSUME NEW k \in DOMAIN Without(i)
      PROVE  \E j \in DOMAIN timeline : j # i /\ Without(i)[k] = timeline[j]
  <2>1. CASE k \in 1..(i - 1)
    <3>1. k \in DOMAIN timeline /\ k # i
      BY <1>1, <2>1
    <3> QED
      BY <1>2, <2>1, <3>1
  <2>2. CASE k \in i..(n - 1)
    <3>1. k + 1 \in DOMAIN timeline /\ k + 1 # i
      BY <1>1, <2>2
    <3> QED
      BY <1>2, <2>2, <3>1
  <2>3. k \in 1..(n - 1)
    BY <1>2
  <2>4. k \in 1..(i - 1) \/ k \in i..(n - 1)
    BY <1>1, <2>3
  <2> QED
    BY <2>1, <2>2, <2>4
<1>4. ASSUME NEW j \in DOMAIN timeline, j # i
      PROVE  \E k \in DOMAIN Without(i) : Without(i)[k] = timeline[j]
  <2>1. CASE j < i
    <3>1. j \in 1..(i - 1) /\ j \in 1..(n - 1)
      BY <1>1, <2>1
    <3> QED
      BY <1>2, <3>1
  <2>2. CASE j > i
    <3>1. j - 1 \in i..(n - 1) /\ j - 1 \in 1..(n - 1) /\ (j - 1) + 1 = j
      BY <1>1, <2>2
    <3>2. Without(i)[j - 1] = timeline[j]
      BY <1>2, <3>1
    <3> QED
      BY <1>2, <3>1, <3>2
  <2> QED
    BY <1>1, <1>4, <2>1, <2>2
<1> QED
  BY <1>2, <1>3, <1>4

\* The next entry is not later than any other: no opener that stays waits for it.
LEMMA WithoutProper ==
    ASSUME Proper(timeline), NEW i \in DOMAIN timeline, IsNext(i)
    PROVE  Proper(Without(i))
<1>1. timeline \in Seq(Entry)
  BY DEF Proper
<1>2. \A j \in DOMAIN timeline : timeline[j][1] \in Int /\ timeline[i][1] <= timeline[j][1]
  BY <1>1 DEF IsNext, Entry
<1>3. ASSUME NEW k \in DOMAIN Without(i), Opener(Without(i)[k][2])
      PROVE  \E l \in DOMAIN Without(i) :
                 Without(i)[l][1] > Without(i)[k][1] /\ EndsMasking(Without(i)[l][2])
  <2>1. PICK j \in DOMAIN timeline : Without(i)[k] = timeline[j]
    BY <1>1, WithoutEntries
  <2>2. PICK h \in DOMAIN timeline :
            timeline[h][1] > timeline[j][1] /\ EndsMasking(timeline[h][2])
    BY <1>3, <2>1 DEF Proper, Closed
  <2>3. h # i
    BY <1>2, <2>2
  <2>4. PICK l \in DOMAIN Without(i) : Without(i)[l] = timeline[h]
    BY <1>1, <2>3, WithoutEntries
  <2> QED
    BY <2>1, <2>2, <2>4
<1> QED
  BY <1>1, <1>3, WithoutEntries DEF Proper, Closed

LEMMA EmptyProper == Proper(<< >>)
BY DEF Proper, Closed

\* A cycle later the entries are in the same order.
LEMMA TickProper ==
    ASSUME Proper(timeline)
    PROVE  LET later == [i \in DOMAIN timeline |-> <<timeline[i][1] - 1, timeline[i][2]>>]
           IN  /\ Proper(later)
               /\ DOMAIN later = DOMAIN timeline
               /\ \A i \in DOMAIN timeline : later[i][2] = timeline[i][2]
<1> DEFINE later == [i \in DOMAIN timeline |-> <<timeline[i][1] - 1, timeline[i][2]>>]
<1>1. /\ timeline \in Seq(Entry) /\ DOMAIN timeline = 1..Len(timeline)
      /\ \A i \in DOMAIN timeline : timeline[i][1] \in Int /\ timeline[i][2] \in Command
  BY DEF Proper, Entry
<1>2. later \in [1..Len(timeline) -> Entry]
  BY <1>1 DEF Entry
<1>3. ASSUME NEW n \in Nat, NEW f \in [1..n -> Entry]
      PROVE  f \in Seq(Entry)
  OBVIOUS
<1>4. later \in Seq(Entry)
  BY <1>1, <1>2, <1>3
<1>5. \A i \in DOMAIN timeline : /\ later[i][1] = timeline[i][1] - 1
                                 /\ later[i][2] = timeline[i][2]
  OBVIOUS
<1>6. DOMAIN later = DOMAIN timeline
  OBVIOUS
<1> HIDE DEF later
<1>7. ASSUME NEW i \in DOMAIN later, Opener(later[i][2])
      PROVE  \E j \in DOMAIN later : later[j][1] > later[i][1] /\ EndsMasking(later[j][2])
  <2>1. PICK j \in DOMAIN timeline :
            timeline[j][1] > timeline[i][1] /\ EndsMasking(timeline[j][2])
    BY <1>5, <1>6, <1>7 DEF Proper, Closed
  <2> QED
    BY <1>1, <1>5, <1>6, <2>1
<1>8. Proper(later)
  BY <1>4, <1>7 DEF Proper, Closed
<1> QED
  BY <1>5, <1>6, <1>8 DEF later

-----------------------------------------------------------------------------
(* The inductive invariant. *)

IInv == TypeOK /\ Proper(timeline) /\ MaskingEnds

LEMMA SensorType ==
    /\ Len(INA260_IDX) = 10
    /\ \A k \in 0..9 : INA260_IDX[k + 1] \in Sensor
    /\ Sensor = Monitored \cup {"PIC"}
    /\ "PIC" \notin Unit
    /\ Monitored \subseteq Unit
<1>1. DOMAIN INA260_IDX = 1..10 /\ Len(INA260_IDX) = 10
  BY DEF INA260_IDX
<1>2. \A k \in 1..10 : INA260_IDX[k] \in Monitored \cup {"PIC"}
  BY DEF INA260_IDX, Monitored, Unit, Wheel, Biasing
<1>3. \A u \in Monitored \cup {"PIC"} : \E k \in 1..10 : INA260_IDX[k] = u
  <2>1. /\ INA260_IDX[1] = "PIC" /\ INA260_IDX[2] = "STIM210" /\ INA260_IDX[3] = "SAGITTA"
        /\ INA260_IDX[4] = "OEM7600" /\ INA260_IDX[5] = "RM3100" /\ INA260_IDX[6] = "NANOSSOC_D60"
        /\ INA260_IDX[7] = "MTQ" /\ INA260_IDX[8] = "RWX" /\ INA260_IDX[9] = "RWY"
        /\ INA260_IDX[10] = "RWZ"
    BY DEF INA260_IDX
  <2>2. \A u \in Monitored \cup {"PIC"} :
            u \in {"PIC", "STIM210", "SAGITTA", "OEM7600", "RM3100", "NANOSSOC_D60", "MTQ",
                   "RWX", "RWY", "RWZ"}
    BY DEF Monitored, Unit, Wheel, Biasing
  <2>3. {1, 2, 3, 4, 5, 6, 7, 8, 9, 10} \subseteq 1..10
    OBVIOUS
  <2> QED
    BY <2>1, <2>2, <2>3
<1>4. Sensor = Monitored \cup {"PIC"}
  BY <1>1, <1>2, <1>3 DEF Sensor
<1>5. \A k \in 0..9 : k + 1 \in 1..10
  OBVIOUS
<1>6. "PIC" \notin Unit /\ Monitored \subseteq Unit
  BY DEF Monitored, Unit, Wheel, Biasing
<1> QED
  BY <1>1, <1>2, <1>4, <1>5, <1>6

LEMMA RuleType ==
    /\ \A r \in OcRule : r = <<r[1], r[2]>> /\ r[2] \in Monitored /\ BrokenOf(r) \in BrokenRule
    /\ OcRule \cap BrokenRule = {}
BY DEF OcRule, BrokenRule, BrokenOf

LEMMA InitIInv == Init => IInv
<1> SUFFICES ASSUME Init PROVE IInv
  OBVIOUS
<1>1. TypeOK
  <2>0. /\ mode \in Mode
        /\ \A i \in DOMAIN timeline : timeline[i][1] \in Int /\ timeline[i][2] \in Command
    BY DEF Init, Mode
  <2>1. /\ phase \in {"dispatch", "events"} /\ in_progress \in BOOLEAN
        /\ powered \subseteq Unit
        /\ latched \cup overloaded \cup blamed \cup given_up \subseteq Monitored
        /\ logging \subseteq Group /\ active \subseteq RuleName /\ initialized \subseteq Sensor
    BY DEF Init
  <2>2. /\ events \in Seq(OcRule)
        /\ faults \in Seq({"short", "overload"} \X Monitored)
    BY DEF Init
  <2>3. /\ count \in [OcRule \cup BrokenRule -> Nat]
        /\ sample \in [Sensor -> SUBSET {"low", "high"}]
        /\ gyro \in {"MPU9250", "STIM210"}
    BY DEF Init
  <2>4. /\ idx_counter \in 0..(Len(INA260_IDX) - 1)
        /\ transitions \in 0..MaxTransitions
        /\ outage \in 0..(LongestOutage + 1)
    BY PowerAssumption, SensorType DEF Init
  <2>5. since \in [OcRule -> 0..(ResetGap + 1)]
    <3>1. ResetGap + 1 \in 0..(ResetGap + 1)
      BY PowerAssumption
    <3> QED
      BY <3>1 DEF Init
  <2>6. bias \in [Mag -> [Biasing -> (-BiasSpan)..BiasSpan]]
    <3>1. 0 \in (-BiasSpan)..BiasSpan
      BY PowerAssumption
    <3> QED
      BY <3>1 DEF Init
  <2> QED
    BY <2>0, <2>1, <2>2, <2>3, <2>4, <2>5, <2>6 DEF TypeOK
<1>2. Proper(timeline) /\ MaskingEnds
  BY EmptyProper DEF Init, MaskingEnds
<1> QED
  BY <1>1, <1>2 DEF IInv

\* What a dispatched command does to the types.
LEMMA ExecuteType ==
    ASSUME TypeOK, NEW c \in Command, Execute(c)
    PROVE  /\ in_progress' \in BOOLEAN
           /\ powered' \subseteq Unit
           /\ latched' \cup overloaded' \subseteq Monitored
           /\ logging' \subseteq Group
           /\ active' \subseteq RuleName
           /\ count' = count /\ since' = since
           /\ initialized' \subseteq Sensor
           /\ gyro' \in {"MPU9250", "STIM210"}
           /\ bias' \in [Mag -> [Biasing -> (-BiasSpan)..BiasSpan]]
<1> USE DEF TypeOK
<1>1. CASE Cmd_APP_PSC_CONTROL_PORT(c) /\ UNCHANGED <<in_progress, handling, initialized, attitude>>
  <2>1. c[1] \in {"ON", "OFF"} => c[2] \in Unit
    BY DEF Command, FinishTransition, OwnCommand
  <2> QED
    BY <1>1, <2>1 DEF Cmd_APP_PSC_CONTROL_PORT, handling, attitude
<1>2. CASE Cmd_DI_INA260_INIT(c) /\ UNCHANGED <<in_progress, switching, handling, attitude>>
  <2>1. c[1] = "INIT" => c[2] \in Sensor
    BY SensorType DEF Command, FinishTransition, OwnCommand
  <2> QED
    BY <1>2, <2>1 DEF Cmd_DI_INA260_INIT, switching, handling, attitude
<1>3. CASE /\ Cmd_DI_INA260_SET_OVER_CURRENT_PROTECTION(c)
           /\ UNCHANGED <<in_progress, powered, overloaded, handling, initialized, attitude>>
  BY <1>3 DEF Cmd_DI_INA260_SET_OVER_CURRENT_PROTECTION, handling, attitude
<1>4. CASE /\ Cmd_EL_LOGGING(c)
           /\ UNCHANGED <<in_progress, switching, active, count, since, initialized, attitude>>
  <2>1. c[1] = "ENABLE_LOGGING" => c[2] \in Group
    BY DEF Command, FinishTransition, OwnCommand
  <2> QED
    BY <1>4, <2>1 DEF Cmd_EL_LOGGING, switching, attitude
<1>5. CASE /\ Cmd_EH_ACTIVATE_RULE(c)
           /\ UNCHANGED <<in_progress, switching, logging, count, since, initialized, attitude>>
  <2>1. c[1] = "ACTIVATE_RULE" => c[2] \in RuleName
    BY DEF Command, FinishTransition, OwnCommand
  <2> QED
    BY <1>5, <2>1 DEF Cmd_EH_ACTIVATE_RULE, switching, attitude
<1>6. CASE /\ Cmd_DI_RM3100_SET_MAG_BIAS_COMPO_NT(c)
           /\ UNCHANGED <<in_progress, switching, handling, initialized, gyro>>
  <2>1. /\ c[1] = "ADD_BIAS" => c[2] \in Mag /\ c[3] \in Biasing
        /\ c[1] = "CLEAR_BIAS" => c[2] \in Mag
    BY DEF Command, FinishTransition, OwnCommand
  <2>2. 0 \in (-BiasSpan)..BiasSpan
    BY PowerAssumption
  <2> DEFINE Span == (-BiasSpan)..BiasSpan
  <2>3. bias' \in [Mag -> [Biasing -> Span]]
    <3>1. bias \in [Mag -> [Biasing -> Span]] /\ 0 \in Span
      BY <2>2
    <3>2. CASE c[1] = "CLEAR_BIAS" /\ bias' = [bias EXCEPT ![c[2]] = [u \in Biasing |-> 0]]
      <4> HIDE DEF Span
      <4> QED
        BY <2>1, <3>1, <3>2
    <3>3. CASE c[1] = "ADD_BIAS" /\ bias' = [bias EXCEPT ![c[2]] = [u \in Biasing |-> 0]]
      <4> HIDE DEF Span
      <4> QED
        BY <2>1, <3>1, <3>3
    <3>4. CASE /\ c[1] = "ADD_BIAS" /\ bias[c[2]][c[3]] + c[4] \in Span
               /\ bias' = [bias EXCEPT ![c[2]][c[3]] = bias[c[2]][c[3]] + c[4]]
      <4> HIDE DEF Span
      <4> QED
        BY <2>1, <3>1, <3>4
    <3> QED
      BY <1>6, <3>2, <3>3, <3>4 DEF Cmd_DI_RM3100_SET_MAG_BIAS_COMPO_NT
  <2> QED
    BY <1>6, <2>3 DEF switching, handling
<1>7. CASE /\ Cmd_APP_GYRO_SELECTOR_SET_STATE(c)
           /\ UNCHANGED <<in_progress, switching, handling, initialized, bias>>
  <2>1. c[1] = "SELECT_GYRO" => c[2] \in {"MPU9250", "STIM210"}
    BY DEF Command, FinishTransition, OwnCommand
  <2> QED
    BY <1>7, <2>1 DEF Cmd_APP_GYRO_SELECTOR_SET_STATE, switching, handling
<1>8. CASE /\ c = FinishTransition
           /\ in_progress' = FALSE
           /\ UNCHANGED <<switching, handling, initialized, attitude>>
  BY <1>8 DEF switching, handling, attitude
<1>9. CASE /\ c[1] = "DEPLOY" \/ c = OwnCommand
           /\ UNCHANGED <<in_progress, switching, handling, initialized, attitude>>
  BY <1>9 DEF switching, handling, attitude
<1> QED
  BY <1>1, <1>2, <1>3, <1>4, <1>5, <1>6, <1>7, <1>8, <1>9 DEF Execute

\* The dispatcher keeps the timeline proper, and reports come back.
LEMMA DispatchMasking ==
    ASSUME IInv, TLC_DISPATCHER_BC
    PROVE  Proper(timeline') /\ MaskingEnds'
<1>1. timeline \in Seq(Entry) /\ Proper(timeline)
  BY DEF IInv, Proper
<1>2. CASE UNCHANGED <<timeline, in_progress, switching, handling, initialized, attitude>>
  BY <1>2 DEF IInv, MaskingEnds, switching, handling
<1>3. CASE \E i \in DOMAIN timeline :
               /\ IsNext(i)
               /\ Execute(timeline[i][2])
               /\ timeline' = Without(i) \o (IF timeline[i][2][1] = "DEPLOY"
                                               THEN Block(timeline[i][2][2]) ELSE << >>)
  <2>1. PICK i \in DOMAIN timeline :
            /\ IsNext(i)
            /\ Execute(timeline[i][2])
            /\ timeline' = Without(i) \o (IF timeline[i][2][1] = "DEPLOY"
                                            THEN Block(timeline[i][2][2]) ELSE << >>)
    BY <1>3
  <2> DEFINE c == timeline[i][2]
             new == IF c[1] = "DEPLOY" THEN Block(c[2]) ELSE << >>
  <2>2. c \in Command
    BY <1>1 DEF Entry
  <2>3. Proper(Without(i))
    BY <1>1, <2>1, WithoutProper
  <2>4. Proper(new)
    <3>1. c[1] = "DEPLOY" => c[2] \in BlockId
      BY <2>2 DEF Command, FinishTransition, OwnCommand
    <3> QED
      BY <3>1, BlockIsProper, EmptyProper
  <2>5. timeline' = Without(i) \o new
    BY <2>1
  <2> HIDE DEF new
  <2>6. Proper(timeline')
    BY <2>3, <2>4, <2>5, JoinProper
  <2>7. ASSUME NEW j \in DOMAIN timeline, j # i, EndsMasking(timeline[j][2])
        PROVE  \E k \in DOMAIN timeline' : EndsMasking(timeline'[k][2])
    <3>1. PICK k \in DOMAIN Without(i) : Without(i)[k] = timeline[j]
      BY <1>1, <2>7, WithoutEntries
    <3>2. k \in DOMAIN (Without(i) \o new) /\ (Without(i) \o new)[k] = Without(i)[k]
      BY <2>3, <2>4, <3>1, ConcatProperties DEF Proper
    <3> QED
      BY <2>5, <2>7, <3>1, <3>2
  <2>8. ASSUME NEW j \in DOMAIN new, EndsMasking(new[j][2])
        PROVE  \E k \in DOMAIN timeline' : EndsMasking(timeline'[k][2])
    <3>1. /\ Len(Without(i)) + j \in DOMAIN (Without(i) \o new)
          /\ (Without(i) \o new)[Len(Without(i)) + j] = new[j]
      BY <2>3, <2>4, ConcatProperties DEF Proper
    <3> QED
      BY <2>5, <2>8, <3>1
  <2>9. ASSUME "INA260" \in powered', HwOc \notin logging'
        PROVE  \E k \in DOMAIN timeline' : EndsMasking(timeline'[k][2])
    <3>1. CASE Opener(c)
      <4>1. PICK j \in DOMAIN timeline :
                timeline[j][1] > timeline[i][1] /\ EndsMasking(timeline[j][2])
        BY <1>1, <3>1 DEF Proper, Closed
      <4>2. j # i
        <5>1. timeline[i][1] \in Int
          BY <1>1 DEF Entry
        <5> QED
          BY <4>1, <5>1
      <4> QED
        BY <2>7, <4>1, <4>2
    <3>2. CASE ~Opener(c)
      <4>1. /\ "INA260" \in powered \/ c = PowerOn("INA260")
            /\ HwOc \notin logging \/ c = DisableLogging(HwOc)
        <5>1. /\ c[1] = "ON" => c = <<"ON", c[2]>>
              /\ c[1] = "DISABLE_LOGGING" => c = <<"DISABLE_LOGGING", c[2]>>
          BY <2>2 DEF Command, FinishTransition, OwnCommand
        <5>2. "INA260" \in powered \/ c = PowerOn("INA260")
          <6>1. \/ powered' = powered
                \/ c[1] = "ON" /\ powered' = powered \cup {c[2]}
                \/ powered' = powered \ {c[2]}
            BY <2>1 DEF Execute, Cmd_APP_PSC_CONTROL_PORT, switching
          <6> QED
            BY <2>9, <5>1, <6>1 DEF PowerOn
        <5>3. HwOc \notin logging \/ c = DisableLogging(HwOc)
          <6>1. \/ logging' = logging
                \/ logging' = logging \cup {c[2]}
                \/ c[1] = "DISABLE_LOGGING" /\ logging' = logging \ {c[2]}
            BY <2>1 DEF Execute, Cmd_EL_LOGGING, handling
          <6> QED
            BY <2>9, <5>1, <6>1 DEF DisableLogging
        <5> QED
          BY <5>2, <5>3
      <4>2. "INA260" \in powered /\ HwOc \notin logging
        BY <3>2, <4>1 DEF Opener
      <4>3. PICK j \in DOMAIN timeline : EndsMasking(timeline[j][2])
        BY <4>2 DEF IInv, MaskingEnds
      <4>4. CASE j # i
        BY <2>7, <4>3, <4>4
      <4>5. CASE j = i
        <5>1. c # EnableLogging(HwOc)
          BY <2>1, <2>9 DEF Execute, Cmd_EL_LOGGING, EnableLogging, Cmd_APP_PSC_CONTROL_PORT,
               Cmd_DI_INA260_INIT, Cmd_DI_INA260_SET_OVER_CURRENT_PROTECTION,
               Cmd_EH_ACTIVATE_RULE, Cmd_DI_RM3100_SET_MAG_BIAS_COMPO_NT,
               Cmd_APP_GYRO_SELECTOR_SET_STATE, FinishTransition, OwnCommand
        <5>2. c # PowerOff("INA260")
          BY <2>1, <2>9 DEF Execute, Cmd_EL_LOGGING, PowerOff, Cmd_APP_PSC_CONTROL_PORT,
               Cmd_DI_INA260_INIT, Cmd_DI_INA260_SET_OVER_CURRENT_PROTECTION,
               Cmd_EH_ACTIVATE_RULE, Cmd_DI_RM3100_SET_MAG_BIAS_COMPO_NT,
               Cmd_APP_GYRO_SELECTOR_SET_STATE, FinishTransition, OwnCommand
        <5>3. /\ c[1] = "DEPLOY"
              /\ \E k \in DOMAIN Block(c[2]) :
                     Ends0(Block(c[2])[k][2]) \/ Ends1(Block(c[2])[k][2])
          BY <4>3, <4>5, <5>1, <5>2 DEF EndsMasking, Ends1, Ends0, DeploysAny
        <5>4. PICK k \in DOMAIN new : EndsMasking(new[k][2])
          BY <5>3 DEF new, EndsMasking, Ends1
        <5> QED
          BY <2>8, <5>4
      <4> QED
        BY <4>4, <4>5
    <3> QED
      BY <3>1, <3>2
  <2> QED
    BY <2>6, <2>9 DEF MaskingEnds
<1> QED
  BY <1>2, <1>3 DEF TLC_DISPATCHER_BC

LEMMA ProperTyped ==
    ASSUME NEW s, Proper(s)
    PROVE  \A i \in DOMAIN s : s[i][1] \in Int /\ s[i][2] \in Command
BY DEF Proper, Entry

\* Deploying a block keeps what the invariant says of the timeline.
LEMMA Appended ==
    ASSUME IInv, NEW block, Proper(block), timeline' = timeline \o block,
           powered' = powered, logging' = logging
    PROVE  Proper(timeline') /\ MaskingEnds'
<1>1. Proper(timeline')
  BY JoinProper DEF IInv
<1>2. ASSUME NEW i \in DOMAIN timeline
      PROVE  i \in DOMAIN timeline' /\ timeline'[i] = timeline[i]
  <2>1. timeline \in Seq(Entry) /\ block \in Seq(Entry)
    BY DEF IInv, Proper
  <2> QED
    BY <2>1, ConcatProperties
<1> QED
  BY <1>1, <1>2 DEF IInv, MaskingEnds

\* One step lemma for each action.
LEMMA DispatchStep ==
    ASSUME IInv, TLC_DISPATCHER_BC
    PROVE  IInv'
<1>1. Proper(timeline') /\ MaskingEnds'
  BY DispatchMasking
<1>2. \A i \in DOMAIN timeline' : timeline'[i][1] \in Int /\ timeline'[i][2] \in Command
  BY <1>1, ProperTyped
<1>3. /\ in_progress' \in BOOLEAN
      /\ powered' \subseteq Unit
      /\ latched' \cup overloaded' \subseteq Monitored
      /\ logging' \subseteq Group
      /\ active' \subseteq RuleName
      /\ count' = count /\ since' = since
      /\ initialized' \subseteq Sensor
      /\ gyro' \in {"MPU9250", "STIM210"}
      /\ bias' \in [Mag -> [Biasing -> (-BiasSpan)..BiasSpan]]
  <2>1. CASE UNCHANGED <<in_progress, switching, handling, initialized, attitude>>
    BY <2>1 DEF IInv, TypeOK, switching, handling, attitude
  <2>2. CASE \E i \in DOMAIN timeline : Execute(timeline[i][2])
    BY <2>2, ExecuteType, ProperTyped DEF IInv
  <2> QED
    BY <2>1, <2>2 DEF TLC_DISPATCHER_BC
<1>4. /\ phase' = "events"
      /\ UNCHANGED <<mode, transitions, events, idx_counter, sample, history>>
  BY DEF TLC_DISPATCHER_BC
<1>5. TypeOK'
  BY <1>2, <1>3, <1>4 DEF IInv, TypeOK, history
<1> QED
  BY <1>1, <1>5 DEF IInv

LEMMA ResponseIsProper ==
    ASSUME NEW u \in Monitored, NEW matched \in BOOLEAN, NEW broken \in BOOLEAN
    PROVE  Proper(Response(u, matched, broken))
<1>1. u \in Unit
  BY SensorType
<1>2. <<"OFF", u>> \in BlockId /\ <<"RESET", u>> \in BlockId
  BY <1>1 DEF BlockId
<1> QED
  BY <1>2, BlockIsProper, EmptyProper DEF Response

LEMMA EventStep ==
    ASSUME IInv, EVENT_UTILITY
    PROVE  IInv'
<1> DEFINE r == Head(events)
           matched == r \in active /\ Count(r) >= ResetCount
           counted == matched /\ BrokenOf(r) \in active
           broken == counted /\ count[BrokenOf(r)] + 1 >= PowerOffCount
<1>1. /\ r \in OcRule /\ r[2] \in Monitored
      /\ BrokenOf(r) \in BrokenRule
      /\ events' \in Seq(OcRule)
  <2>1. events \in Seq(OcRule) /\ events # << >> /\ events' = Tail(events)
    BY DEF IInv, TypeOK, EVENT_UTILITY
  <2>2. r \in OcRule /\ events' \in Seq(OcRule)
    BY <2>1
  <2> QED
    BY <2>2, RuleType
<1>2. matched \in BOOLEAN /\ broken \in BOOLEAN
  OBVIOUS
<1>3. /\ since' = IF r \in active THEN [since EXCEPT ![r] = 0] ELSE since
      /\ count' = [count EXCEPT
                     ![r] = IF matched THEN 0 ELSE IF r \in active THEN Count(r) ELSE @,
                     ![BrokenOf(r)] = IF broken THEN 0 ELSE IF counted THEN @ + 1 ELSE @]
      /\ timeline' = timeline \o Response(r[2], matched, broken)
      /\ blamed' = IF matched THEN blamed \cup {r[2]} ELSE blamed
      /\ given_up' = IF broken /\ ~WillBeSupplied(r[2])
                        THEN given_up \cup {r[2]} ELSE given_up
  BY DEF EVENT_UTILITY
<1>4. UNCHANGED <<phase, modes, switching, logging, active, sensing, attitude, faults, outage>>
  BY DEF EVENT_UTILITY
<1>5. Proper(timeline') /\ MaskingEnds'
  <2> DEFINE block == Response(r[2], matched, broken)
  <2>1. Proper(block)
    BY <1>1, <1>2, ResponseIsProper
  <2>2. timeline' = timeline \o block /\ powered' = powered /\ logging' = logging
    BY <1>3, <1>4 DEF switching
  <2> HIDE DEF block
  <2> QED
    BY <2>1, <2>2, Appended
<1>6. since' \in [OcRule -> 0..(ResetGap + 1)]
  <2>1. 0 \in 0..(ResetGap + 1)
    BY PowerAssumption
  <2>2. since \in [OcRule -> 0..(ResetGap + 1)]
    BY DEF IInv, TypeOK
  <2> HIDE DEF r
  <2> QED
    BY <1>1, <1>3, <2>1, <2>2
<1>7. count' \in [OcRule \cup BrokenRule -> Nat]
  <2>1. count \in [OcRule \cup BrokenRule -> Nat]
    BY DEF IInv, TypeOK
  <2>2. Count(r) \in Nat /\ count[r] \in Nat
    BY <1>1, <2>1 DEF Count
  <2>3. count[BrokenOf(r)] \in Nat /\ count[BrokenOf(r)] + 1 \in Nat
    BY <1>1, <2>1
  <2>4. BrokenOf(r) # r
    BY <1>1, RuleType
  <2> DEFINE a == IF matched THEN 0 ELSE IF r \in active THEN Count(r) ELSE count[r]
             b == IF broken THEN 0
                  ELSE IF counted THEN count[BrokenOf(r)] + 1 ELSE count[BrokenOf(r)]
  <2>5. a \in Nat /\ b \in Nat
    BY <2>2, <2>3
  <2>6. count' = [count EXCEPT ![r] = a, ![BrokenOf(r)] = b]
    <3> HIDE DEF r, matched, broken, counted
    <3> QED
      BY <1>1, <1>3, <2>1, <2>4
  <2> HIDE DEF a, b, r
  <2> QED
    BY <1>1, <2>1, <2>5, <2>6
<1>8. blamed' \cup given_up' \subseteq Monitored
  <2>1. blamed \cup given_up \subseteq Monitored
    BY DEF IInv, TypeOK
  <2> HIDE DEF r, matched, broken
  <2> QED
    BY <1>1, <1>3, <2>1
<1>9. TypeOK'
  <2>1. \A i \in DOMAIN timeline' : timeline'[i][1] \in Int /\ timeline'[i][2] \in Command
    BY <1>5, ProperTyped
  <2> HIDE DEF r, matched, broken
  <2> QED
    BY <1>1, <1>4, <1>6, <1>7, <1>8, <2>1
    DEF IInv, TypeOK, modes, switching, sensing, attitude
<1> QED
  BY <1>5, <1>9 DEF IInv

LEMMA ReportsType ==
    ASSUME TypeOK, NEW s \in Sensor
    PROVE  Reports(s) \in Seq(OcRule)
<1>1. s \in powered => s \in Monitored
  BY SensorType DEF TypeOK
<1>2. \A kind \in {"HW_OC", "SW_OC"} : s \in Monitored => <<kind, s>> \in OcRule
  BY DEF OcRule
<1>3. \A sign \in {"low", "high"}, kind \in {"HW_OC", "SW_OC"} :
          \A seen : Report(s, sign, kind, seen) \in Seq(OcRule)
  BY <1>1, <1>2 DEF Report
<1> QED
  BY <1>3 DEF Reports

LEMMA SensorStep ==
    ASSUME IInv, BASIC_SENSOR_UPDATE
    PROVE  IInv'
<1> DEFINE later == [i \in DOMAIN timeline |-> <<timeline[i][1] - 1, timeline[i][2]>>]
<1>1. UNCHANGED <<modes, switching, logging, active, count, attitude, faults, blamed, given_up>>
  BY DEF BASIC_SENSOR_UPDATE
<1>2. /\ timeline' = later
      /\ since' = [r \in OcRule |-> IF since[r] > ResetGap THEN since[r] ELSE since[r] + 1]
  BY DEF BASIC_SENSOR_UPDATE, Tick
<1>3. Proper(timeline') /\ MaskingEnds'
  <2>1. /\ Proper(later) /\ DOMAIN later = DOMAIN timeline
        /\ \A i \in DOMAIN timeline : later[i][2] = timeline[i][2]
    BY TickProper DEF IInv
  <2> HIDE DEF later
  <2> QED
    BY <1>1, <1>2, <2>1 DEF IInv, MaskingEnds, switching
<1>4. since' \in [OcRule -> 0..(ResetGap + 1)]
  <2>1. ResetGap \in Nat
    BY PowerAssumption
  <2>2. ASSUME NEW r \in OcRule
        PROVE  (IF since[r] > ResetGap THEN since[r] ELSE since[r] + 1) \in 0..(ResetGap + 1)
    <3>1. since[r] \in 0..(ResetGap + 1)
      BY DEF IInv, TypeOK
    <3> QED
      BY <2>1, <3>1
  <2> QED
    BY <1>2, <2>2
<1>5. /\ initialized' \subseteq Sensor
      /\ idx_counter' \in 0..(Len(INA260_IDX) - 1)
      /\ sample' \in [Sensor -> SUBSET {"low", "high"}]
  <2>1. /\ idx_counter \in 0..9
        /\ initialized \subseteq Sensor
        /\ sample \in [Sensor -> SUBSET {"low", "high"}]
    BY SensorType DEF IInv, TypeOK
  <2>2. CASE "INA260" \notin powered
    BY <2>1, <2>2, SensorType DEF BASIC_SENSOR_UPDATE, DI_INA260_update
  <2>3. CASE "INA260" \in powered
    <3>1. /\ sample' = IF Current \in initialized
                         THEN [sample EXCEPT ![Current] = Measured(Current)] ELSE sample
          /\ idx_counter' = (idx_counter + 1) % 10
          /\ initialized' = initialized
      BY <2>3, SensorType DEF BASIC_SENSOR_UPDATE, DI_INA260_update
    <3>2. idx_counter' \in 0..9
      BY <2>1, <3>1
    <3>3. Measured(Current) \in SUBSET {"low", "high"}
      BY DEF Measured
    <3>4. sample' \in [Sensor -> SUBSET {"low", "high"}]
      BY <2>1, <3>1, <3>3
    <3> QED
      BY <2>1, <3>1, <3>2, <3>4, SensorType
  <2> QED
    BY <2>2, <2>3
<1>6. events' \in Seq(OcRule)
  <2>1. events' = Reports(INA260_IDX[idx_counter' + 1])
    BY DEF BASIC_SENSOR_UPDATE, APP_CURRENT_ANOMALY_exec_
  <2>2. INA260_IDX[idx_counter' + 1] \in Sensor
    <3>1. idx_counter' \in 0..9
      BY <1>5, SensorType
    <3> QED
      BY <3>1, SensorType
  <2>3. TypeOK
    BY DEF IInv
  <2> QED
    BY <2>1, <2>2, <2>3, ReportsType
<1>7. outage' \in 0..(LongestOutage + 1)
  <2>1. LongestOutage \in Nat /\ outage \in 0..(LongestOutage + 1)
    BY PowerAssumption DEF IInv, TypeOK
  <2>2. outage' \in {outage, 0} \/ (~(outage > LongestOutage) /\ outage' = outage + 1)
    BY DEF BASIC_SENSOR_UPDATE
  <2> QED
    BY <2>1, <2>2
<1>8. TypeOK'
  <2>1. \A i \in DOMAIN timeline' : timeline'[i][1] \in Int /\ timeline'[i][2] \in Command
    BY <1>3, ProperTyped
  <2>2. phase' = "dispatch"
    BY DEF BASIC_SENSOR_UPDATE
  <2> QED
    BY <1>1, <1>4, <1>5, <1>6, <1>7, <2>1, <2>2
    DEF IInv, TypeOK, modes, switching, attitude
<1> QED
  BY <1>3, <1>8 DEF IInv

LEMMA FaultStep ==
    ASSUME IInv, NEW kind \in {"short", "overload"}, NEW u \in Monitored, Fault(kind, u)
    PROVE  IInv'
<1>1. UNCHANGED <<phase, timeline, modes, powered, handling, events, sensing, attitude,
                  blamed, given_up, outage>>
  BY DEF Fault
<1>2. latched' \cup overloaded' \subseteq Monitored
  BY DEF Fault, IInv, TypeOK
<1>3. faults' \in Seq({"short", "overload"} \X Monitored)
  <2>1. faults \in Seq({"short", "overload"} \X Monitored) /\ faults' = Append(faults, <<kind, u>>)
    BY DEF Fault, IInv, TypeOK
  <2> QED
    BY <2>1
<1>4. TypeOK'
  BY <1>1, <1>2, <1>3 DEF IInv, TypeOK, modes, handling, sensing, attitude
<1>5. Proper(timeline') /\ MaskingEnds'
  BY <1>1 DEF IInv, MaskingEnds, handling
<1> QED
  BY <1>4, <1>5 DEF IInv

LEMMA TransitionStep ==
    ASSUME IInv, NEW m \in Mode, StartTransition(m)
    PROVE  IInv'
<1>1. /\ UNCHANGED <<phase, switching, handling, events, sensing, attitude, faults, blamed, outage>>
      /\ given_up' \subseteq given_up
      /\ timeline' = timeline \o Transition(mode, m)
      /\ mode' = m /\ in_progress' = TRUE
  BY DEF StartTransition
<1>2. Proper(timeline') /\ MaskingEnds'
  <2>1. Proper(Transition(mode, m))
    BY TransitionIsProper DEF IInv, TypeOK
  <2>2. powered' = powered /\ logging' = logging
    BY <1>1 DEF switching, handling
  <2> QED
    BY <1>1, <2>1, <2>2, Appended
<1>3. transitions' \in 0..MaxTransitions
  <2>1. /\ MaxTransitions \in Nat /\ transitions \in 0..MaxTransitions
        /\ transitions < MaxTransitions /\ transitions' = transitions + 1
    BY PowerAssumption DEF StartTransition, IInv, TypeOK
  <2> QED
    BY <2>1
<1>4. TypeOK'
  <2>1. \A i \in DOMAIN timeline' : timeline'[i][1] \in Int /\ timeline'[i][2] \in Command
    BY <1>2, ProperTyped
  <2> QED
    BY <1>1, <1>3, <2>1 DEF IInv, TypeOK, switching, handling, sensing, attitude
<1> QED
  BY <1>2, <1>4 DEF IInv

LEMMA NextIInv == IInv /\ [Next]_vars => IInv'
<1> SUFFICES ASSUME IInv, [Next]_vars PROVE IInv'
  OBVIOUS
<1>1. CASE TLC_DISPATCHER_BC
  BY <1>1, DispatchStep
<1>2. CASE EVENT_UTILITY
  BY <1>2, EventStep
<1>3. CASE BASIC_SENSOR_UPDATE
  BY <1>3, SensorStep
<1>4. CASE \E kind \in {"short", "overload"}, u \in Monitored : Fault(kind, u)
  BY <1>4, FaultStep
<1>5. CASE \E m \in Mode : StartTransition(m)
  BY <1>5, TransitionStep
<1>6. CASE UNCHANGED vars
  BY <1>6 DEF IInv, TypeOK, MaskingEnds, vars, modes, switching, handling, sensing, attitude,
       history
<1> QED
  BY <1>1, <1>2, <1>3, <1>4, <1>5, <1>6 DEF Next

\* The state has its types, whatever transitions the flight makes and whatever faults hit
\* it: the timeline holds only commands, the counters of the event handler stay bounded, and
\* the sensors are read inside their table.
THEOREM TypeCorrect == Spec => []TypeOK
<1>1. IInv => TypeOK
  BY DEF IInv
<1> QED
  BY <1>1, InitIInv, NextIInv, PTL DEF Spec

\* However the power sequences, resets and transitions interleave, over-current reports that
\* are disabled while the sensors are on come back: a command that ends this is waiting.
THEOREM MaskingAlwaysEnds == Spec => []MaskingEnds
<1>1. IInv => MaskingEnds
  BY DEF IInv
<1> QED
  BY <1>1, InitIInv, NextIInv, PTL DEF Spec
=============================================================================
