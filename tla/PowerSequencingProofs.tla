------------------------ MODULE PowerSequencingProofs ------------------------
(***************************************************************************)
(* What the power sequences lead to, for any transitions, any faults and   *)
(* any number of cycles per second: units that are on end up watched, and  *)
(* as long as the event handler keeps out of a unit's sequences, finished  *)
(* transitions leave the unit as the mode wants it; as long as it keeps    *)
(* out of all of them, the external magnetometer is corrected for the      *)
(* units that are on.  The hypothesis is Timely: no command waits for the  *)
(* dispatcher longer than LongestDelay.                                    *)
(*                                                                         *)
(* The facts are about the set of entries on the timeline.  An entry owned *)
(* by a unit belongs to switching it on ("up") or off ("down"), or it is   *)
(* the deployment of a block that does so; what is known about a unit is   *)
(* in which order its entries come and what state they are still to        *)
(* change.                                                                 *)
(***************************************************************************)
EXTENDS PowerSwitchingProofs

-----------------------------------------------------------------------------
(* Commands and what they are part of. *)

RuleUnit(r) == IF r[1] = "TLM_ERROR_INA260" THEN "INA260" ELSE r[2]
GroupUnit(g) == IF g[1] = "HW_OC" THEN "none" ELSE IF g[1] = "SW_OC" THEN "INA260" ELSE g[2]

\* The blocks that switch and watch no unit.
Common == {"OC_LIMIT", "SET_PARAMETER", "READ_PARAMETER"}

\* The unit whose sequences a command belongs to.  The over-current reports as a whole
\* belong to none.
Owner(c) ==
    CASE c[1] \in {"ON", "OFF"} -> c[2]
      [] c[1] \in {"ACTIVATE_RULE", "INACTIVATE_RULE"} -> RuleUnit(c[2])
      [] c[1] \in {"ENABLE_LOGGING", "DISABLE_LOGGING"} -> GroupUnit(c[2])
      [] c[1] = "ADD_BIAS" -> c[3]
      [] c[1] = "SELECT_GYRO" -> "STIM210"
      [] c[1] = "DEPLOY" -> IF c[2][1] \in Common THEN "none" ELSE c[2][2]
      [] OTHER -> "none"

Kind(c) ==
    CASE c[1] \in {"ON", "ACTIVATE_RULE", "ENABLE_LOGGING"} -> "up"
      [] c[1] \in {"OFF", "INACTIVATE_RULE", "DISABLE_LOGGING"} -> "down"
      [] c[1] = "ADD_BIAS" -> IF c[4] = 1 THEN "up" ELSE "down"
      [] c[1] = "SELECT_GYRO" -> IF c[2] = "STIM210" THEN "up" ELSE "down"
      [] c[1] = "DEPLOY" -> IF c[2][1] = "ACTIVATE" THEN "up"
                            ELSE IF c[2][1] = "INACTIVATE" THEN "down" ELSE c[2][1]
      [] OTHER -> "none"

Activate(u) == Deploy(<<"ACTIVATE", u>>)
Inactivate(u) == Deploy(<<"INACTIVATE", u>>)

LEMMA OwnerAndKind ==
    /\ \A u : Owner(PowerOn(u)) = u /\ Kind(PowerOn(u)) = "up"
    /\ \A u : Owner(PowerOff(u)) = u /\ Kind(PowerOff(u)) = "down"
    /\ \A u : Owner(InitSensor(u)) = "none" /\ Kind(InitSensor(u)) = "none"
    /\ \A u : Owner(Protect(u)) = "none" /\ Kind(Protect(u)) = "none"
    /\ \A g : Owner(EnableLogging(g)) = GroupUnit(g) /\ Kind(EnableLogging(g)) = "up"
    /\ \A g : Owner(DisableLogging(g)) = GroupUnit(g) /\ Kind(DisableLogging(g)) = "down"
    /\ \A r : Owner(ActivateRule(r)) = RuleUnit(r) /\ Kind(ActivateRule(r)) = "up"
    /\ \A r : Owner(InactivateRule(r)) = RuleUnit(r) /\ Kind(InactivateRule(r)) = "down"
    /\ \A m, u : Owner(AddBias(m, u, 1)) = u /\ Kind(AddBias(m, u, 1)) = "up"
    /\ \A m, u : Owner(AddBias(m, u, -1)) = u /\ Kind(AddBias(m, u, -1)) = "down"
    /\ \A m : Owner(ClearBias(m)) = "none" /\ Kind(ClearBias(m)) = "none"
    /\ Owner(SelectGyro("STIM210")) = "STIM210" /\ Kind(SelectGyro("STIM210")) = "up"
    /\ Owner(SelectGyro("MPU9250")) = "STIM210" /\ Kind(SelectGyro("MPU9250")) = "down"
    /\ Owner(FinishTransition) = "none" /\ Kind(FinishTransition) = "none"
    /\ \A u : Owner(On(u)) = u /\ Kind(On(u)) = "ON"
    /\ \A u : Owner(Off(u)) = u /\ Kind(Off(u)) = "OFF"
    /\ \A u : Owner(Reset(u)) = u /\ Kind(Reset(u)) = "RESET"
    /\ \A u : Owner(Activate(u)) = u /\ Kind(Activate(u)) = "up"
    /\ \A u : Owner(Inactivate(u)) = u /\ Kind(Inactivate(u)) = "down"
    /\ \A u : Owner(Deploy(<<"OC_LIMIT", u>>)) = "none"
    /\ \A u : Kind(Deploy(<<"OC_LIMIT", u>>)) = "OC_LIMIT"
    /\ \A c : Idle(c) => /\ Owner(c) = "none" /\ c # FinishTransition /\ c[1] # "CLEAR_BIAS"
                         /\ Kind(c) \notin {"up", "down", "ON", "OFF", "RESET"}
<1> USE DEF Owner, Kind
<1>1. /\ \A u : Owner(PowerOn(u)) = u /\ Kind(PowerOn(u)) = "up"
      /\ \A u : Owner(PowerOff(u)) = u /\ Kind(PowerOff(u)) = "down"
      /\ \A u : Owner(InitSensor(u)) = "none" /\ Kind(InitSensor(u)) = "none"
      /\ \A u : Owner(Protect(u)) = "none" /\ Kind(Protect(u)) = "none"
  BY DEF PowerOn, PowerOff, InitSensor, Protect
<1>2. /\ \A g : Owner(EnableLogging(g)) = GroupUnit(g) /\ Kind(EnableLogging(g)) = "up"
      /\ \A g : Owner(DisableLogging(g)) = GroupUnit(g) /\ Kind(DisableLogging(g)) = "down"
      /\ \A r : Owner(ActivateRule(r)) = RuleUnit(r) /\ Kind(ActivateRule(r)) = "up"
      /\ \A r : Owner(InactivateRule(r)) = RuleUnit(r) /\ Kind(InactivateRule(r)) = "down"
  BY DEF EnableLogging, DisableLogging, ActivateRule, InactivateRule
<1>3. /\ \A m, u : Owner(AddBias(m, u, 1)) = u /\ Kind(AddBias(m, u, 1)) = "up"
      /\ \A m, u : Owner(AddBias(m, u, -1)) = u /\ Kind(AddBias(m, u, -1)) = "down"
      /\ \A m : Owner(ClearBias(m)) = "none" /\ Kind(ClearBias(m)) = "none"
  BY DEF AddBias, ClearBias
<1>4. /\ Owner(SelectGyro("STIM210")) = "STIM210" /\ Kind(SelectGyro("STIM210")) = "up"
      /\ Owner(SelectGyro("MPU9250")) = "STIM210" /\ Kind(SelectGyro("MPU9250")) = "down"
      /\ Owner(FinishTransition) = "none" /\ Kind(FinishTransition) = "none"
  BY DEF SelectGyro, FinishTransition
<1>5. /\ \A u : Owner(On(u)) = u /\ Kind(On(u)) = "ON"
      /\ \A u : Owner(Off(u)) = u /\ Kind(Off(u)) = "OFF"
      /\ \A u : Owner(Reset(u)) = u /\ Kind(Reset(u)) = "RESET"
      /\ \A u : Owner(Activate(u)) = u /\ Kind(Activate(u)) = "up"
      /\ \A u : Owner(Inactivate(u)) = u /\ Kind(Inactivate(u)) = "down"
      /\ \A u : Owner(Deploy(<<"OC_LIMIT", u>>)) = "none"
      /\ \A u : Kind(Deploy(<<"OC_LIMIT", u>>)) = "OC_LIMIT"
  BY DEF On, Off, Reset, Activate, Inactivate, Deploy, Common
<1>6. \A c : Idle(c) => /\ Owner(c) = "none" /\ c # FinishTransition /\ c[1] # "CLEAR_BIAS"
                        /\ Kind(c) \notin {"up", "down", "ON", "OFF", "RESET"}
  BY DEF Idle, OwnCommand, Deploy, Common, FinishTransition
<1> QED
  BY <1>1, <1>2, <1>3, <1>4, <1>5, <1>6

(* Times, in cycles from the one in which a block is deployed. *)

\* When a unit is switched on in its block.
OnTime(u) ==
    CASE u \in Wheel \cup {"MTQ", "OEM7600", "STIM210"} -> Sec(1) + 2
      [] u \in {"RM3100", "NANOSSOC_D60", "SAGITTA"} -> Sec(2) + 1
      [] u = "MPU9250" -> Sec(2)
      [] u = "INA260" -> 1

\* The last command of that block that is not about watching the unit is at most here.
CoreSpan(u) ==
    CASE u \in Wheel \cup {"MTQ"} -> Sec(1) + 2
      [] u = "RM3100" -> Sec(2) + 1
      [] u = "MPU9250" -> Sec(2)
      [] u = "NANOSSOC_D60" -> Sec(5) + 7
      [] u = "OEM7600" -> Sec(15) + 4
      [] u = "SAGITTA" -> Sec(6) + 2
      [] u = "STIM210" -> Sec(11) + 4
      [] u = "INA260" -> 1

\* All of it, the block that it deploys for watching included, is due by here.
OnSpan(u) ==
    CASE u \in Wheel -> Sec(6) + 11
      [] u = "RM3100" -> Sec(8) + 11
      [] u = "MPU9250" -> Sec(6) + 3
      [] u = "MTQ" -> Sec(4) + 6
      [] u = "NANOSSOC_D60" -> Sec(5) + LongestDelay + 19
      [] u = "OEM7600" -> Sec(15) + LongestDelay + 16
      [] u = "SAGITTA" -> Sec(41) + LongestDelay + 15
      [] u = "STIM210" -> Sec(12) + LongestDelay + 17
      [] u = "INA260" -> Sec(1) + LongestDelay + 27

\* When a unit is switched off in its block, and when all of that block is due.
OffTime(u) ==
    CASE u \in Wheel \cup {"RM3100"} -> Sec(2) + 9
      [] u \in {"MPU9250", "MTQ"} -> Sec(2) + 3
      [] u = "NANOSSOC_D60" -> Sec(4) + 2
      [] u \in {"OEM7600", "SAGITTA"} -> Sec(2)
      [] u = "STIM210" -> Sec(3) + 1
      [] u = "INA260" -> Sec(3) + 3

OffSpan(u) ==
    CASE u \in Wheel \cup {"RM3100"} -> Sec(2) + 9
      [] u \in {"MPU9250", "MTQ"} -> Sec(2) + 3
      [] u = "NANOSSOC_D60" -> Sec(5) + 3
      [] u \in {"OEM7600", "SAGITTA"} -> Sec(3) + 5
      [] u \in {"STIM210", "INA260"} -> Sec(3) + 3

\* When a reset deploys the two.
ResetOff(u) == IF u \in {"NANOSSOC_D60", "SAGITTA"} THEN 1 ELSE Sec(1)
ResetOn(u) ==
    CASE u = "INA260" -> Sec(8)
      [] u = "MPU9250" -> Sec(5)
      [] u \in {"NANOSSOC_D60", "SAGITTA"} -> Sec(5) + 3
      [] OTHER -> Sec(6)

\* How long after it is due a command may still lead to another one of the unit.
Span(b) ==
    CASE b[1] \in {"ACTIVATE", "INACTIVATE"} -> 12
      [] b[1] = "ON" -> OnSpan(b[2])
      [] b[1] = "OFF" -> OffSpan(b[2])
      [] b[1] = "RESET" -> ResetOn(b[2]) + LongestDelay + OnSpan(b[2])
      [] b[1] \in Common -> 0
Rest(c) == IF c[1] = "DEPLOY" THEN LongestDelay + Span(c[2]) ELSE 0

\* The same for the commands that are not about watching the unit.
Core(c) ==
    \/ Kind(c) \in {"down", "ON", "OFF", "RESET"}
    \/ c[1] \in {"ON", "ADD_BIAS", "SELECT_GYRO"}
CoreRest(c) ==
    CASE Kind(c) = "ON" -> LongestDelay + CoreSpan(c[2][2])
      [] Kind(c) = "RESET" ->
             LongestDelay + ResetOn(c[2][2]) + LongestDelay + CoreSpan(c[2][2])
      [] OTHER -> Rest(c)

LEMMA RestOfCommands ==
    /\ \A u : Rest(PowerOn(u)) = 0 /\ Rest(PowerOff(u)) = 0
    /\ \A g : Rest(EnableLogging(g)) = 0 /\ Rest(DisableLogging(g)) = 0
    /\ \A r : Rest(ActivateRule(r)) = 0 /\ Rest(InactivateRule(r)) = 0
    /\ \A m, u, n : Rest(AddBias(m, u, n)) = 0
    /\ \A g : Rest(SelectGyro(g)) = 0
    /\ \A u : Rest(Activate(u)) = LongestDelay + 12 /\ Rest(Inactivate(u)) = LongestDelay + 12
    /\ \A u : Rest(On(u)) = LongestDelay + OnSpan(u)
    /\ \A u : Rest(Off(u)) = LongestDelay + OffSpan(u)
    /\ \A u : Rest(Reset(u)) = LongestDelay + (ResetOn(u) + LongestDelay + OnSpan(u))
BY DEF Rest, Span, Common, PowerOn, PowerOff, EnableLogging, DisableLogging, ActivateRule,
       InactivateRule, AddBias, SelectGyro, Activate, Inactivate, On, Off, Reset, Deploy

LEMMA CoreCommands ==
    /\ \A u : Core(PowerOn(u)) /\ Core(On(u)) /\ Core(Off(u)) /\ Core(Reset(u))
    /\ \A u : Core(PowerOff(u)) /\ Core(Inactivate(u)) /\ ~Core(Activate(u))
    /\ \A m, u : Core(AddBias(m, u, 1)) /\ Core(AddBias(m, u, -1))
    /\ Core(SelectGyro("STIM210")) /\ Core(SelectGyro("MPU9250"))
    /\ \A g : ~Core(EnableLogging(g)) /\ Core(DisableLogging(g))
    /\ \A r : ~Core(ActivateRule(r)) /\ Core(InactivateRule(r))
    /\ \A u : CoreRest(On(u)) = LongestDelay + CoreSpan(u)
    /\ \A u : CoreRest(Reset(u)) =
                  LongestDelay + ResetOn(u) + LongestDelay + CoreSpan(u)
    /\ \A c : Kind(c) \notin {"ON", "RESET"} => CoreRest(c) = Rest(c)
<1>1. /\ \A u : Core(PowerOn(u)) /\ Core(On(u)) /\ Core(Off(u)) /\ Core(Reset(u))
      /\ \A u : Core(PowerOff(u)) /\ Core(Inactivate(u)) /\ ~Core(Activate(u))
      /\ \A m, u : Core(AddBias(m, u, 1)) /\ Core(AddBias(m, u, -1))
      /\ Core(SelectGyro("STIM210")) /\ Core(SelectGyro("MPU9250"))
      /\ \A g : ~Core(EnableLogging(g)) /\ Core(DisableLogging(g))
      /\ \A r : ~Core(ActivateRule(r)) /\ Core(InactivateRule(r))
  BY OwnerAndKind DEF Core, PowerOn, AddBias, SelectGyro, EnableLogging, ActivateRule, Activate,
     Deploy
<1>2. /\ \A u : CoreRest(On(u)) = LongestDelay + CoreSpan(u)
      /\ \A u : CoreRest(Reset(u)) =
                    LongestDelay + ResetOn(u) + LongestDelay + CoreSpan(u)
  BY OwnerAndKind DEF CoreRest, On, Reset, Deploy
<1>3. \A c : Kind(c) \notin {"ON", "RESET"} => CoreRest(c) = Rest(c)
  BY DEF CoreRest
<1> QED
  BY <1>1, <1>2, <1>3

-----------------------------------------------------------------------------
(* Entries of blocks. *)

LEMMA ConcatElements ==
    ASSUME NEW S, NEW s \in Seq(S), NEW t \in Seq(S)
    PROVE  Elements(s \o t) = Elements(s) \cup Elements(t)
<1>1. ASSUME NEW i \in DOMAIN (s \o t)
      PROVE  (s \o t)[i] \in Elements(s) \cup Elements(t)
  <2>1. CASE i \in 1..Len(s)
    BY <2>1, ConcatProperties DEF Elements
  <2>2. CASE i \in (Len(s) + 1)..(Len(s) + Len(t))
    <3>1. (s \o t)[i] = t[i - Len(s)] /\ i - Len(s) \in DOMAIN t
      BY <2>2, ConcatProperties
    <3> QED
      BY <3>1 DEF Elements
  <2>3. i \in 1..Len(s) \/ i \in (Len(s) + 1)..(Len(s) + Len(t))
    BY ConcatProperties
  <2> QED
    BY <2>1, <2>2, <2>3
<1>2. ASSUME NEW i \in DOMAIN s
      PROVE  s[i] \in Elements(s \o t)
  <2>1. i \in DOMAIN (s \o t) /\ (s \o t)[i] = s[i]
    BY ConcatProperties
  <2> QED
    BY <2>1 DEF Elements
<1>3. ASSUME NEW i \in DOMAIN t
      PROVE  t[i] \in Elements(s \o t)
  <2>1. Len(s) + i \in DOMAIN (s \o t) /\ (s \o t)[Len(s) + i] = t[i]
    BY ConcatProperties
  <2> QED
    BY <2>1 DEF Elements
<1> QED
  BY <1>1, <1>2, <1>3 DEF Elements

LEMMA Lists ==
    ASSUME NEW S
    PROVE  /\ \A a \in S : <<a>> \in Seq(S) /\ Len(<<a>>) = 1
           /\ \A a, b \in S : <<a, b>> \in Seq(S) /\ Len(<<a, b>>) = 2
           /\ \A a, b, c \in S : <<a, b, c>> \in Seq(S) /\ Len(<<a, b, c>>) = 3
           /\ \A a, b, c, d \in S : <<a, b, c, d>> \in Seq(S) /\ Len(<<a, b, c, d>>) = 4
OBVIOUS

LEMMA Joined ==
    ASSUME NEW S, NEW s \in Seq(S), NEW t \in Seq(S)
    PROVE  /\ s \o t \in Seq(S) /\ Len(s \o t) = Len(s) + Len(t)
           /\ Elements(s \o t) = Elements(s) \cup Elements(t)
<1>1. s \o t \in Seq(S) /\ Len(s \o t) = Len(s) + Len(t)
  OBVIOUS
<1> QED
  BY <1>1, ConcatElements

LEMMA FromElements ==
    ASSUME NEW t \in Int, NEW S, S \subseteq Command, NEW cs \in Seq(S)
    PROVE  /\ From(t, cs) \in Seq(Entry)
           /\ \A e \in Elements(From(t, cs)) :
                  /\ e = <<e[1], e[2]>> /\ e[1] \in Int /\ e[2] \in S
                  /\ t <= e[1] /\ e[1] <= t + Len(cs) - 1
           /\ \A c \in Elements(cs) : \E e \in Elements(From(t, cs)) : e[1] >= t /\ e[2] = c
<1>1. /\ cs \in Seq(Command) /\ DOMAIN cs = 1..Len(cs) /\ Len(cs) \in Nat
      /\ \A i \in 1..Len(cs) : cs[i] \in S
  OBVIOUS
<1>2. /\ From(t, cs) \in Seq(Entry) /\ DOMAIN From(t, cs) = 1..Len(cs)
      /\ \A i \in 1..Len(cs) : From(t, cs)[i] = <<t + i - 1, cs[i]>>
  BY <1>1, FromType
<1>3. ASSUME NEW i \in 1..Len(cs)
      PROVE  /\ From(t, cs)[i] = <<t + i - 1, cs[i]>> /\ t + i - 1 \in Int /\ cs[i] \in S
             /\ t <= t + i - 1 /\ t + i - 1 <= t + Len(cs) - 1
  BY <1>1, <1>2
<1>4. \A e \in Elements(From(t, cs)) : /\ e = <<e[1], e[2]>> /\ e[1] \in Int /\ e[2] \in S
                                      /\ t <= e[1] /\ e[1] <= t + Len(cs) - 1
  <2> SUFFICES ASSUME NEW i \in 1..Len(cs), NEW e, e = From(t, cs)[i]
               PROVE  /\ e = <<e[1], e[2]>> /\ e[1] \in Int /\ e[2] \in S
                      /\ t <= e[1] /\ e[1] <= t + Len(cs) - 1
    BY <1>2 DEF Elements
  <2>1. e = <<t + i - 1, cs[i]>>
    BY <1>3
  <2>2. e[1] = t + i - 1 /\ e[2] = cs[i]
    BY <2>1
  <2> QED
    BY <1>3, <2>1, <2>2
<1>5. ASSUME NEW c \in Elements(cs)
      PROVE  \E e \in Elements(From(t, cs)) : e[1] >= t /\ e[2] = c
  <2>1. PICK k \in 1..Len(cs) : cs[k] = c
    BY <1>1 DEF Elements
  <2>2. /\ From(t, cs)[k] \in Elements(From(t, cs))
        /\ From(t, cs)[k][1] >= t /\ From(t, cs)[k][2] = c
    BY <1>2, <1>3, <2>1 DEF Elements
  <2> QED
    BY <2>2
<1> QED
  BY <1>2, <1>4, <1>5

-----------------------------------------------------------------------------
(* What watches a unit: rules and event groups, as items that are raised and *)
(* lowered.  The over-current reports, which all sequences mask, are left    *)
(* out.                                                                      *)

Items(u) == ({"RULE"} \X RulesOf(u)) \cup ({"GROUP"} \X (GroupsOf(u) \ {HwOc}))
Raise(x) == IF x[1] = "RULE" THEN ActivateRule(x[2]) ELSE EnableLogging(x[2])
Lower(x) == IF x[1] = "RULE" THEN InactivateRule(x[2]) ELSE DisableLogging(x[2])

\* The commands that raise and lower, of one unit; and those that are not of any sequence.
Raises(u) ==
    {c \in Command : c[1] \in {"ACTIVATE_RULE", "ENABLE_LOGGING"} /\ Owner(c) \in {u, "none"}}
Lowers(u) ==
    {c \in Command : c[1] \in {"INACTIVATE_RULE", "DISABLE_LOGGING"} /\ Owner(c) \in {u, "none"}}
Neutral == {c \in Command : Owner(c) = "none" /\ c # FinishTransition /\ c[1] # "CLEAR_BIAS"}

\* Sequences of rules and groups of one unit, and of one unit or none.
RulesFor(u) == {r \in RuleName : RuleUnit(r) = u}
GroupsFor(u) == {g \in Group : GroupUnit(g) \in {u, "none"}}

LEMMA AllCommands ==
    ASSUME NEW u \in Unit
    PROVE  /\ \A gs \in Seq(GroupsFor(u)) :
                  /\ EnableAll(gs) \in Seq(Raises(u)) /\ Len(EnableAll(gs)) = Len(gs)
                  /\ DisableAll(gs) \in Seq(Lowers(u)) /\ Len(DisableAll(gs)) = Len(gs)
                  /\ \A g \in Elements(gs) : /\ EnableLogging(g) \in Elements(EnableAll(gs))
                                             /\ DisableLogging(g) \in Elements(DisableAll(gs))
           /\ \A rs \in Seq(RulesFor(u)) :
                  /\ ActivateAll(rs) \in Seq(Raises(u)) /\ Len(ActivateAll(rs)) = Len(rs)
                  /\ InactivateAll(rs) \in Seq(Lowers(u)) /\ Len(InactivateAll(rs)) = Len(rs)
                  /\ \A r \in Elements(rs) : /\ ActivateRule(r) \in Elements(ActivateAll(rs))
                                             /\ InactivateRule(r) \in Elements(InactivateAll(rs))
<1>1. ASSUME NEW gs \in Seq(GroupsFor(u))
      PROVE  /\ EnableAll(gs) \in Seq(Raises(u)) /\ Len(EnableAll(gs)) = Len(gs)
             /\ DisableAll(gs) \in Seq(Lowers(u)) /\ Len(DisableAll(gs)) = Len(gs)
             /\ \A g \in Elements(gs) : /\ EnableLogging(g) \in Elements(EnableAll(gs))
                                        /\ DisableLogging(g) \in Elements(DisableAll(gs))
  <2>1. /\ DOMAIN gs = 1..Len(gs) /\ Len(gs) \in Nat
        /\ \A i \in 1..Len(gs) : gs[i] \in GroupsFor(u)
    OBVIOUS
  <2>2. \A g \in GroupsFor(u) : EnableLogging(g) \in Raises(u) /\ DisableLogging(g) \in Lowers(u)
    BY CommandType, OwnerAndKind
    DEF GroupsFor, Raises, Lowers, EnableLogging, DisableLogging
  <2>3. /\ EnableAll(gs) \in [1..Len(gs) -> Raises(u)]
        /\ DisableAll(gs) \in [1..Len(gs) -> Lowers(u)]
        /\ \A i \in 1..Len(gs) : /\ EnableAll(gs)[i] = EnableLogging(gs[i])
                                 /\ DisableAll(gs)[i] = DisableLogging(gs[i])
    BY <2>1, <2>2 DEF EnableAll, DisableAll
  <2> HIDE DEF Raises, Lowers
  <2>4. ASSUME NEW n \in Nat, NEW S, NEW f \in [1..n -> S]
        PROVE  f \in Seq(S) /\ Len(f) = n /\ DOMAIN f = 1..n
    OBVIOUS
  <2>5. /\ EnableAll(gs) \in Seq(Raises(u)) /\ Len(EnableAll(gs)) = Len(gs)
        /\ DisableAll(gs) \in Seq(Lowers(u)) /\ Len(DisableAll(gs)) = Len(gs)
        /\ DOMAIN EnableAll(gs) = 1..Len(gs) /\ DOMAIN DisableAll(gs) = 1..Len(gs)
    BY <2>1, <2>3, <2>4
  <2> QED
    BY <2>1, <2>3, <2>5 DEF Elements
<1>2. ASSUME NEW rs \in Seq(RulesFor(u))
      PROVE  /\ ActivateAll(rs) \in Seq(Raises(u)) /\ Len(ActivateAll(rs)) = Len(rs)
             /\ InactivateAll(rs) \in Seq(Lowers(u)) /\ Len(InactivateAll(rs)) = Len(rs)
             /\ \A r \in Elements(rs) : /\ ActivateRule(r) \in Elements(ActivateAll(rs))
                                        /\ InactivateRule(r) \in Elements(InactivateAll(rs))
  <2>1. /\ DOMAIN rs = 1..Len(rs) /\ Len(rs) \in Nat
        /\ \A i \in 1..Len(rs) : rs[i] \in RulesFor(u)
    OBVIOUS
  <2>2. \A r \in RulesFor(u) : ActivateRule(r) \in Raises(u) /\ InactivateRule(r) \in Lowers(u)
    BY CommandType, OwnerAndKind
    DEF RulesFor, Raises, Lowers, ActivateRule, InactivateRule
  <2>3. /\ ActivateAll(rs) \in [1..Len(rs) -> Raises(u)]
        /\ InactivateAll(rs) \in [1..Len(rs) -> Lowers(u)]
        /\ \A i \in 1..Len(rs) : /\ ActivateAll(rs)[i] = ActivateRule(rs[i])
                                 /\ InactivateAll(rs)[i] = InactivateRule(rs[i])
    BY <2>1, <2>2 DEF ActivateAll, InactivateAll
  <2> HIDE DEF Raises, Lowers
  <2>4. ASSUME NEW n \in Nat, NEW S, NEW f \in [1..n -> S]
        PROVE  f \in Seq(S) /\ Len(f) = n /\ DOMAIN f = 1..n
    OBVIOUS
  <2>5. /\ ActivateAll(rs) \in Seq(Raises(u)) /\ Len(ActivateAll(rs)) = Len(rs)
        /\ InactivateAll(rs) \in Seq(Lowers(u)) /\ Len(InactivateAll(rs)) = Len(rs)
        /\ DOMAIN ActivateAll(rs) = 1..Len(rs) /\ DOMAIN InactivateAll(rs) = 1..Len(rs)
    BY <2>1, <2>3, <2>4
  <2> QED
    BY <2>1, <2>3, <2>5 DEF Elements
<1> QED
  BY <1>1, <1>2

-----------------------------------------------------------------------------
(* Blocks, part by part. *)

Has(S, c) == \E e \in S : e[2] = c
HasFrom(S, t, c) == \E e \in S : e[1] >= t /\ e[2] = c
Within(s, T) == s \in Seq(Entry) /\ Elements(s) \subseteq T

LEMMA JoinWithin ==
    ASSUME NEW T, NEW s, NEW t, Within(s, T), Within(t, T)
    PROVE  Within(s \o t, T)
BY ConcatElements, ConcatProperties DEF Within

LEMMA JoinElements ==
    ASSUME NEW s \in Seq(Entry), NEW t \in Seq(Entry)
    PROVE  Elements(s \o t) = Elements(s) \cup Elements(t)
BY ConcatElements

LEMMA FromWithin ==
    ASSUME NEW T, NEW t \in Int, NEW S, S \subseteq Command, NEW cs \in Seq(S),
           \A k \in Int, c \in S : t <= k /\ k <= t + Len(cs) - 1 => <<k, c>> \in T
    PROVE  Within(From(t, cs), T)
<1>1. /\ From(t, cs) \in Seq(Entry)
      /\ \A e \in Elements(From(t, cs)) :
             /\ e = <<e[1], e[2]>> /\ e[1] \in Int /\ e[2] \in S
             /\ t <= e[1] /\ e[1] <= t + Len(cs) - 1
  BY FromElements
<1>2. \A e \in Elements(From(t, cs)) : e \in T
  BY <1>1
<1> QED
  BY <1>1, <1>2 DEF Within

LEMMA FromHas ==
    ASSUME NEW t \in Int, NEW S, S \subseteq Command, NEW cs \in Seq(S), NEW c \in Elements(cs)
    PROVE  HasFrom(Elements(From(t, cs)), t, c)
BY FromElements DEF HasFrom

LEMMA FromConcat ==
    ASSUME NEW t \in Int, NEW cs \in Seq(Command), NEW ds \in Seq(Command)
    PROVE  From(t, cs \o ds) = From(t, cs) \o From(t + Len(cs), ds)
<1>1. /\ cs \o ds \in Seq(Command) /\ DOMAIN (cs \o ds) = 1..(Len(cs) + Len(ds))
      /\ Len(cs) \in Nat /\ Len(ds) \in Nat /\ Len(cs \o ds) = Len(cs) + Len(ds)
      /\ t + Len(cs) \in Int
  OBVIOUS
<1>2. /\ From(t, cs) \in Seq(Entry) /\ DOMAIN From(t, cs) = 1..Len(cs)
      /\ \A i \in 1..Len(cs) : From(t, cs)[i] = <<t + i - 1, cs[i]>>
  BY FromType
<1>3. /\ From(t + Len(cs), ds) \in Seq(Entry) /\ DOMAIN From(t + Len(cs), ds) = 1..Len(ds)
      /\ \A i \in 1..Len(ds) : From(t + Len(cs), ds)[i] = <<t + Len(cs) + i - 1, ds[i]>>
  BY <1>1, FromType
<1>4. /\ From(t, cs \o ds) \in Seq(Entry)
      /\ DOMAIN From(t, cs \o ds) = 1..(Len(cs) + Len(ds))
      /\ \A i \in 1..(Len(cs) + Len(ds)) : From(t, cs \o ds)[i] = <<t + i - 1, (cs \o ds)[i]>>
  BY <1>1, FromType
<1> DEFINE f == From(t, cs)
           g == From(t + Len(cs), ds)
           h == From(t, cs \o ds)
<1>5. /\ f \in Seq(Entry) /\ g \in Seq(Entry) /\ Len(f) = Len(cs) /\ Len(g) = Len(ds)
      /\ \A i \in 1..Len(cs) : f[i] = <<t + i - 1, cs[i]>>
      /\ \A i \in 1..Len(ds) : g[i] = <<t + Len(cs) + i - 1, ds[i]>>
      /\ \A i \in 1..(Len(cs) + Len(ds)) : h[i] = <<t + i - 1, (cs \o ds)[i]>>
  BY <1>1, <1>2, <1>3, <1>4
<1> HIDE DEF f, g, h
<1>6. /\ f \o g \in Seq(Entry) /\ DOMAIN (f \o g) = 1..(Len(cs) + Len(ds))
      /\ \A i \in 1..Len(cs) : (f \o g)[i] = f[i]
      /\ \A i \in (Len(cs) + 1)..(Len(cs) + Len(ds)) :
             (f \o g)[i] = g[i - Len(cs)] /\ i - Len(cs) \in 1..Len(ds)
  <2>1. /\ f \o g \in Seq(Entry) /\ DOMAIN (f \o g) = 1..(Len(f) + Len(g))
        /\ \A i \in 1..Len(f) : (f \o g)[i] = f[i]
        /\ \A i \in (Len(f) + 1)..(Len(f) + Len(g)) :
               (f \o g)[i] = g[i - Len(f)] /\ i - Len(f) \in 1..Len(g)
    BY <1>5, ConcatProperties
  <2> QED
    BY <1>5, <2>1
<1>7. ASSUME NEW i \in 1..(Len(cs) + Len(ds))
      PROVE  (f \o g)[i] = h[i]
  <2>1. h[i] = <<t + i - 1, (cs \o ds)[i]>>
    BY <1>5
  <2>2. CASE i \in 1..Len(cs)
    <3>1. (cs \o ds)[i] = cs[i]
      BY <2>2
    <3>2. (f \o g)[i] = f[i] /\ f[i] = <<t + i - 1, cs[i]>>
      BY <1>5, <1>6, <2>2
    <3> QED
      BY <2>1, <3>1, <3>2
  <2>3. CASE i \in (Len(cs) + 1)..(Len(cs) + Len(ds))
    <3>1. (cs \o ds)[i] = ds[i - Len(cs)]
      BY <1>1, <2>3
    <3>2. (f \o g)[i] = <<t + Len(cs) + (i - Len(cs)) - 1, ds[i - Len(cs)]>>
      BY <1>5, <1>6, <2>3
    <3>3. t + Len(cs) + (i - Len(cs)) - 1 = t + i - 1
      BY <1>1
    <3> QED
      BY <2>1, <3>1, <3>2, <3>3
  <2>4. Len(cs) \in Nat /\ Len(ds) \in Nat
    OBVIOUS
  <2>5. i \in 1..Len(cs) \/ i \in (Len(cs) + 1)..(Len(cs) + Len(ds))
    BY <2>4
  <2> QED
    BY <2>2, <2>3, <2>5
<1>8. h \in Seq(Entry) /\ DOMAIN h = 1..(Len(cs) + Len(ds))
  BY <1>4 DEF h
<1>9. f \o g = h
  BY <1>6, <1>7, <1>8
<1> QED
  BY <1>9 DEF f, g, h

LEMMA FromOneOrTwo ==
    ASSUME NEW t \in Int, NEW c \in Command, NEW d \in Command
    PROVE  /\ From(t, <<c>>) \in Seq(Entry) /\ Elements(From(t, <<c>>)) = {<<t, c>>}
           /\ From(t, <<c, d>>) \in Seq(Entry)
           /\ Elements(From(t, <<c, d>>)) = {<<t, c>>, <<t + 1, d>>}
<1>1. From(t, <<c>>) = << <<t, c>> >> /\ From(t, <<c, d>>) = << <<t, c>>, <<t + 1, d>> >>
  BY DEF From
<1>2. \A x, y : Elements(<<x>>) = {x} /\ Elements(<<x, y>>) = {x, y}
  BY DEF Elements
<1>3. \A x \in Entry, y \in Entry : <<x>> \in Seq(Entry) /\ <<x, y>> \in Seq(Entry)
  OBVIOUS
<1>4. <<t, c>> \in Entry /\ <<t + 1, d>> \in Entry
  BY DEF Entry
<1> HIDE DEF Entry
<1> QED
  BY <1>1, <1>2, <1>3, <1>4

-----------------------------------------------------------------------------
(* Times are of the right order: what takes up to ten cycles fits into a     *)
(* second, even if each command waits for LongestDelay.                      *)

LEMMA Times ==
    /\ OBCT_CYCLES_PER_SEC \in Nat /\ OBCT_CYCLES_PER_SEC >= 10
    /\ LongestDelay \in Nat /\ LongestDelay <= OBCT_CYCLES_PER_SEC + 3
    /\ \A k \in Nat : Sec(k) = k * OBCT_CYCLES_PER_SEC
BY CyclesAssumption, PowerAssumption DEF Sec, OBCT_sec2cycle

LEMMA UnitCases ==
    \A u \in Unit : \/ u \in Wheel \/ u = "MTQ" \/ u = "RM3100" \/ u = "MPU9250"
                    \/ u = "NANOSSOC_D60" \/ u = "OEM7600" \/ u = "SAGITTA" \/ u = "STIM210"
                    \/ u = "INA260"
BY DEF Unit, Biasing

LEMMA OnTimes ==
    ASSUME NEW u \in Unit
    PROVE  /\ OnTime(u) \in Nat /\ CoreSpan(u) \in Nat /\ OnSpan(u) \in Nat
           /\ 1 <= OnTime(u) /\ OnTime(u) <= CoreSpan(u) /\ CoreSpan(u) <= OnSpan(u)
<1> DEFINE C == OBCT_CYCLES_PER_SEC
<1>1. C \in Nat /\ C >= 10 /\ LongestDelay \in Nat
  BY Times
<1>2. /\ Sec(1) = C /\ Sec(2) = 2 * C /\ Sec(4) = 4 * C /\ Sec(5) = 5 * C /\ Sec(6) = 6 * C
      /\ Sec(8) = 8 * C /\ Sec(11) = 11 * C /\ Sec(12) = 12 * C /\ Sec(15) = 15 * C
      /\ Sec(41) = 41 * C
  BY Times
<1> HIDE DEF C
<1> QED
  BY <1>1, <1>2, UnitCases DEF OnTime, CoreSpan, OnSpan, Wheel

LEMMA OffTimes ==
    ASSUME NEW u \in Unit
    PROVE  /\ OffTime(u) \in Nat /\ OffSpan(u) \in Nat
           /\ 1 <= OffTime(u) /\ OffTime(u) <= OffSpan(u)
           /\ ResetOff(u) \in Nat /\ ResetOn(u) \in Nat /\ 1 <= ResetOff(u)
           /\ ResetOff(u) < ResetOn(u)
           /\ u \in Magnetic => ResetOff(u) + LongestDelay + OffSpan(u) < ResetOn(u)
<1> DEFINE C == OBCT_CYCLES_PER_SEC
           L == LongestDelay
<1>1. C \in Nat /\ C >= 10 /\ L \in Nat /\ L <= C + 3
  BY Times
<1>2. /\ Sec(1) = C /\ Sec(2) = 2 * C /\ Sec(3) = 3 * C /\ Sec(4) = 4 * C /\ Sec(5) = 5 * C
      /\ Sec(6) = 6 * C /\ Sec(8) = 8 * C
  BY Times
<1> HIDE DEF C, L
<1>3. /\ OffTime(u) \in Nat /\ OffSpan(u) \in Nat
      /\ 1 <= OffTime(u) /\ OffTime(u) <= OffSpan(u)
  BY <1>1, <1>2, UnitCases DEF OffTime, OffSpan, Wheel
<1>4. /\ ResetOff(u) \in Nat /\ ResetOn(u) \in Nat /\ 1 <= ResetOff(u)
      /\ ResetOff(u) < ResetOn(u)
  BY <1>1, <1>2, UnitCases DEF ResetOff, ResetOn
<1>5. ASSUME u \in Magnetic
      PROVE  ResetOff(u) + L + OffSpan(u) < ResetOn(u)
  BY <1>1, <1>2, <1>5 DEF Magnetic, ResetOff, ResetOn, OffSpan, Wheel
<1> QED
  BY <1>3, <1>4, <1>5 DEF L

LEMMA RestType ==
    \A c \in Command : Rest(c) \in Nat
<1> SUFFICES ASSUME NEW c \in Command, c[1] = "DEPLOY"
             PROVE  Rest(c) \in Nat
  BY DEF Rest
<1>1. PICK b \in BlockId : c = Deploy(b)
  <2>1. c \in {"DEPLOY"} \X BlockId
    BY DEF Command, FinishTransition, OwnCommand
  <2>2. c = <<"DEPLOY", c[2]>> /\ c[2] \in BlockId
    BY <2>1
  <2> QED
    BY <2>2 DEF Deploy
<1>2. Rest(c) = LongestDelay + Span(b)
  BY <1>1 DEF Rest, Deploy
<1>3. /\ b[1] \in {"ON", "OFF", "RESET", "ACTIVATE", "INACTIVATE"} \cup Common
      /\ b[1] \in {"ON", "OFF", "RESET"} => b[2] \in Unit
  BY DEF BlockId, Common
<1>4. Span(b) \in Nat
  BY <1>3, Times, OnTimes, OffTimes DEF Span, Common
<1> QED
  BY <1>2, <1>4, Times

(* Entries that blocks may have. *)

OnEntries(u) ==
    {e \in Entry :
        /\ e[1] >= 1
        /\ \/ e[2] \in Neutral
           \/ /\ Owner(e[2]) = u /\ Kind(e[2]) = "up"
              /\ e[1] + Rest(e[2]) <= OnSpan(u)
              /\ Core(e[2]) => e[1] <= CoreSpan(u)
              /\ IF e[2] = PowerOn(u) THEN e[1] = OnTime(u) ELSE e[1] > OnTime(u)}

OffEntries(u) ==
    {e \in Entry :
        /\ e[1] >= 1
        /\ \/ e[2] \in Neutral
           \/ /\ Owner(e[2]) = u /\ Kind(e[2]) = "down"
              /\ e[1] + Rest(e[2]) <= OffSpan(u)
              /\ e[2][1] \notin {"OFF", "ADD_BIAS"} => e[1] < OffTime(u)
              /\ e[2] = PowerOff(u) => e[1] = OffTime(u)}

LEMMA OnPoints ==
    ASSUME NEW u \in Unit, NEW k \in Int, k >= 1
    PROVE  /\ \A c \in Neutral : <<k, c>> \in OnEntries(u)
           /\ <<OnTime(u), PowerOn(u)>> \in OnEntries(u)
           /\ k > OnTime(u) =>
                  /\ k <= OnSpan(u) => \A c \in Raises(u) : <<k, c>> \in OnEntries(u)
                  /\ k <= CoreSpan(u) /\ u \in Biasing =>
                         \A m \in Mag : <<k, AddBias(m, u, 1)>> \in OnEntries(u)
                  /\ k + LongestDelay + 12 <= OnSpan(u) /\ u \in Biasing \cup {"INA260"} =>
                         <<k, Activate(u)>> \in OnEntries(u)
                  /\ k <= CoreSpan(u) /\ u = "STIM210" =>
                         <<k, SelectGyro("STIM210")>> \in OnEntries(u)
<1>1. /\ OnTime(u) \in Nat /\ CoreSpan(u) \in Nat /\ OnSpan(u) \in Nat /\ LongestDelay \in Nat
      /\ 1 <= OnTime(u) /\ OnTime(u) <= CoreSpan(u) /\ CoreSpan(u) <= OnSpan(u)
  BY OnTimes, Times
<1>2. \A c \in Neutral : <<k, c>> \in OnEntries(u)
  BY DEF OnEntries, Entry, Neutral
<1>3. <<OnTime(u), PowerOn(u)>> \in OnEntries(u)
  BY <1>1, CommandType, OwnerAndKind, RestOfCommands DEF OnEntries, Entry
<1>4. ASSUME k > OnTime(u), k <= OnSpan(u), NEW c \in Raises(u)
      PROVE  <<k, c>> \in OnEntries(u)
  <2>1. /\ c \in Command /\ Owner(c) \in {u, "none"}
        /\ c[1] \in {"ACTIVATE_RULE", "ENABLE_LOGGING"}
    BY DEF Raises
  <2>2. Kind(c) = "up" /\ Rest(c) = 0 /\ ~Core(c) /\ c # FinishTransition /\ c[1] # "CLEAR_BIAS"
    BY <2>1 DEF Kind, Rest, Core, FinishTransition
  <2>3. c # PowerOn(u)
    BY <2>1 DEF PowerOn
  <2>4. <<k, c>> \in Entry
    BY <2>1 DEF Entry
  <2>5. CASE Owner(c) = "none"
    BY <2>1, <2>2, <2>5, <1>2 DEF Neutral
  <2>6. CASE Owner(c) = u
    BY <1>1, <1>4, <2>1, <2>2, <2>3, <2>4, <2>6 DEF OnEntries
  <2> QED
    BY <2>1, <2>5, <2>6
<1>5. ASSUME NEW m \in Mag, k > OnTime(u), k <= CoreSpan(u), u \in Biasing
      PROVE  <<k, AddBias(m, u, 1)>> \in OnEntries(u)
  <2>1. AddBias(m, u, 1) \in Command
    BY <1>5, CommandType
  <2>2. AddBias(m, u, 1) # PowerOn(u)
    BY DEF AddBias, PowerOn
  <2> QED
    BY <1>1, <1>5, <2>1, <2>2, OwnerAndKind, RestOfCommands DEF OnEntries, Entry
<1>6. ASSUME k > OnTime(u), k + LongestDelay + 12 <= OnSpan(u), u \in Biasing \cup {"INA260"}
      PROVE  <<k, Activate(u)>> \in OnEntries(u)
  <2>1. Activate(u) \in Command
    BY <1>6, CommandType DEF Activate, BlockId
  <2>2. Activate(u) # PowerOn(u)
    BY DEF Activate, Deploy, PowerOn
  <2> QED
    BY <1>1, <1>6, <2>1, <2>2, OwnerAndKind, RestOfCommands, CoreCommands DEF OnEntries, Entry
<1>7. ASSUME k > OnTime(u), k <= CoreSpan(u), u = "STIM210"
      PROVE  <<k, SelectGyro("STIM210")>> \in OnEntries(u)
  <2>1. SelectGyro("STIM210") # PowerOn(u)
    BY DEF SelectGyro, PowerOn
  <2> QED
    BY <1>1, <1>7, <2>1, CommandType, OwnerAndKind, RestOfCommands DEF OnEntries, Entry
<1> QED
  BY <1>2, <1>3, <1>4, <1>5, <1>6, <1>7

LEMMA OffPoints ==
    ASSUME NEW u \in Unit, NEW k \in Int, k >= 1
    PROVE  /\ <<OffTime(u), PowerOff(u)>> \in OffEntries(u)
           /\ k < OffTime(u) => \A c \in Lowers(u) : <<k, c>> \in OffEntries(u)
           /\ k <= OffSpan(u) /\ u \in Biasing =>
                  \A m \in Mag : <<k, AddBias(m, u, -1)>> \in OffEntries(u)
           /\ k + LongestDelay + 12 <= OffSpan(u) /\ k < OffTime(u) /\ u \in Biasing =>
                  <<k, Inactivate(u)>> \in OffEntries(u)
           /\ k < OffTime(u) /\ u = "STIM210" => <<k, SelectGyro("MPU9250")>> \in OffEntries(u)
<1>1. /\ OffTime(u) \in Nat /\ OffSpan(u) \in Nat /\ LongestDelay \in Nat
      /\ 1 <= OffTime(u) /\ OffTime(u) <= OffSpan(u)
  BY OffTimes, Times
<1>2. <<OffTime(u), PowerOff(u)>> \in OffEntries(u)
  <2>1. PowerOff(u)[1] = "OFF"
    BY DEF PowerOff
  <2> QED
    BY <1>1, <2>1, CommandType, OwnerAndKind, RestOfCommands DEF OffEntries, Entry
<1>3. ASSUME k < OffTime(u), NEW c \in Lowers(u)
      PROVE  <<k, c>> \in OffEntries(u)
  <2>1. /\ c \in Command /\ Owner(c) \in {u, "none"}
        /\ c[1] \in {"INACTIVATE_RULE", "DISABLE_LOGGING"}
    BY DEF Lowers
  <2>2. Kind(c) = "down" /\ Rest(c) = 0 /\ c # FinishTransition /\ c[1] # "CLEAR_BIAS"
    BY <2>1 DEF Kind, Rest, FinishTransition
  <2>3. c # PowerOff(u)
    BY <2>1 DEF PowerOff
  <2>4. <<k, c>> \in Entry
    BY <2>1 DEF Entry
  <2>5. CASE Owner(c) = "none"
    BY <2>1, <2>2, <2>4, <2>5 DEF OffEntries, Neutral
  <2>6. CASE Owner(c) = u
    BY <1>1, <1>3, <2>1, <2>2, <2>3, <2>4, <2>6 DEF OffEntries
  <2> QED
    BY <2>1, <2>5, <2>6
<1>4. ASSUME NEW m \in Mag, k <= OffSpan(u), u \in Biasing
      PROVE  <<k, AddBias(m, u, -1)>> \in OffEntries(u)
  <2>1. AddBias(m, u, -1) \in Command
    BY <1>4, CommandType
  <2>2. AddBias(m, u, -1) # PowerOff(u) /\ AddBias(m, u, -1)[1] = "ADD_BIAS"
    BY DEF AddBias, PowerOff
  <2> QED
    BY <1>1, <1>4, <2>1, <2>2, OwnerAndKind, RestOfCommands DEF OffEntries, Entry
<1>5. ASSUME k + LongestDelay + 12 <= OffSpan(u), k < OffTime(u), u \in Biasing
      PROVE  <<k, Inactivate(u)>> \in OffEntries(u)
  <2>1. Inactivate(u) \in Command
    BY <1>5, CommandType DEF Inactivate, BlockId
  <2>2. Inactivate(u) # PowerOff(u)
    BY DEF Inactivate, Deploy, PowerOff
  <2> QED
    BY <1>1, <1>5, <2>1, <2>2, OwnerAndKind, RestOfCommands DEF OffEntries, Entry
<1>6. ASSUME k < OffTime(u), u = "STIM210"
      PROVE  <<k, SelectGyro("MPU9250")>> \in OffEntries(u)
  <2>1. SelectGyro("MPU9250") # PowerOff(u)
    BY DEF SelectGyro, PowerOff
  <2> QED
    BY <1>1, <1>6, <2>1, CommandType, OwnerAndKind, RestOfCommands DEF OffEntries, Entry
<1> QED
  BY <1>2, <1>3, <1>4, <1>5, <1>6

-----------------------------------------------------------------------------
(* The rules and groups of a unit are of that unit.                          *)

LEMMA UnitRules ==
    /\ \A u \in Unit : OcRules(u) \in Seq(RulesFor(u)) /\ Len(OcRules(u)) = 4
    /\ \A u \in Wheel : RwRules(u) \in Seq(RulesFor(u)) /\ Len(RwRules(u)) = 6
    /\ Rm3100Rules \in Seq(RulesFor("RM3100")) /\ Len(Rm3100Rules) = 8
    /\ <<TlmError("MPU9250")>> \in Seq(RulesFor("MPU9250"))
    /\ SunSensorRules \in Seq(RulesFor("NANOSSOC_D60")) /\ Len(SunSensorRules) = 6
    /\ Oem7600Rules \in Seq(RulesFor("OEM7600")) /\ Len(Oem7600Rules) = 5
    /\ SagittaRules \in Seq(RulesFor("SAGITTA")) /\ Len(SagittaRules) = 6
    /\ Stim210Rules \in Seq(RulesFor("STIM210")) /\ Len(Stim210Rules) = 8
    /\ Ina260Rules \in Seq(RulesFor("INA260")) /\ Len(Ina260Rules) = 10
<1>1. \A u \in Unit : \A k \in {"TLM_ERROR", "TLM_ERROR_BROKEN", "CRC_ERROR", "CRC_ERROR_BROKEN",
                                "TLM_ERROR_ON_AOBC", "TLM_ERROR_ON_AOBC_BROKEN",
                                "TLM_ERROR_EXTERNAL", "TLM_ERROR_EXTERNAL_BROKEN", "HW_OC",
                                "HW_OC_BROKEN", "SW_OC", "SW_OC_BROKEN"} :
          <<k, u>> \in RulesFor(u)
  BY DEF RulesFor, RuleName, RuleUnit
<1>2. \A u \in Unit : TlmError(u) \in RulesFor(u) /\ CrcError(u) \in RulesFor(u)
  BY <1>1 DEF TlmError, CrcError
<1>3. ASSUME NEW u \in Unit, NEW S, S = RulesFor(u)
      PROVE  /\ OcRules(u) \in Seq(S) /\ Len(OcRules(u)) = 4
             /\ RwRules(u) \in Seq(S) /\ Len(RwRules(u)) = 6
             /\ <<TlmError(u)>> \in Seq(S)
             /\ \A s \in Seq(S) : s \o OcRules(u) \in Seq(S) /\ Len(s \o OcRules(u)) = Len(s) + 4
  <2>1. /\ {TlmError(u), CrcError(u), <<"HW_OC", u>>, <<"HW_OC_BROKEN", u>>, <<"SW_OC", u>>,
            <<"SW_OC_BROKEN", u>>} \subseteq S
    BY <1>1, <1>2, <1>3
  <2>2. OcRules(u) \in Seq(S) /\ Len(OcRules(u)) = 4
    BY <2>1, Lists DEF OcRules
  <2> DEFINE s == <<TlmError(u), CrcError(u)>>
  <2>3. s \in Seq(S) /\ Len(s) = 2 /\ <<TlmError(u)>> \in Seq(S)
    BY <2>1, Lists
  <2>4. RwRules(u) = s \o OcRules(u)
    BY DEF RwRules
  <2> HIDE DEF s
  <2>5. ASSUME NEW t \in Seq(S)
        PROVE  t \o OcRules(u) \in Seq(S) /\ Len(t \o OcRules(u)) = Len(t) + 4
    BY <2>2, Joined
  <2>6. s \o OcRules(u) \in Seq(S) /\ Len(s \o OcRules(u)) = 6
    <3>1. s \o OcRules(u) \in Seq(S) /\ Len(s \o OcRules(u)) = Len(s) + 4
      BY <2>3, <2>5
    <3> QED
      BY <2>3, <3>1
  <2> QED
    BY <2>2, <2>3, <2>4, <2>5, <2>6
<1>7. SunSensorRules = RwRules("NANOSSOC_D60") /\ SagittaRules = RwRules("SAGITTA")
  BY DEF SunSensorRules, SagittaRules, RwRules
<1>8. Rm3100Rules \in Seq(RulesFor("RM3100")) /\ Len(Rm3100Rules) = 8
  <2> DEFINE S == RulesFor("RM3100")
             s == << <<"TLM_ERROR_ON_AOBC", "RM3100">>, <<"TLM_ERROR_ON_AOBC_BROKEN", "RM3100">>,
                     <<"TLM_ERROR_EXTERNAL", "RM3100">>, <<"TLM_ERROR_EXTERNAL_BROKEN", "RM3100">> >>
  <2>1. /\ <<"TLM_ERROR_ON_AOBC", "RM3100">> \in S /\ <<"TLM_ERROR_ON_AOBC_BROKEN", "RM3100">> \in S
        /\ <<"TLM_ERROR_EXTERNAL", "RM3100">> \in S
        /\ <<"TLM_ERROR_EXTERNAL_BROKEN", "RM3100">> \in S
    BY <1>1, UnitsOfBlocks
  <2>2. Rm3100Rules = s \o OcRules("RM3100")
    BY DEF Rm3100Rules
  <2>3. \A t \in Seq(S) : t \o OcRules("RM3100") \in Seq(S) /\ Len(t \o OcRules("RM3100")) = Len(t) + 4
    BY <1>3, UnitsOfBlocks
  <2> HIDE DEF S
  <2>4. s \in Seq(S) /\ Len(s) = 4
    BY <2>1, Lists
  <2> HIDE DEF s
  <2>5. Rm3100Rules \in Seq(S) /\ Len(Rm3100Rules) = 8
    BY <2>2, <2>3, <2>4
  <2> QED
    BY <2>5 DEF S
<1>9. Oem7600Rules \in Seq(RulesFor("OEM7600")) /\ Len(Oem7600Rules) = 5
  <2> DEFINE S == RulesFor("OEM7600")
             s == <<CrcError("OEM7600")>>
  <2>1. CrcError("OEM7600") \in S
    BY <1>2, UnitsOfBlocks
  <2>2. Oem7600Rules = s \o OcRules("OEM7600")
    BY DEF Oem7600Rules
  <2>3. \A t \in Seq(S) : t \o OcRules("OEM7600") \in Seq(S) /\ Len(t \o OcRules("OEM7600")) = Len(t) + 4
    BY <1>3, UnitsOfBlocks
  <2> HIDE DEF S
  <2>4. s \in Seq(S) /\ Len(s) = 1
    BY <2>1, Lists
  <2> HIDE DEF s
  <2>5. Oem7600Rules \in Seq(S) /\ Len(Oem7600Rules) = 5
    <3>1. s \o OcRules("OEM7600") \in Seq(S) /\ Len(s \o OcRules("OEM7600")) = Len(s) + 4
      BY <2>3, <2>4
    <3> QED
      BY <2>2, <2>4, <3>1
  <2> QED
    BY <2>5 DEF S
<1>10. Stim210Rules \in Seq(RulesFor("STIM210")) /\ Len(Stim210Rules) = 8
  <2> DEFINE S == RulesFor("STIM210")
             s == << TlmError("STIM210"), <<"TLM_ERROR_BROKEN", "STIM210">>,
                     CrcError("STIM210"), <<"CRC_ERROR_BROKEN", "STIM210">> >>
  <2>1. /\ TlmError("STIM210") \in S /\ <<"TLM_ERROR_BROKEN", "STIM210">> \in S
        /\ CrcError("STIM210") \in S /\ <<"CRC_ERROR_BROKEN", "STIM210">> \in S
    BY <1>1, <1>2, UnitsOfBlocks
  <2>2. Stim210Rules = s \o OcRules("STIM210")
    BY DEF Stim210Rules
  <2>3. \A t \in Seq(S) : t \o OcRules("STIM210") \in Seq(S) /\ Len(t \o OcRules("STIM210")) = Len(t) + 4
    BY <1>3, UnitsOfBlocks
  <2> HIDE DEF S
  <2>4. s \in Seq(S) /\ Len(s) = 4
    BY <2>1, Lists
  <2> HIDE DEF s
  <2>5. Stim210Rules \in Seq(S) /\ Len(Stim210Rules) = 8
    BY <2>2, <2>3, <2>4
  <2> QED
    BY <2>5 DEF S
<1>11. Ina260Rules \in Seq(RulesFor("INA260")) /\ Len(Ina260Rules) = 10
  <2>1. DOMAIN INA260_IDX = 1..10 /\ \A i \in 1..10 : INA260_IDX[i] \in Unit \cup {"PIC"}
    BY DEF INA260_IDX, Unit, Wheel, Biasing
  <2>2. \A i \in 1..10 : <<"TLM_ERROR_INA260", INA260_IDX[i]>> \in RulesFor("INA260")
    BY <2>1 DEF RulesFor, RuleName, RuleUnit
  <2>3. Ina260Rules \in [1..10 -> RulesFor("INA260")]
    BY <2>1, <2>2 DEF Ina260Rules
  <2>4. ASSUME NEW S, NEW n \in Nat, NEW f \in [1..n -> S]
        PROVE  f \in Seq(S) /\ Len(f) = n
    OBVIOUS
  <2> QED
    BY <2>3, <2>4
<1> QED
  BY <1>3, <1>7, <1>8, <1>9, <1>10, <1>11, UnitsOfBlocks

LEMMA UnitGroups ==
    /\ \A u \in Wheel : RwGroups(u) \in Seq(GroupsFor(u)) /\ Len(RwGroups(u)) = 3
    /\ Rm3100Groups \in Seq(GroupsFor("RM3100")) /\ Len(Rm3100Groups) = 2
    /\ Mpu9250Groups \in Seq(GroupsFor("MPU9250")) /\ Len(Mpu9250Groups) = 2
    /\ SunSensorGroups \in Seq(GroupsFor("NANOSSOC_D60")) /\ Len(SunSensorGroups) = 3
    /\ Oem7600Groups \in Seq(GroupsFor("OEM7600")) /\ Len(Oem7600Groups) = 2
    /\ SagittaGroups \in Seq(GroupsFor("SAGITTA")) /\ Len(SagittaGroups) = 3
    /\ Stim210Groups \in Seq(GroupsFor("STIM210")) /\ Len(Stim210Groups) = 3
    /\ Ina260Groups \in Seq(GroupsFor("INA260")) /\ Len(Ina260Groups) = 3
    /\ \A u \in Unit : HwOc \in GroupsFor(u)
    /\ \A u \in Unit : \A gs \in Seq(GroupsFor(u)) :
           /\ gs \o <<HwOc>> \in Seq(GroupsFor(u)) /\ Len(gs \o <<HwOc>>) = Len(gs) + 1
           /\ Elements(gs) \subseteq Elements(gs \o <<HwOc>>)
<1>1. \A u \in Unit : {HwOc, TlmError(u), CrcError(u), UnitError(u)} \subseteq GroupsFor(u)
  BY GroupsType DEF GroupsFor, Group, GroupUnit, HwOc, TlmError, CrcError, UnitError
<1>2. SwOc \in GroupsFor("INA260")
  BY DEF GroupsFor, Group, GroupUnit, SwOc
<1>3. ASSUME NEW u \in Unit
      PROVE  /\ <<TlmError(u), CrcError(u), UnitError(u)>> \in Seq(GroupsFor(u))
             /\ <<TlmError(u), UnitError(u)>> \in Seq(GroupsFor(u))
             /\ <<CrcError(u), UnitError(u)>> \in Seq(GroupsFor(u))
             /\ <<HwOc>> \in Seq(GroupsFor(u))
  BY <1>1
<1>4. Ina260Groups \in Seq(GroupsFor("INA260")) /\ Len(Ina260Groups) = 3
  BY <1>1, <1>2, UnitsOfBlocks DEF Ina260Groups
<1>5. ASSUME NEW u \in Unit, NEW gs \in Seq(GroupsFor(u))
      PROVE  /\ gs \o <<HwOc>> \in Seq(GroupsFor(u)) /\ Len(gs \o <<HwOc>>) = Len(gs) + 1
             /\ Elements(gs) \subseteq Elements(gs \o <<HwOc>>)
  <2> DEFINE S == GroupsFor(u)
  <2>1. <<HwOc>> \in Seq(S) /\ Len(<<HwOc>>) = 1 /\ gs \in Seq(S)
    BY <1>3
  <2> HIDE DEF S
  <2>2. /\ gs \o <<HwOc>> \in Seq(S) /\ Len(gs \o <<HwOc>>) = Len(gs) + 1
        /\ Elements(gs \o <<HwOc>>) = Elements(gs) \cup Elements(<<HwOc>>)
    BY <2>1, Joined
  <2> QED
    BY <2>2 DEF S
<1>6. /\ \A u \in Wheel : RwGroups(u) \in Seq(GroupsFor(u)) /\ Len(RwGroups(u)) = 3
      /\ Rm3100Groups \in Seq(GroupsFor("RM3100")) /\ Len(Rm3100Groups) = 2
      /\ Mpu9250Groups \in Seq(GroupsFor("MPU9250")) /\ Len(Mpu9250Groups) = 2
  BY <1>3, UnitsOfBlocks DEF RwGroups, Rm3100Groups, Mpu9250Groups
<1>7. /\ SunSensorGroups \in Seq(GroupsFor("NANOSSOC_D60")) /\ Len(SunSensorGroups) = 3
      /\ Oem7600Groups \in Seq(GroupsFor("OEM7600")) /\ Len(Oem7600Groups) = 2
      /\ SagittaGroups \in Seq(GroupsFor("SAGITTA")) /\ Len(SagittaGroups) = 3
      /\ Stim210Groups \in Seq(GroupsFor("STIM210")) /\ Len(Stim210Groups) = 3
  BY <1>3, UnitsOfBlocks DEF SunSensorGroups, Oem7600Groups, SagittaGroups, Stim210Groups
<1> QED
  BY <1>1, <1>4, <1>5, <1>6, <1>7

\* Commands for all groups and rules of a unit raise or lower all of its items.
LEMMA AllItems ==
    ASSUME NEW u \in Unit, NEW gs \in Seq(GroupsFor(u)), NEW rs \in Seq(RulesFor(u))
    PROVE  /\ EnableAll(gs) \o ActivateAll(rs) \in Seq(Raises(u))
           /\ Len(EnableAll(gs) \o ActivateAll(rs)) = Len(gs) + Len(rs)
           /\ InactivateAll(rs) \o DisableAll(gs) \in Seq(Lowers(u))
           /\ Len(InactivateAll(rs) \o DisableAll(gs)) = Len(gs) + Len(rs)
           /\ DisableAll(gs) \o InactivateAll(rs) \in Seq(Lowers(u))
           /\ Len(DisableAll(gs) \o InactivateAll(rs)) = Len(gs) + Len(rs)
           /\ RulesOf(u) = Elements(rs) /\ GroupsOf(u) \ {HwOc} \subseteq Elements(gs) =>
                  \A x \in Items(u) :
                      /\ Raise(x) \in Elements(EnableAll(gs) \o ActivateAll(rs))
                      /\ Lower(x) \in Elements(InactivateAll(rs) \o DisableAll(gs))
                      /\ Lower(x) \in Elements(DisableAll(gs) \o InactivateAll(rs))
<1>1. /\ EnableAll(gs) \in Seq(Raises(u)) /\ Len(EnableAll(gs)) = Len(gs)
      /\ DisableAll(gs) \in Seq(Lowers(u)) /\ Len(DisableAll(gs)) = Len(gs)
      /\ \A g \in Elements(gs) : /\ EnableLogging(g) \in Elements(EnableAll(gs))
                                 /\ DisableLogging(g) \in Elements(DisableAll(gs))
      /\ ActivateAll(rs) \in Seq(Raises(u)) /\ Len(ActivateAll(rs)) = Len(rs)
      /\ InactivateAll(rs) \in Seq(Lowers(u)) /\ Len(InactivateAll(rs)) = Len(rs)
      /\ \A r \in Elements(rs) : /\ ActivateRule(r) \in Elements(ActivateAll(rs))
                                 /\ InactivateRule(r) \in Elements(InactivateAll(rs))
  BY AllCommands
<1>2. Len(gs) \in Nat /\ Len(rs) \in Nat
  OBVIOUS
<1>3. ASSUME NEW S, NEW s \in Seq(S), NEW t \in Seq(S)
      PROVE  /\ s \o t \in Seq(S) /\ Len(s \o t) = Len(s) + Len(t)
             /\ Elements(s \o t) = Elements(s) \cup Elements(t)
  BY Joined
<1>4. /\ EnableAll(gs) \o ActivateAll(rs) \in Seq(Raises(u))
      /\ Len(EnableAll(gs) \o ActivateAll(rs)) = Len(EnableAll(gs)) + Len(ActivateAll(rs))
      /\ Elements(EnableAll(gs) \o ActivateAll(rs)) =
             Elements(EnableAll(gs)) \cup Elements(ActivateAll(rs))
  BY <1>1, <1>3
<1>5. /\ InactivateAll(rs) \o DisableAll(gs) \in Seq(Lowers(u))
      /\ Len(InactivateAll(rs) \o DisableAll(gs)) = Len(InactivateAll(rs)) + Len(DisableAll(gs))
      /\ Elements(InactivateAll(rs) \o DisableAll(gs)) =
             Elements(InactivateAll(rs)) \cup Elements(DisableAll(gs))
      /\ DisableAll(gs) \o InactivateAll(rs) \in Seq(Lowers(u))
      /\ Len(DisableAll(gs) \o InactivateAll(rs)) = Len(DisableAll(gs)) + Len(InactivateAll(rs))
      /\ Elements(DisableAll(gs) \o InactivateAll(rs)) =
             Elements(DisableAll(gs)) \cup Elements(InactivateAll(rs))
  BY <1>1, <1>3
<1>6. ASSUME RulesOf(u) = Elements(rs), GroupsOf(u) \ {HwOc} \subseteq Elements(gs),
             NEW x \in Items(u)
      PROVE  /\ Raise(x) \in Elements(EnableAll(gs)) \cup Elements(ActivateAll(rs))
             /\ Lower(x) \in Elements(InactivateAll(rs)) \cup Elements(DisableAll(gs))
  <2>1. CASE x \in {"RULE"} \X RulesOf(u)
    <3>1. x[1] = "RULE" /\ x[2] \in Elements(rs)
      BY <1>6, <2>1
    <3> QED
      BY <1>1, <3>1 DEF Raise, Lower
  <2>2. CASE x \in {"GROUP"} \X (GroupsOf(u) \ {HwOc})
    <3>1. x[1] = "GROUP" /\ x[2] \in Elements(gs)
      BY <1>6, <2>2
    <3> QED
      BY <1>1, <3>1 DEF Raise, Lower
  <2> QED
    BY <2>1, <2>2 DEF Items
<1> QED
  BY <1>1, <1>2, <1>4, <1>5, <1>6

-----------------------------------------------------------------------------
(* The blocks that activate and inactivate.                                  *)

UpLeaves(u) == {e \in Entry : 1 <= e[1] /\ e[1] <= 12 /\ e[2] \in Raises(u)}
DownLeaves(u) == {e \in Entry : 1 <= e[1] /\ e[1] <= 12 /\ e[2] \in Lowers(u)}

LEMMA LeafWithin ==
    ASSUME NEW u \in Unit, NEW t \in Int, 1 <= t
    PROVE  /\ \A cs \in Seq(Raises(u)) :
                  t + Len(cs) <= 13 => Within(From(t, cs), UpLeaves(u))
           /\ \A cs \in Seq(Lowers(u)) :
                  t + Len(cs) <= 13 => Within(From(t, cs), DownLeaves(u))
<1>1. Raises(u) \subseteq Command /\ Lowers(u) \subseteq Command
  BY DEF Raises, Lowers
<1>2. ASSUME NEW cs \in Seq(Raises(u)), t + Len(cs) <= 13
      PROVE  Within(From(t, cs), UpLeaves(u))
  <2>1. Len(cs) \in Nat
    OBVIOUS
  <2>2. \A k \in Int, c \in Raises(u) : t <= k /\ k <= t + Len(cs) - 1 => <<k, c>> \in UpLeaves(u)
    BY <1>1, <1>2, <2>1 DEF UpLeaves, Entry
  <2> QED
    BY <1>1, <2>2, FromWithin
<1>3. ASSUME NEW cs \in Seq(Lowers(u)), t + Len(cs) <= 13
      PROVE  Within(From(t, cs), DownLeaves(u))
  <2>1. Len(cs) \in Nat
    OBVIOUS
  <2>2. \A k \in Int, c \in Lowers(u) : t <= k /\ k <= t + Len(cs) - 1 => <<k, c>> \in DownLeaves(u)
    BY <1>1, <1>3, <2>1 DEF DownLeaves, Entry
  <2> QED
    BY <1>1, <2>2, FromWithin
<1> QED
  BY <1>2, <1>3

LEMMA HasAt ==
    ASSUME NEW t \in Int, NEW cs \in Seq(Command), NEW c \in Elements(cs)
    PROVE  Has(Elements(From(t, cs)), c)
BY FromHas DEF HasFrom, Has

\* A unit that is watched in one go.
LEMMA WatchedAtOnce ==
    ASSUME NEW u \in Unit, NEW gs \in Seq(GroupsFor(u)), NEW rs \in Seq(RulesFor(u)),
           RulesOf(u) = Elements(rs), GroupsOf(u) = Elements(gs), Len(gs) + Len(rs) <= 11
    PROVE  LET up == From(1, EnableAll(gs \o <<HwOc>>) \o ActivateAll(rs))
               down == From(1, InactivateAll(rs) \o DisableAll(gs))
           IN  /\ Within(up, UpLeaves(u)) /\ Within(down, DownLeaves(u))
               /\ \A x \in Items(u) : Has(Elements(up), Raise(x)) /\ Has(Elements(down), Lower(x))
<1> DEFINE hs == gs \o <<HwOc>>
           ups == EnableAll(hs) \o ActivateAll(rs)
           downs == InactivateAll(rs) \o DisableAll(gs)
<1>1. /\ hs \in Seq(GroupsFor(u)) /\ Len(hs) = Len(gs) + 1
      /\ Elements(gs) \subseteq Elements(hs)
  BY UnitGroups
<1>2. Len(gs) \in Nat /\ Len(rs) \in Nat
  OBVIOUS
<1> HIDE DEF hs
<1>3. /\ ups \in Seq(Raises(u)) /\ Len(ups) = Len(hs) + Len(rs)
      /\ \A x \in Items(u) : Raise(x) \in Elements(ups)
  <2>1. GroupsOf(u) \ {HwOc} \subseteq Elements(hs)
    BY <1>1
  <2> QED
    BY <1>1, <2>1, AllItems
<1>4. /\ downs \in Seq(Lowers(u)) /\ Len(downs) = Len(gs) + Len(rs)
      /\ \A x \in Items(u) : Lower(x) \in Elements(downs)
  <2>1. GroupsOf(u) \ {HwOc} \subseteq Elements(gs)
    OBVIOUS
  <2> QED
    BY <2>1, AllItems
<1> HIDE DEF ups, downs
<1>5. ups \in Seq(Command) /\ downs \in Seq(Command)
  <2>1. \A A, B : A \subseteq B => Seq(A) \subseteq Seq(B)
    OBVIOUS
  <2>2. Raises(u) \subseteq Command /\ Lowers(u) \subseteq Command
    BY DEF Raises, Lowers
  <2> QED
    BY <1>3, <1>4, <2>1, <2>2
<1>6. 1 + Len(ups) <= 13 /\ 1 + Len(downs) <= 13
  BY <1>1, <1>2, <1>3, <1>4
<1>7. Within(From(1, ups), UpLeaves(u)) /\ Within(From(1, downs), DownLeaves(u))
  BY <1>3, <1>4, <1>6, LeafWithin
<1>8. \A x \in Items(u) : /\ Has(Elements(From(1, ups)), Raise(x))
                          /\ Has(Elements(From(1, downs)), Lower(x))
  BY <1>3, <1>4, <1>5, HasAt
<1> QED
  BY <1>7, <1>8 DEF ups, downs, hs

LEMMA WatchOfBlocks ==
    /\ SwitchingBlock(<<"ACTIVATE", "NANOSSOC_D60">>) = ActivateNanossocD60
    /\ SwitchingBlock(<<"ACTIVATE", "OEM7600">>) = ActivateOem7600
    /\ SwitchingBlock(<<"ACTIVATE", "SAGITTA">>) = ActivateSagitta
    /\ SwitchingBlock(<<"ACTIVATE", "STIM210">>) = ActivateStim210
    /\ SwitchingBlock(<<"ACTIVATE", "INA260">>) = ActivateIna260
    /\ SwitchingBlock(<<"INACTIVATE", "NANOSSOC_D60">>) = InactivateNanossocD60
    /\ SwitchingBlock(<<"INACTIVATE", "OEM7600">>) = InactivateOem7600
    /\ SwitchingBlock(<<"INACTIVATE", "SAGITTA">>) = InactivateSagitta
    /\ SwitchingBlock(<<"INACTIVATE", "STIM210">>) = InactivateStim210
BY DEF SwitchingBlock, WatchBlock

LEMMA RulesAndGroups ==
    /\ \A u \in Wheel : RulesOf(u) = Elements(RwRules(u)) /\ GroupsOf(u) = Elements(RwGroups(u))
    /\ RulesOf("RM3100") = Elements(Rm3100Rules) /\ GroupsOf("RM3100") = Elements(Rm3100Groups)
    /\ RulesOf("MPU9250") = Elements(<<TlmError("MPU9250")>>)
    /\ GroupsOf("MPU9250") = Elements(Mpu9250Groups)
    /\ RulesOf("MTQ") = Elements(OcRules("MTQ")) /\ GroupsOf("MTQ") = {}
    /\ RulesOf("NANOSSOC_D60") = Elements(SunSensorRules)
    /\ GroupsOf("NANOSSOC_D60") = Elements(SunSensorGroups)
    /\ RulesOf("OEM7600") = Elements(Oem7600Rules) /\ GroupsOf("OEM7600") = Elements(Oem7600Groups)
    /\ RulesOf("SAGITTA") = Elements(SagittaRules) /\ GroupsOf("SAGITTA") = Elements(SagittaGroups)
    /\ RulesOf("STIM210") = Elements(Stim210Rules) /\ GroupsOf("STIM210") = Elements(Stim210Groups)
    /\ RulesOf("INA260") = Elements(Ina260Rules) /\ GroupsOf("INA260") = Elements(Ina260Groups)
<1>1. \A u \in Wheel : RulesOf(u) = Elements(RwRules(u)) /\ GroupsOf(u) = Elements(RwGroups(u))
  BY DEF RulesOf, GroupsOf, Wheel
<1>2. Elements(<< >>) = {}
  BY DEF Elements
<1>3. /\ RulesOf("RM3100") = Elements(Rm3100Rules) /\ GroupsOf("RM3100") = Elements(Rm3100Groups)
      /\ RulesOf("MPU9250") = Elements(<<TlmError("MPU9250")>>)
      /\ GroupsOf("MPU9250") = Elements(Mpu9250Groups)
      /\ RulesOf("MTQ") = Elements(OcRules("MTQ")) /\ GroupsOf("MTQ") = {}
  BY <1>2 DEF RulesOf, GroupsOf, Wheel
<1>4. /\ RulesOf("NANOSSOC_D60") = Elements(SunSensorRules)
      /\ GroupsOf("NANOSSOC_D60") = Elements(SunSensorGroups)
      /\ RulesOf("OEM7600") = Elements(Oem7600Rules) /\ GroupsOf("OEM7600") = Elements(Oem7600Groups)
      /\ RulesOf("SAGITTA") = Elements(SagittaRules)
      /\ GroupsOf("SAGITTA") = Elements(SagittaGroups)
  BY DEF RulesOf, GroupsOf, Wheel
<1>5. /\ RulesOf("STIM210") = Elements(Stim210Rules)
      /\ GroupsOf("STIM210") = Elements(Stim210Groups)
      /\ RulesOf("INA260") = Elements(Ina260Rules) /\ GroupsOf("INA260") = Elements(Ina260Groups)
  BY DEF RulesOf, GroupsOf, Wheel
<1> QED
  BY <1>1, <1>3, <1>4, <1>5

RuleItem(x) == x[1] = "RULE"

LEMMA RulesInBlocks ==
    ASSUME NEW u \in Unit, NEW rs \in Seq(RulesFor(u)), NEW t \in Int
    PROVE  /\ 1 <= t /\ t + Len(rs) <= 13 =>
                  /\ Within(From(t, ActivateAll(rs)), UpLeaves(u))
                  /\ Within(From(t, InactivateAll(rs)), DownLeaves(u))
           /\ \A r \in Elements(rs) :
                  /\ Has(Elements(From(t, ActivateAll(rs))), ActivateRule(r))
                  /\ Has(Elements(From(t, InactivateAll(rs))), InactivateRule(r))
<1>1. /\ ActivateAll(rs) \in Seq(Raises(u)) /\ Len(ActivateAll(rs)) = Len(rs)
      /\ InactivateAll(rs) \in Seq(Lowers(u)) /\ Len(InactivateAll(rs)) = Len(rs)
      /\ \A r \in Elements(rs) : /\ ActivateRule(r) \in Elements(ActivateAll(rs))
                                 /\ InactivateRule(r) \in Elements(InactivateAll(rs))
  BY AllCommands
<1>2. ASSUME 1 <= t, t + Len(rs) <= 13
      PROVE  /\ Within(From(t, ActivateAll(rs)), UpLeaves(u))
             /\ Within(From(t, InactivateAll(rs)), DownLeaves(u))
  BY <1>1, <1>2, LeafWithin
<1>3. ActivateAll(rs) \in Seq(Command) /\ InactivateAll(rs) \in Seq(Command)
  <2>1. \A A, B : A \subseteq B => Seq(A) \subseteq Seq(B)
    OBVIOUS
  <2>2. Raises(u) \subseteq Command /\ Lowers(u) \subseteq Command
    BY DEF Raises, Lowers
  <2> QED
    BY <1>1, <2>1, <2>2
<1>4. \A r \in Elements(rs) : /\ Has(Elements(From(t, ActivateAll(rs))), ActivateRule(r))
                              /\ Has(Elements(From(t, InactivateAll(rs))), InactivateRule(r))
  BY <1>1, <1>3, HasAt
<1> QED
  BY <1>2, <1>4

LEMMA WatchFacts ==
    /\ \A u \in Biasing \cup {"INA260"} :
           /\ Within(SwitchingBlock(<<"ACTIVATE", u>>), UpLeaves(u))
           /\ \A x \in Items(u) : RuleItem(x) \/ u \in {"OEM7600", "SAGITTA", "STIM210"} =>
                  Has(Elements(SwitchingBlock(<<"ACTIVATE", u>>)), Raise(x))
    /\ \A u \in Biasing :
           /\ Within(SwitchingBlock(<<"INACTIVATE", u>>), DownLeaves(u))
           /\ \A x \in Items(u) : RuleItem(x) \/ u \in {"OEM7600", "SAGITTA", "STIM210"} =>
                  Has(Elements(SwitchingBlock(<<"INACTIVATE", u>>)), Lower(x))
<1>1. ASSUME NEW u \in {"OEM7600", "SAGITTA", "STIM210"}
      PROVE  /\ Within(SwitchingBlock(<<"ACTIVATE", u>>), UpLeaves(u))
             /\ Within(SwitchingBlock(<<"INACTIVATE", u>>), DownLeaves(u))
             /\ \A x \in Items(u) : /\ Has(Elements(SwitchingBlock(<<"ACTIVATE", u>>)), Raise(x))
                                    /\ Has(Elements(SwitchingBlock(<<"INACTIVATE", u>>)), Lower(x))
  <2>1. ASSUME NEW gs \in Seq(GroupsFor(u)), NEW rs \in Seq(RulesFor(u)),
               RulesOf(u) = Elements(rs), GroupsOf(u) = Elements(gs), Len(gs) + Len(rs) <= 11,
               SwitchingBlock(<<"ACTIVATE", u>>) = From(1, EnableAll(gs \o <<HwOc>>) \o ActivateAll(rs)),
               SwitchingBlock(<<"INACTIVATE", u>>) = From(1, InactivateAll(rs) \o DisableAll(gs))
        PROVE  /\ Within(SwitchingBlock(<<"ACTIVATE", u>>), UpLeaves(u))
               /\ Within(SwitchingBlock(<<"INACTIVATE", u>>), DownLeaves(u))
               /\ \A x \in Items(u) : /\ Has(Elements(SwitchingBlock(<<"ACTIVATE", u>>)), Raise(x))
                                      /\ Has(Elements(SwitchingBlock(<<"INACTIVATE", u>>)), Lower(x))
    BY <2>1, WatchedAtOnce, UnitsOfBlocks
  <2>2. CASE u = "OEM7600"
    <3>1. /\ Oem7600Groups \in Seq(GroupsFor(u)) /\ Oem7600Rules \in Seq(RulesFor(u))
          /\ Len(Oem7600Groups) = 2 /\ Len(Oem7600Rules) = 5
      BY <2>2, UnitRules, UnitGroups
    <3>2. RulesOf(u) = Elements(Oem7600Rules) /\ GroupsOf(u) = Elements(Oem7600Groups)
      BY <2>2, RulesAndGroups
    <3>3. /\ SwitchingBlock(<<"ACTIVATE", u>>) =
                 From(1, EnableAll(Oem7600Groups \o <<HwOc>>) \o ActivateAll(Oem7600Rules))
          /\ SwitchingBlock(<<"INACTIVATE", u>>) =
                 From(1, InactivateAll(Oem7600Rules) \o DisableAll(Oem7600Groups))
      BY <2>2, WatchOfBlocks DEF ActivateOem7600, InactivateOem7600
    <3>4. Len(Oem7600Groups) + Len(Oem7600Rules) <= 11
      BY <3>1
    <3> QED
      BY <2>1, <3>1, <3>2, <3>3, <3>4
  <2>3. CASE u = "SAGITTA"
    <3>1. /\ SagittaGroups \in Seq(GroupsFor(u)) /\ SagittaRules \in Seq(RulesFor(u))
          /\ Len(SagittaGroups) = 3 /\ Len(SagittaRules) = 6
      BY <2>3, UnitRules, UnitGroups
    <3>2. RulesOf(u) = Elements(SagittaRules) /\ GroupsOf(u) = Elements(SagittaGroups)
      BY <2>3, RulesAndGroups
    <3>3. /\ SwitchingBlock(<<"ACTIVATE", u>>) =
                 From(1, EnableAll(SagittaGroups \o <<HwOc>>) \o ActivateAll(SagittaRules))
          /\ SwitchingBlock(<<"INACTIVATE", u>>) =
                 From(1, InactivateAll(SagittaRules) \o DisableAll(SagittaGroups))
      BY <2>3, WatchOfBlocks DEF ActivateSagitta, InactivateSagitta
    <3>4. Len(SagittaGroups) + Len(SagittaRules) <= 11
      BY <3>1
    <3> QED
      BY <2>1, <3>1, <3>2, <3>3, <3>4
  <2>4. CASE u = "STIM210"
    <3>1. /\ Stim210Groups \in Seq(GroupsFor(u)) /\ Stim210Rules \in Seq(RulesFor(u))
          /\ Len(Stim210Groups) = 3 /\ Len(Stim210Rules) = 8
      BY <2>4, UnitRules, UnitGroups
    <3>2. RulesOf(u) = Elements(Stim210Rules) /\ GroupsOf(u) = Elements(Stim210Groups)
      BY <2>4, RulesAndGroups
    <3>3. /\ SwitchingBlock(<<"ACTIVATE", u>>) =
                 From(1, EnableAll(Stim210Groups \o <<HwOc>>) \o ActivateAll(Stim210Rules))
          /\ SwitchingBlock(<<"INACTIVATE", u>>) =
                 From(1, InactivateAll(Stim210Rules) \o DisableAll(Stim210Groups))
      BY <2>4, WatchOfBlocks DEF ActivateStim210, InactivateStim210
    <3>4. Len(Stim210Groups) + Len(Stim210Rules) <= 11
      BY <3>1
    <3> QED
      BY <2>1, <3>1, <3>2, <3>3, <3>4
  <2> QED
    BY <2>2, <2>3, <2>4
<1>2. /\ \A u \in Unit : \A rs \in Seq(RulesFor(u)) : \A t \in Int :
             1 <= t /\ t + Len(rs) <= 13 => Within(From(t, ActivateAll(rs)), UpLeaves(u))
      /\ \A u \in Unit : \A rs \in Seq(RulesFor(u)) : \A t \in Int :
             1 <= t /\ t + Len(rs) <= 13 => Within(From(t, InactivateAll(rs)), DownLeaves(u))
      /\ \A u \in Unit : \A rs \in Seq(RulesFor(u)) : \A t \in Int : \A r \in Elements(rs) :
             /\ Has(Elements(From(t, ActivateAll(rs))), ActivateRule(r))
             /\ Has(Elements(From(t, InactivateAll(rs))), InactivateRule(r))
  BY RulesInBlocks
<1>3. \A u : \A x \in Items(u) :
          RuleItem(x) => /\ x[2] \in RulesOf(u) /\ Raise(x) = ActivateRule(x[2])
                         /\ Lower(x) = InactivateRule(x[2])
  BY DEF Items, RuleItem, Raise, Lower
<1>4. ASSUME NEW u \in {"INA260", "NANOSSOC_D60"}
      PROVE  /\ Within(SwitchingBlock(<<"ACTIVATE", u>>), UpLeaves(u))
             /\ \A x \in Items(u) : RuleItem(x) => Has(Elements(SwitchingBlock(<<"ACTIVATE", u>>)), Raise(x))
  <2>1. PICK rs \in Seq(RulesFor(u)) : /\ Len(rs) <= 10 /\ RulesOf(u) = Elements(rs)
                                       /\ SwitchingBlock(<<"ACTIVATE", u>>) = From(1, ActivateAll(rs))
    <3>1. CASE u = "INA260"
      <4>1. Ina260Rules \in Seq(RulesFor(u)) /\ Len(Ina260Rules) <= 10
        BY <3>1, UnitRules
      <4>2. RulesOf(u) = Elements(Ina260Rules)
        BY <3>1, RulesAndGroups
      <4>3. SwitchingBlock(<<"ACTIVATE", u>>) = From(1, ActivateAll(Ina260Rules))
        BY <3>1, WatchOfBlocks DEF ActivateIna260
      <4> QED
        BY <4>1, <4>2, <4>3
    <3>2. CASE u = "NANOSSOC_D60"
      <4>1. SunSensorRules \in Seq(RulesFor(u)) /\ Len(SunSensorRules) <= 10
        BY <3>2, UnitRules
      <4>2. RulesOf(u) = Elements(SunSensorRules)
        BY <3>2, RulesAndGroups
      <4>3. SwitchingBlock(<<"ACTIVATE", u>>) = From(1, ActivateAll(SunSensorRules))
        BY <3>2, WatchOfBlocks DEF ActivateNanossocD60
      <4> QED
        BY <4>1, <4>2, <4>3
    <3> QED
      BY <3>1, <3>2
  <2>2. u \in Unit /\ 1 \in Int /\ 1 <= 1 /\ 1 + Len(rs) <= 13
    BY <2>1, UnitsOfBlocks
  <2>3. /\ Within(From(1, ActivateAll(rs)), UpLeaves(u))
        /\ \A r \in Elements(rs) : Has(Elements(From(1, ActivateAll(rs))), ActivateRule(r))
    BY <1>2, <2>2
  <2> QED
    BY <1>3, <2>1, <2>3
<1>6. ASSUME NEW u, u = "NANOSSOC_D60"
      PROVE  /\ Within(SwitchingBlock(<<"INACTIVATE", u>>), DownLeaves(u))
             /\ \A x \in Items(u) :
                    RuleItem(x) => Has(Elements(SwitchingBlock(<<"INACTIVATE", u>>)), Lower(x))
  <2>1. /\ u \in Unit /\ OcRules(u) \in Seq(RulesFor(u)) /\ Len(OcRules(u)) = 4
    BY <1>6, UnitsOfBlocks, UnitRules
  <2>2. TlmError(u) \in RulesFor(u) /\ CrcError(u) \in RulesFor(u)
    BY <2>1 DEF TlmError, CrcError, RulesFor, RuleName, RuleUnit
  <2> DEFINE tlm == <<TlmError(u)>>
             crc == <<CrcError(u)>>
             first == From(1, InactivateAll(tlm))
             second == From(5, InactivateAll(crc))
             third == From(9, InactivateAll(OcRules(u)))
  <2>3. /\ tlm \in Seq(RulesFor(u)) /\ crc \in Seq(RulesFor(u))
        /\ Len(tlm) = 1 /\ Len(crc) = 1
        /\ TlmError(u) \in Elements(tlm) /\ CrcError(u) \in Elements(crc)
    BY <2>2, Lists DEF Elements
  <2>4. /\ Within(first, DownLeaves(u)) /\ Within(second, DownLeaves(u)) /\ Within(third, DownLeaves(u))
        /\ Has(Elements(first), InactivateRule(TlmError(u)))
        /\ Has(Elements(second), InactivateRule(CrcError(u)))
        /\ \A r \in Elements(OcRules(u)) : Has(Elements(third), InactivateRule(r))
    <3> HIDE DEF tlm, crc
    <3>1. ASSUME NEW rs \in Seq(RulesFor(u)), NEW t \in Int, 1 <= t, t + Len(rs) <= 13
          PROVE  /\ Within(From(t, InactivateAll(rs)), DownLeaves(u))
                 /\ \A r \in Elements(rs) :
                        Has(Elements(From(t, InactivateAll(rs))), InactivateRule(r))
      BY <2>1, <3>1, RulesInBlocks
    <3>2. /\ 1 \in Int /\ 1 <= 1 /\ 1 + Len(tlm) <= 13
          /\ 5 \in Int /\ 1 <= 5 /\ 5 + Len(crc) <= 13
          /\ 9 \in Int /\ 1 <= 9 /\ 9 + Len(OcRules(u)) <= 13
      BY <2>1, <2>3
    <3>3. /\ Within(first, DownLeaves(u))
          /\ \A r \in Elements(tlm) : Has(Elements(first), InactivateRule(r))
      BY <2>3, <3>1, <3>2
    <3>4. /\ Within(second, DownLeaves(u))
          /\ \A r \in Elements(crc) : Has(Elements(second), InactivateRule(r))
      BY <2>3, <3>1, <3>2
    <3>5. /\ Within(third, DownLeaves(u))
          /\ \A r \in Elements(OcRules(u)) : Has(Elements(third), InactivateRule(r))
      BY <2>1, <3>1, <3>2
    <3> HIDE DEF first, second, third
    <3> QED
      BY <2>3, <3>3, <3>4, <3>5
  <2>5. SwitchingBlock(<<"INACTIVATE", u>>) = (first \o second) \o third
    BY <1>6, WatchOfBlocks DEF InactivateNanossocD60
  <2>6. RulesOf(u) = {TlmError(u), CrcError(u)} \cup Elements(OcRules(u))
    <3> DEFINE s == <<TlmError(u), CrcError(u)>>
    <3>1. s \in Seq(RulesFor(u)) /\ SunSensorRules = s \o OcRules(u)
      BY <1>6, <2>2, Lists DEF SunSensorRules
    <3>2. Elements(s) = {TlmError(u), CrcError(u)}
      BY DEF Elements
    <3> HIDE DEF s
    <3>3. Elements(s \o OcRules(u)) = Elements(s) \cup Elements(OcRules(u))
      BY <2>1, <3>1, Joined
    <3> QED
      BY <1>6, <3>1, <3>2, <3>3, RulesAndGroups
  <2> HIDE DEF first, second, third
  <2>7. Within(first \o second, DownLeaves(u))
    BY <2>4, JoinWithin
  <2>8. /\ Within((first \o second) \o third, DownLeaves(u))
        /\ Elements((first \o second) \o third) =
               Elements(first) \cup Elements(second) \cup Elements(third)
    <3>1. Within((first \o second) \o third, DownLeaves(u))
      BY <2>4, <2>7, JoinWithin
    <3>2. /\ first \in Seq(Entry) /\ second \in Seq(Entry) /\ third \in Seq(Entry)
          /\ first \o second \in Seq(Entry)
      BY <2>4, <2>7 DEF Within
    <3> QED
      BY <3>1, <3>2, JoinElements
  <2>9. \A r \in RulesOf(u) : Has(Elements((first \o second) \o third), InactivateRule(r))
    BY <2>4, <2>6, <2>8 DEF Has
  <2> QED
    BY <1>3, <2>5, <2>8, <2>9
<1> QED
  BY <1>1, <1>4, <1>6 DEF Biasing

-----------------------------------------------------------------------------
(* The blocks that switch a unit on.                                         *)

\* The commands that raise or lower an item, themselves or through their block.
Raising(u, x) ==
    {Raise(x)} \cup {c \in {Activate(u)} :
                        /\ u \in Biasing \cup {"INA260"}
                        /\ Has(Elements(SwitchingBlock(<<"ACTIVATE", u>>)), Raise(x))}
Lowering(u, x) ==
    {Lower(x)} \cup {c \in {Inactivate(u)} :
                        /\ u \in Biasing
                        /\ Has(Elements(SwitchingBlock(<<"INACTIVATE", u>>)), Lower(x))}

\* A unit is watched no sooner than this after it is switched on.
Gap(u) == IF u \in Biasing THEN Sec(3) ELSE 1

Watches(u, s, x) ==
    \E f \in Elements(s) : f[1] >= OnTime(u) + Gap(u) /\ f[2] \in Raising(u, x)
OnStart(u, s) == Within(s, OnEntries(u)) /\ <<OnTime(u), PowerOn(u)>> \in Elements(s)
OnGood(u, s) == OnStart(u, s) /\ \A x \in Items(u) : Watches(u, s, x)

LEMMA GapType == \A u \in Unit : Gap(u) \in Nat /\ Gap(u) >= 1
<1>1. Sec(3) \in Nat /\ Sec(3) >= 1
  BY Times
<1> QED
  BY <1>1 DEF Gap

LEMMA StartOn ==
    ASSUME NEW u \in Unit, NEW mask, Within(mask, OnEntries(u)), NEW t, t = OnTime(u)
    PROVE  OnStart(u, mask \o From(t, <<PowerOn(u)>>))
<1> DEFINE on == From(t, <<PowerOn(u)>>)
<1>1. t \in Int /\ PowerOn(u) \in Command
  BY OnTimes, CommandType
<1>2. on \in Seq(Entry) /\ Elements(on) = {<<t, PowerOn(u)>>}
  BY <1>1, FromOneOrTwo
<1>3. <<t, PowerOn(u)>> \in OnEntries(u)
  <2>1. 1 \in Int /\ 1 >= 1
    OBVIOUS
  <2> QED
    BY <2>1, OnPoints
<1>4. Within(on, OnEntries(u))
  BY <1>2, <1>3 DEF Within
<1> HIDE DEF on
<1>5. Within(mask \o on, OnEntries(u))
  BY <1>4, JoinWithin
<1>6. Elements(mask \o on) = Elements(mask) \cup Elements(on)
  BY <1>4, JoinElements DEF Within
<1> QED
  BY <1>2, <1>5, <1>6 DEF OnStart, on

LEMMA ContinueOn ==
    ASSUME NEW u \in Unit, NEW s, NEW p, OnStart(u, s), Within(p, OnEntries(u))
    PROVE  /\ OnStart(u, s \o p)
           /\ (\A x \in Items(u) : Watches(u, p, x)) => OnGood(u, s \o p)
<1>1. Within(s \o p, OnEntries(u))
  BY JoinWithin DEF OnStart
<1>2. Elements(s \o p) = Elements(s) \cup Elements(p)
  BY JoinElements DEF Within, OnStart
<1>3. OnStart(u, s \o p)
  BY <1>1, <1>2 DEF OnStart
<1>4. ASSUME \A x \in Items(u) : Watches(u, p, x)
      PROVE  \A x \in Items(u) : Watches(u, s \o p, x)
  BY <1>2, <1>4 DEF Watches
<1> QED
  BY <1>3, <1>4 DEF OnGood

LEMMA NeutralCommands ==
    /\ \A u \in Monitored \cup {"PIC"} : Protect(u) \in Neutral /\ InitSensor(u) \in Neutral
    /\ DisableLogging(HwOc) \in Neutral
<1>1. DisableLogging(HwOc) \in Command
  BY CommandType, GroupsType
<1>2. Owner(DisableLogging(HwOc)) = "none"
  BY OwnerAndKind DEF GroupUnit, HwOc
<1>3. \A u : /\ Protect(u) # FinishTransition /\ Protect(u)[1] # "CLEAR_BIAS"
             /\ InitSensor(u) # FinishTransition /\ InitSensor(u)[1] # "CLEAR_BIAS"
  BY DEF Protect, InitSensor, FinishTransition
<1>4. DisableLogging(HwOc) # FinishTransition /\ DisableLogging(HwOc)[1] # "CLEAR_BIAS"
  BY DEF DisableLogging, FinishTransition
<1> QED
  BY <1>1, <1>2, <1>3, <1>4, OwnerAndKind, CommandType DEF Neutral

LEMMA NeutralPart ==
    ASSUME NEW u \in Unit, NEW t \in Int, t >= 1, NEW cs \in Seq(Neutral)
    PROVE  Within(From(t, cs), OnEntries(u))
<1>1. Neutral \subseteq Command
  BY DEF Neutral
<1>2. \A k \in Int, c \in Neutral : t <= k /\ k <= t + Len(cs) - 1 => <<k, c>> \in OnEntries(u)
  <2> SUFFICES ASSUME NEW k \in Int, NEW c \in Neutral, t <= k
               PROVE  <<k, c>> \in OnEntries(u)
    OBVIOUS
  <2>1. k >= 1
    OBVIOUS
  <2> QED
    BY <2>1, OnPoints
<1> QED
  BY <1>1, <1>2, FromWithin

\* What most blocks begin with.
LEMMA MaskParts ==
    ASSUME NEW u \in Unit, NEW v \in Monitored, NEW t \in Int, t >= 1
    PROVE  /\ Within(From(t, <<Protect(v), DisableLogging(HwOc)>>), OnEntries(u))
           /\ Within(From(t, <<DisableLogging(HwOc), Protect(v)>>), OnEntries(u))
           /\ Within(From(t, <<DisableLogging(HwOc)>>), OnEntries(u))
<1>1. Protect(v) \in Neutral /\ DisableLogging(HwOc) \in Neutral
  BY NeutralCommands
<1> DEFINE a == <<Protect(v), DisableLogging(HwOc)>>
           b == <<DisableLogging(HwOc), Protect(v)>>
           d == <<DisableLogging(HwOc)>>
<1>2. a \in Seq(Neutral) /\ b \in Seq(Neutral) /\ d \in Seq(Neutral)
  BY <1>1, Lists
<1> HIDE DEF a, b, d
<1>3. /\ Within(From(t, a), OnEntries(u)) /\ Within(From(t, b), OnEntries(u))
      /\ Within(From(t, d), OnEntries(u))
  BY <1>2, NeutralPart
<1> QED
  BY <1>3 DEF a, b, d

\* Raising commands in a row, late enough after the unit is on.
LEMMA RaisePart ==
    ASSUME NEW u \in Unit, NEW t \in Int, NEW cs \in Seq(Raises(u)),
           t > OnTime(u), t + Len(cs) - 1 <= OnSpan(u)
    PROVE  /\ Within(From(t, cs), OnEntries(u))
           /\ \A x \in Items(u) :
                  Raise(x) \in Elements(cs) /\ t >= OnTime(u) + Gap(u) =>
                      Watches(u, From(t, cs), x)
<1>1. Raises(u) \subseteq Command /\ Len(cs) \in Nat /\ OnTime(u) \in Nat /\ OnSpan(u) \in Nat
  <2>1. Len(cs) \in Nat
    OBVIOUS
  <2> QED
    BY <2>1, OnTimes DEF Raises
<1>2. \A k \in Int, c \in Raises(u) : t <= k /\ k <= t + Len(cs) - 1 => <<k, c>> \in OnEntries(u)
  <2> SUFFICES ASSUME NEW k \in Int, NEW c \in Raises(u), t <= k, k <= t + Len(cs) - 1
               PROVE  <<k, c>> \in OnEntries(u)
    OBVIOUS
  <2>1. k >= 1 /\ k > OnTime(u) /\ k <= OnSpan(u)
    BY <1>1
  <2> QED
    BY <2>1, OnPoints
<1>3. Within(From(t, cs), OnEntries(u))
  BY <1>1, <1>2, FromWithin
<1>4. ASSUME NEW x \in Items(u), Raise(x) \in Elements(cs), t >= OnTime(u) + Gap(u)
      PROVE  Watches(u, From(t, cs), x)
  <2>1. PICK f \in Elements(From(t, cs)) : f[1] >= t /\ f[2] = Raise(x)
    BY <1>1, <1>4, FromElements
  <2>2. f[1] \in Int
    BY <1>1, <2>1, FromElements
  <2>3. f[1] >= OnTime(u) + Gap(u)
    BY <1>1, <1>4, <2>1, <2>2, GapType
  <2> QED
    BY <2>1, <2>3 DEF Watches, Raising
<1> QED
  BY <1>3, <1>4

LEMMA BiasPart ==
    ASSUME NEW u \in Biasing, NEW t \in Int, t > OnTime(u), t + 1 <= CoreSpan(u)
    PROVE  Within(From(t, BiasBoth(u, 1)), OnEntries(u))
<1>1. u \in Unit
  BY UnitsOfBlocks
<1>2. OnTime(u) \in Nat /\ CoreSpan(u) \in Nat
  BY <1>1, OnTimes
<1>3. AddBias("ON_AOBC", u, 1) \in Command /\ AddBias("EXTERNAL", u, 1) \in Command
  BY CommandType DEF Mag
<1>4. /\ From(t, BiasBoth(u, 1)) \in Seq(Entry)
      /\ Elements(From(t, BiasBoth(u, 1))) =
             {<<t, AddBias("ON_AOBC", u, 1)>>, <<t + 1, AddBias("EXTERNAL", u, 1)>>}
  BY <1>3, FromOneOrTwo DEF BiasBoth
<1>5. /\ t >= 1 /\ t <= CoreSpan(u) /\ t + 1 \in Int /\ t + 1 >= 1 /\ t + 1 > OnTime(u)
      /\ "ON_AOBC" \in Mag /\ "EXTERNAL" \in Mag
  BY <1>2 DEF Mag
<1>6. <<t, AddBias("ON_AOBC", u, 1)>> \in OnEntries(u)
  BY <1>1, <1>5, OnPoints
<1>7. <<t + 1, AddBias("EXTERNAL", u, 1)>> \in OnEntries(u)
  BY <1>1, <1>5, OnPoints
<1> QED
  BY <1>4, <1>6, <1>7 DEF Within

\* The deployment of the block that activates raises what that block raises.
LEMMA ActivatePart ==
    ASSUME NEW u \in Biasing \cup {"INA260"}, NEW t \in Int,
           t >= OnTime(u) + Gap(u), t + LongestDelay + 12 <= OnSpan(u)
    PROVE  /\ <<t, Activate(u)>> \in OnEntries(u)
           /\ \A s : \A x \in Items(u) :
                  /\ <<t, Activate(u)>> \in Elements(s)
                  /\ RuleItem(x) \/ u \in {"OEM7600", "SAGITTA", "STIM210"}
                  => Watches(u, s, x)
<1>1. u \in Unit
  BY UnitsOfBlocks
<1>2. OnTime(u) \in Nat /\ Gap(u) \in Nat /\ Gap(u) >= 1
  BY <1>1, OnTimes, GapType
<1>3. t >= 1 /\ t > OnTime(u)
  BY <1>2
<1>4. <<t, Activate(u)>> \in OnEntries(u)
  BY <1>1, <1>3, OnPoints
<1>5. ASSUME NEW s, NEW x \in Items(u), <<t, Activate(u)>> \in Elements(s),
             RuleItem(x) \/ u \in {"OEM7600", "SAGITTA", "STIM210"}
      PROVE  Watches(u, s, x)
  <2>1. Has(Elements(SwitchingBlock(<<"ACTIVATE", u>>)), Raise(x))
    BY <1>5, WatchFacts
  <2>2. Activate(u) \in Raising(u, x)
    BY <2>1 DEF Raising
  <2>3. <<t, Activate(u)>>[1] = t /\ <<t, Activate(u)>>[2] = Activate(u)
    OBVIOUS
  <2> QED
    BY <1>5, <2>2, <2>3 DEF Watches
<1> QED
  BY <1>4, <1>5

\* A unit that is watched by what its own block raises.
LEMMA PlainOn ==
    ASSUME NEW u \in Unit \ Biasing, NEW mask, Within(mask, OnEntries(u)),
           NEW gs \in Seq(GroupsFor(u)), NEW rs \in Seq(RulesFor(u)),
           RulesOf(u) = Elements(rs), GroupsOf(u) \ {HwOc} \subseteq Elements(gs),
           NEW t \in Int, t > OnTime(u), t + (Len(gs) + Len(rs)) - 1 <= OnSpan(u),
           NEW on, on = OnTime(u)
    PROVE  OnGood(u, (mask \o From(on, <<PowerOn(u)>>))
                         \o From(t, EnableAll(gs) \o ActivateAll(rs)))
<1> DEFINE cs == EnableAll(gs) \o ActivateAll(rs)
           s == mask \o From(on, <<PowerOn(u)>>)
<1>1. /\ cs \in Seq(Raises(u)) /\ Len(cs) = Len(gs) + Len(rs)
      /\ \A x \in Items(u) : Raise(x) \in Elements(cs)
  BY AllItems
<1>2. OnStart(u, s)
  BY StartOn
<1> HIDE DEF cs, s
<1>3. t >= OnTime(u) + Gap(u)
  BY OnTimes DEF Gap
<1>4. /\ Within(From(t, cs), OnEntries(u))
      /\ \A x \in Items(u) : Watches(u, From(t, cs), x)
  BY <1>1, <1>3, RaisePart
<1>5. OnGood(u, s \o From(t, cs))
  BY <1>2, <1>4, ContinueOn
<1> QED
  BY <1>5 DEF cs, s

LEMMA MoreTimes ==
    ASSUME NEW C, C = OBCT_CYCLES_PER_SEC
    PROVE  /\ C \in Nat /\ C >= 10 /\ LongestDelay \in Nat /\ LongestDelay <= C + 3
           /\ Sec(1) = C /\ Sec(2) = 2 * C /\ Sec(3) = 3 * C /\ Sec(4) = 4 * C /\ Sec(5) = 5 * C
           /\ Sec(6) = 6 * C /\ Sec(7) = 7 * C /\ Sec(8) = 8 * C /\ Sec(11) = 11 * C
           /\ Sec(12) = 12 * C /\ Sec(13) = 13 * C /\ Sec(15) = 15 * C /\ Sec(41) = 41 * C
BY Times

LEMMA PlainOnBlocks ==
    ASSUME NEW u \in Unit \ (Biasing \cup {"INA260"})
    PROVE  OnGood(u, PowerOnBlock(u))
<1>1. PICK C : C = OBCT_CYCLES_PER_SEC
  OBVIOUS
<1>2. /\ C \in Nat /\ C >= 10 /\ Sec(1) = C /\ Sec(2) = 2 * C /\ Sec(4) = 4 * C /\ Sec(6) = 6 * C
      /\ Sec(8) = 8 * C
  BY <1>1, MoreTimes
<1>3. CASE u \in Wheel
  <2> DEFINE gs == RwGroups(u) \o <<HwOc>>
  <2>1. u \in Unit /\ u \in Monitored
    BY <1>3, UnitsOfBlocks
  <2>2. RwGroups(u) \in Seq(GroupsFor(u)) /\ Len(RwGroups(u)) = 3
    BY <1>3, UnitGroups
  <2>3. /\ gs \in Seq(GroupsFor(u)) /\ Len(gs) = 4 /\ Elements(RwGroups(u)) \subseteq Elements(gs)
    <3>1. /\ gs \in Seq(GroupsFor(u)) /\ Len(gs) = Len(RwGroups(u)) + 1
          /\ Elements(RwGroups(u)) \subseteq Elements(gs)
      BY <2>1, <2>2, UnitGroups
    <3> QED
      BY <2>2, <3>1
  <2>4. /\ RwRules(u) \in Seq(RulesFor(u)) /\ Len(RwRules(u)) = 6
        /\ RulesOf(u) = Elements(RwRules(u)) /\ GroupsOf(u) = Elements(RwGroups(u))
    BY <1>3, UnitRules, RulesAndGroups
  <2>5. OnTime(u) = C + 2 /\ OnSpan(u) = 6 * C + 11
    BY <1>2, <1>3 DEF OnTime, OnSpan, Wheel
  <2>6. /\ Sec(6) + 2 \in Int /\ Sec(6) + 2 > OnTime(u) /\ Sec(1) + 2 = OnTime(u)
        /\ Sec(6) + 2 + (Len(gs) + Len(RwRules(u))) - 1 <= OnSpan(u)
    BY <1>2, <2>3, <2>4, <2>5
  <2>7. Within(From(1, <<Protect(u), DisableLogging(HwOc)>>), OnEntries(u))
    <3>1. 1 \in Int /\ 1 >= 1
      OBVIOUS
    <3> QED
      BY <2>1, <3>1, MaskParts
  <2>8. GroupsOf(u) \ {HwOc} \subseteq Elements(gs)
    BY <2>3, <2>4
  <2> HIDE DEF gs
  <2>9. OnGood(u, (From(1, <<Protect(u), DisableLogging(HwOc)>>) \o From(Sec(1) + 2, <<PowerOn(u)>>))
                      \o From(Sec(6) + 2, EnableAll(gs) \o ActivateAll(RwRules(u))))
    BY <2>3, <2>4, <2>6, <2>7, <2>8, PlainOn
  <2>10. PowerOnBlock(u) = PowerOnRw(u)
    BY <1>3 DEF PowerOnBlock, Wheel
  <2> QED
    BY <2>9, <2>10 DEF PowerOnRw, gs
<1>4. CASE u = "RM3100"
  <2> DEFINE gs == Rm3100Groups \o <<HwOc>>
  <2>1. u \in Unit /\ u \in Monitored
    BY <1>4, UnitsOfBlocks
  <2>2. Rm3100Groups \in Seq(GroupsFor(u)) /\ Len(Rm3100Groups) = 2
    BY <1>4, UnitGroups
  <2>3. /\ gs \in Seq(GroupsFor(u)) /\ Len(gs) = 3 /\ Elements(Rm3100Groups) \subseteq Elements(gs)
    <3>1. /\ gs \in Seq(GroupsFor(u)) /\ Len(gs) = Len(Rm3100Groups) + 1
          /\ Elements(Rm3100Groups) \subseteq Elements(gs)
      BY <2>1, <2>2, UnitGroups
    <3> QED
      BY <2>2, <3>1
  <2>4. /\ Rm3100Rules \in Seq(RulesFor(u)) /\ Len(Rm3100Rules) = 8
        /\ RulesOf(u) = Elements(Rm3100Rules) /\ GroupsOf(u) = Elements(Rm3100Groups)
    BY <1>4, UnitRules, RulesAndGroups
  <2>5. OnTime(u) = 2 * C + 1 /\ OnSpan(u) = 8 * C + 11
    BY <1>2, <1>4 DEF OnTime, OnSpan, Wheel
  <2>6. /\ Sec(8) + 1 \in Int /\ Sec(8) + 1 > OnTime(u) /\ Sec(2) + 1 = OnTime(u)
        /\ Sec(8) + 1 + (Len(gs) + Len(Rm3100Rules)) - 1 <= OnSpan(u)
    BY <1>2, <2>3, <2>4, <2>5
  <2>7. Within(From(Sec(1), <<Protect(u), DisableLogging(HwOc)>>), OnEntries(u))
    <3>1. Sec(1) \in Int /\ Sec(1) >= 1
      BY <1>2
    <3> QED
      BY <2>1, <3>1, MaskParts
  <2>8. GroupsOf(u) \ {HwOc} \subseteq Elements(gs)
    BY <2>3, <2>4
  <2> HIDE DEF gs
  <2>9. OnGood(u, (From(Sec(1), <<Protect(u), DisableLogging(HwOc)>>)
                       \o From(Sec(2) + 1, <<PowerOn(u)>>))
                      \o From(Sec(8) + 1, EnableAll(gs) \o ActivateAll(Rm3100Rules)))
    BY <2>3, <2>4, <2>6, <2>7, <2>8, PlainOn
  <2>10. PowerOnBlock(u) = PowerOnRm3100
    BY <1>4 DEF PowerOnBlock, Wheel
  <2> QED
    BY <1>4, <2>9, <2>10 DEF PowerOnRm3100, gs
<1>5. CASE u = "MPU9250"
  <2> DEFINE gs == Mpu9250Groups \o <<HwOc>>
             rs == <<TlmError(u)>>
  <2>1. u \in Unit /\ "RM3100" \in Monitored
    BY <1>5, UnitsOfBlocks
  <2>2. Mpu9250Groups \in Seq(GroupsFor(u)) /\ Len(Mpu9250Groups) = 2
    BY <1>5, UnitGroups
  <2>3. /\ gs \in Seq(GroupsFor(u)) /\ Len(gs) = 3 /\ Elements(Mpu9250Groups) \subseteq Elements(gs)
    <3>1. /\ gs \in Seq(GroupsFor(u)) /\ Len(gs) = Len(Mpu9250Groups) + 1
          /\ Elements(Mpu9250Groups) \subseteq Elements(gs)
      BY <2>1, <2>2, UnitGroups
    <3> QED
      BY <2>2, <3>1
  <2>4. /\ rs \in Seq(RulesFor(u)) /\ Len(rs) = 1
        /\ RulesOf(u) = Elements(rs) /\ GroupsOf(u) = Elements(Mpu9250Groups)
    BY <1>5, UnitRules, RulesAndGroups
  <2>5. OnTime(u) = 2 * C /\ OnSpan(u) = 6 * C + 3
    BY <1>2, <1>5 DEF OnTime, OnSpan, Wheel
  <2>6. /\ Sec(6) \in Int /\ Sec(6) > OnTime(u) /\ Sec(2) = OnTime(u)
        /\ Sec(6) + (Len(gs) + Len(rs)) - 1 <= OnSpan(u)
    BY <1>2, <2>3, <2>4, <2>5
  <2>7. Within(From(Sec(1), <<DisableLogging(HwOc)>>), OnEntries(u))
    <3>1. Sec(1) \in Int /\ Sec(1) >= 1
      BY <1>2
    <3> QED
      BY <2>1, <3>1, MaskParts
  <2>8. GroupsOf(u) \ {HwOc} \subseteq Elements(gs)
    BY <2>3, <2>4
  <2>9. <<ActivateRule(TlmError(u))>> = ActivateAll(rs)
    BY DEF ActivateAll
  <2> HIDE DEF gs, rs
  <2>10. OnGood(u, (From(Sec(1), <<DisableLogging(HwOc)>>) \o From(Sec(2), <<PowerOn(u)>>))
                       \o From(Sec(6), EnableAll(gs) \o ActivateAll(rs)))
    BY <2>3, <2>4, <2>6, <2>7, <2>8, PlainOn
  <2>11. PowerOnBlock(u) = PowerOnMpu9250
    BY <1>5 DEF PowerOnBlock, Wheel
  <2> QED
    BY <1>5, <2>9, <2>10, <2>11 DEF PowerOnMpu9250, gs
<1>6. CASE u = "MTQ"
  <2> DEFINE gs == <<HwOc>>
  <2>1. u \in Unit /\ u \in Monitored
    BY <1>6, UnitsOfBlocks
  <2>2. gs \in Seq(GroupsFor(u)) /\ Len(gs) = 1
    <3>1. HwOc \in GroupsFor(u)
      BY <2>1, UnitGroups
    <3> QED
      BY <3>1, Lists
  <2>3. /\ OcRules(u) \in Seq(RulesFor(u)) /\ Len(OcRules(u)) = 4
        /\ RulesOf(u) = Elements(OcRules(u)) /\ GroupsOf(u) = {}
    BY <1>6, <2>1, UnitRules, RulesAndGroups
  <2>5. OnTime(u) = C + 2 /\ OnSpan(u) = 4 * C + 6
    BY <1>2, <1>6 DEF OnTime, OnSpan, Wheel
  <2>6. /\ Sec(4) + 2 \in Int /\ Sec(4) + 2 > OnTime(u) /\ Sec(1) + 2 = OnTime(u)
        /\ Sec(4) + 2 + (Len(gs) + Len(OcRules(u))) - 1 <= OnSpan(u)
    BY <1>2, <2>2, <2>3, <2>5
  <2>7. Within(From(1, <<Protect(u), DisableLogging(HwOc)>>), OnEntries(u))
    <3>1. 1 \in Int /\ 1 >= 1
      OBVIOUS
    <3> QED
      BY <2>1, <3>1, MaskParts
  <2>8. GroupsOf(u) \ {HwOc} \subseteq Elements(gs)
    BY <2>3
  <2>9. <<EnableLogging(HwOc)>> = EnableAll(gs)
    BY DEF EnableAll
  <2> HIDE DEF gs
  <2>10. OnGood(u, (From(1, <<Protect(u), DisableLogging(HwOc)>>)
                        \o From(Sec(1) + 2, <<PowerOn(u)>>))
                       \o From(Sec(4) + 2, EnableAll(gs) \o ActivateAll(OcRules(u))))
    BY <2>2, <2>3, <2>6, <2>7, <2>8, PlainOn
  <2>11. PowerOnBlock(u) = PowerOnMtq
    BY <1>6 DEF PowerOnBlock, Wheel
  <2> QED
    BY <1>6, <2>9, <2>10, <2>11 DEF PowerOnMtq
<1> QED
  BY <1>3, <1>4, <1>5, <1>6, UnitCases, UnitsOfBlocks

LEMMA NanossocOn == OnGood("NANOSSOC_D60", PowerOnNanossocD60)
<1>1. PICK C : C = OBCT_CYCLES_PER_SEC
  OBVIOUS
<1>2. PICK u : u = "NANOSSOC_D60"
  OBVIOUS
<1>3. /\ C \in Nat /\ C >= 10 /\ LongestDelay \in Nat
      /\ Sec(1) = C /\ Sec(2) = 2 * C /\ Sec(3) = 3 * C /\ Sec(5) = 5 * C
  BY <1>1, MoreTimes
<1>4. u \in Biasing /\ u \in Unit /\ u \in Monitored
  BY <1>2, UnitsOfBlocks
<1>5. /\ OnTime(u) = 2 * C + 1 /\ CoreSpan(u) = 5 * C + 7 /\ Gap(u) = 3 * C
      /\ OnSpan(u) = 5 * C + LongestDelay + 19
  BY <1>2, <1>3, <1>4 DEF OnTime, CoreSpan, OnSpan, Gap, Wheel
<1> DEFINE gs == SunSensorGroups \o <<HwOc>>
           t == Sec(5) + 1
           biases == BiasBoth(u, 1)
           enable == EnableAll(gs)
           activate == <<Activate(u)>>
           mask == From(Sec(1), <<Protect(u), DisableLogging(HwOc)>>)
           s == mask \o From(Sec(2) + 1, <<PowerOn(u)>>)
<1>6. /\ gs \in Seq(GroupsFor(u)) /\ Len(gs) = 4 /\ GroupsOf(u) \subseteq Elements(gs)
  <2>1. SunSensorGroups \in Seq(GroupsFor(u)) /\ Len(SunSensorGroups) = 3
    BY <1>2, UnitGroups
  <2>2. /\ gs \in Seq(GroupsFor(u)) /\ Len(gs) = Len(SunSensorGroups) + 1
        /\ Elements(SunSensorGroups) \subseteq Elements(gs)
    BY <1>4, <2>1, UnitGroups
  <2> QED
    BY <1>2, <2>1, <2>2, RulesAndGroups
<1> HIDE DEF gs
<1>7. /\ enable \in Seq(Raises(u)) /\ Len(enable) = 4
      /\ \A g \in Elements(gs) : EnableLogging(g) \in Elements(enable)
  BY <1>4, <1>6, AllCommands
<1>8. /\ biases \in Seq(Command) /\ Len(biases) = 2
      /\ activate \in Seq(Command) /\ Len(activate) = 1 /\ enable \in Seq(Command)
  <2>1. /\ AddBias("ON_AOBC", u, 1) \in Command /\ AddBias("EXTERNAL", u, 1) \in Command
        /\ Activate(u) \in Command
    BY <1>4, CommandType DEF Mag, Activate, BlockId
  <2>2. \A A, B : A \subseteq B => Seq(A) \subseteq Seq(B)
    OBVIOUS
  <2>3. Raises(u) \subseteq Command
    BY DEF Raises
  <2> QED
    BY <1>7, <2>1, <2>2, <2>3, Lists DEF BiasBoth
<1>9. OnStart(u, s)
  <2>1. Sec(1) \in Int /\ Sec(1) >= 1 /\ Sec(2) + 1 = OnTime(u)
    BY <1>3, <1>5
  <2>2. Within(mask, OnEntries(u))
    BY <1>4, <2>1, MaskParts
  <2> HIDE DEF mask
  <2> QED
    BY <1>4, <2>1, <2>2, StartOn
<1>10. /\ t \in Int /\ t + 2 \in Int /\ t + 6 \in Int
       /\ t > OnTime(u) /\ t + 1 <= CoreSpan(u)
       /\ t + 2 > OnTime(u) /\ t + 2 + 4 - 1 <= OnSpan(u) /\ t + 2 >= OnTime(u) + Gap(u)
       /\ t + 6 >= OnTime(u) + Gap(u) /\ t + 6 + LongestDelay + 12 <= OnSpan(u)
  BY <1>3, <1>5
<1> HIDE DEF t
<1>11. Within(From(t, biases), OnEntries(u))
  BY <1>4, <1>10, BiasPart
<1>12. /\ Within(From(t + 2, enable), OnEntries(u))
       /\ \A x \in Items(u) : Raise(x) \in Elements(enable) => Watches(u, From(t + 2, enable), x)
  <2>1. t + 2 + Len(enable) - 1 <= OnSpan(u)
    BY <1>7, <1>10
  <2> HIDE DEF enable
  <2> QED
    BY <1>4, <1>7, <1>10, <2>1, RaisePart
<1>13. /\ Within(From(t + 6, activate), OnEntries(u))
       /\ \A x \in Items(u) : RuleItem(x) => Watches(u, From(t + 6, activate), x)
  <2>1. Activate(u) \in Command
    BY <1>4, CommandType DEF Activate, BlockId
  <2>2. /\ From(t + 6, activate) \in Seq(Entry)
        /\ Elements(From(t + 6, activate)) = {<<t + 6, Activate(u)>>}
    BY <1>10, <2>1, FromOneOrTwo
  <2>3. /\ <<t + 6, Activate(u)>> \in OnEntries(u)
        /\ \A p : \A x \in Items(u) :
               <<t + 6, Activate(u)>> \in Elements(p) /\ RuleItem(x) => Watches(u, p, x)
    BY <1>4, <1>10, ActivatePart
  <2> QED
    BY <2>2, <2>3 DEF Within
<1>14. From(t, (biases \o enable) \o activate) =
           (From(t, biases) \o From(t + 2, enable)) \o From(t + 6, activate)
  <2> HIDE DEF biases, enable, activate
  <2>1. From(t, biases \o enable) = From(t, biases) \o From(t + Len(biases), enable)
    BY <1>8, <1>10, FromConcat
  <2>2. biases \o enable \in Seq(Command) /\ Len(biases \o enable) = 6
    <3>1. /\ biases \o enable \in Seq(Command)
          /\ Len(biases \o enable) = Len(biases) + Len(enable)
      BY <1>8, Joined
    <3> QED
      BY <1>7, <1>8, <3>1
  <2>3. From(t, (biases \o enable) \o activate) =
            From(t, biases \o enable) \o From(t + Len(biases \o enable), activate)
    BY <1>8, <1>10, <2>2, FromConcat
  <2> QED
    BY <1>8, <2>1, <2>2, <2>3
<1> DEFINE f == From(t, biases)
           g == From(t + 2, enable)
           h == From(t + 6, activate)
<1>15. \A x \in Items(u) : Watches(u, g, x) \/ Watches(u, h, x)
  <2> SUFFICES ASSUME NEW x \in Items(u), ~RuleItem(x)
               PROVE  Watches(u, g, x)
    BY <1>13
  <2>1. x[2] \in GroupsOf(u) /\ Raise(x) = EnableLogging(x[2])
    BY DEF Items, RuleItem, Raise
  <2>2. Raise(x) \in Elements(enable)
    BY <1>6, <1>7, <2>1
  <2> QED
    BY <1>12, <2>2
<1> HIDE DEF f, g, h, s
<1>16. Within(f \o g, OnEntries(u)) /\ Within((f \o g) \o h, OnEntries(u))
  <2>1. Within(f, OnEntries(u)) /\ Within(g, OnEntries(u)) /\ Within(h, OnEntries(u))
    BY <1>11, <1>12, <1>13 DEF f, g, h
  <2>2. Within(f \o g, OnEntries(u))
    BY <2>1, JoinWithin
  <2> QED
    BY <2>1, <2>2, JoinWithin
<1>17. Elements((f \o g) \o h) = Elements(f) \cup Elements(g) \cup Elements(h)
  <2>1. /\ f \in Seq(Entry) /\ g \in Seq(Entry) /\ h \in Seq(Entry) /\ f \o g \in Seq(Entry)
    BY <1>11, <1>12, <1>13, <1>16 DEF f, g, h, Within
  <2> QED
    BY <2>1, JoinElements
<1>18. \A x \in Items(u) : Watches(u, (f \o g) \o h, x)
  BY <1>15, <1>17 DEF Watches
<1> DEFINE p == (f \o g) \o h
<1>19. Within(p, OnEntries(u)) /\ \A x \in Items(u) : Watches(u, p, x)
  BY <1>16, <1>18
<1> HIDE DEF p
<1>20. OnGood(u, s \o p)
  BY <1>4, <1>9, <1>19, ContinueOn
<1>21. PowerOnNanossocD60 = s \o From(t, (biases \o enable) \o activate)
  BY <1>2 DEF PowerOnNanossocD60, s, t, gs, Activate
<1> QED
  BY <1>2, <1>14, <1>20, <1>21 DEF p, f, g, h

\* The units that are watched by the block that their own block deploys last.
LEMMA LateOn ==
    ASSUME NEW u \in {"OEM7600", "SAGITTA", "STIM210"}, NEW s, OnStart(u, s),
           NEW p, Within(p, OnEntries(u)), NEW t \in Int,
           <<t, Activate(u)>> \in Elements(p),
           t >= OnTime(u) + Gap(u), t + LongestDelay + 12 <= OnSpan(u)
    PROVE  OnGood(u, s \o p)
<1>1. u \in Biasing /\ u \in Unit
  BY UnitsOfBlocks
<1>2. \A x \in Items(u) : Watches(u, p, x)
  BY <1>1, ActivatePart
<1> QED
  BY <1>1, <1>2, ContinueOn

LEMMA Oem7600On == OnGood("OEM7600", PowerOnOem7600)
<1>1. PICK C : C = OBCT_CYCLES_PER_SEC
  OBVIOUS
<1>2. PICK u : u = "OEM7600"
  OBVIOUS
<1>3. /\ C \in Nat /\ C >= 10 /\ LongestDelay \in Nat
      /\ Sec(1) = C /\ Sec(3) = 3 * C /\ Sec(15) = 15 * C
  BY <1>1, MoreTimes
<1>4. u \in Biasing /\ u \in Unit /\ u \in Monitored
  BY <1>2, UnitsOfBlocks
<1>5. /\ OnTime(u) = C + 2 /\ CoreSpan(u) = 15 * C + 4 /\ Gap(u) = 3 * C
      /\ OnSpan(u) = 15 * C + LongestDelay + 16
  BY <1>2, <1>3, <1>4 DEF OnTime, CoreSpan, OnSpan, Gap, Wheel
<1> DEFINE t == Sec(15) + 2
           biases == BiasBoth(u, 1)
           activate == <<Activate(u)>>
           mask == From(1, <<Protect(u), DisableLogging(HwOc)>>)
           s == mask \o From(Sec(1) + 2, <<PowerOn(u)>>)
<1>6. /\ biases \in Seq(Command) /\ Len(biases) = 2 /\ activate \in Seq(Command)
      /\ Activate(u) \in Command
  <2>1. /\ AddBias("ON_AOBC", u, 1) \in Command /\ AddBias("EXTERNAL", u, 1) \in Command
        /\ Activate(u) \in Command
    BY <1>4, CommandType DEF Mag, Activate, BlockId
  <2> QED
    BY <2>1, Lists DEF BiasBoth
<1>7. OnStart(u, s)
  <2>1. 1 \in Int /\ 1 >= 1 /\ Sec(1) + 2 = OnTime(u)
    BY <1>3, <1>5
  <2>2. Within(mask, OnEntries(u))
    BY <1>4, <2>1, MaskParts
  <2> HIDE DEF mask
  <2> QED
    BY <1>4, <2>1, <2>2, StartOn
<1>8. /\ t \in Int /\ t + 2 \in Int /\ t > OnTime(u) /\ t + 1 <= CoreSpan(u)
      /\ t + 2 >= OnTime(u) + Gap(u) /\ t + 2 + LongestDelay + 12 <= OnSpan(u)
  BY <1>3, <1>5
<1> HIDE DEF t
<1>9. Within(From(t, biases), OnEntries(u))
  BY <1>4, <1>8, BiasPart
<1>10. /\ Within(From(t + 2, activate), OnEntries(u))
       /\ <<t + 2, Activate(u)>> \in Elements(From(t + 2, activate))
  <2>1. /\ From(t + 2, activate) \in Seq(Entry)
        /\ Elements(From(t + 2, activate)) = {<<t + 2, Activate(u)>>}
    BY <1>6, <1>8, FromOneOrTwo
  <2>2. <<t + 2, Activate(u)>> \in OnEntries(u)
    BY <1>4, <1>8, ActivatePart
  <2> QED
    BY <2>1, <2>2 DEF Within
<1>11. From(t, biases \o activate) = From(t, biases) \o From(t + 2, activate)
  <2> HIDE DEF biases, activate
  <2>1. From(t, biases \o activate) = From(t, biases) \o From(t + Len(biases), activate)
    BY <1>6, <1>8, FromConcat
  <2> QED
    BY <1>6, <2>1
<1> DEFINE f == From(t, biases)
           g == From(t + 2, activate)
           p == f \o g
<1> HIDE DEF f, g, s
<1>12. Within(p, OnEntries(u))
  BY <1>9, <1>10, JoinWithin DEF f, g
<1>13. <<t + 2, Activate(u)>> \in Elements(p)
  <2>1. f \in Seq(Entry) /\ g \in Seq(Entry)
    BY <1>9, <1>10 DEF f, g, Within
  <2>2. Elements(f \o g) = Elements(f) \cup Elements(g)
    BY <2>1, JoinElements
  <2> QED
    BY <1>10, <2>2 DEF g
<1> HIDE DEF p
<1>14. OnGood(u, s \o p)
  BY <1>2, <1>7, <1>8, <1>12, <1>13, LateOn
<1>15. PowerOnOem7600 = s \o From(t, biases \o activate)
  BY <1>2 DEF PowerOnOem7600, s, t, Activate
<1> QED
  BY <1>2, <1>11, <1>14, <1>15 DEF p, f, g

LEMMA SagittaOn == OnGood("SAGITTA", PowerOnSagitta)
<1>1. PICK C : C = OBCT_CYCLES_PER_SEC
  OBVIOUS
<1>2. PICK u : u = "SAGITTA"
  OBVIOUS
<1>3. /\ C \in Nat /\ C >= 10 /\ LongestDelay \in Nat
      /\ Sec(1) = C /\ Sec(2) = 2 * C /\ Sec(3) = 3 * C /\ Sec(6) = 6 * C /\ Sec(41) = 41 * C
  BY <1>1, MoreTimes
<1>4. u \in Biasing /\ u \in Unit /\ u \in Monitored
  BY <1>2, UnitsOfBlocks
<1>5. /\ OnTime(u) = 2 * C + 1 /\ CoreSpan(u) = 6 * C + 2 /\ Gap(u) = 3 * C
      /\ OnSpan(u) = 41 * C + LongestDelay + 15
  BY <1>2, <1>3, <1>4 DEF OnTime, CoreSpan, OnSpan, Gap, Wheel
<1> DEFINE t == Sec(41) + 3
           biases == From(Sec(6) + 1, BiasBoth(u, 1))
           mask == From(Sec(1), <<DisableLogging(HwOc), Protect(u)>>)
           s == mask \o From(Sec(2) + 1, <<PowerOn(u)>>)
           p == << <<t, Protect(u)>>, <<t, Activate(u)>> >>
<1>6. OnStart(u, s)
  <2>1. Sec(1) \in Int /\ Sec(1) >= 1 /\ Sec(2) + 1 = OnTime(u)
    BY <1>3, <1>5
  <2>2. Within(mask, OnEntries(u))
    BY <1>4, <2>1, MaskParts
  <2> HIDE DEF mask
  <2> QED
    BY <1>4, <2>1, <2>2, StartOn
<1>7. Within(biases, OnEntries(u))
  <2>1. /\ Sec(6) + 1 \in Int /\ Sec(6) + 1 > OnTime(u) /\ Sec(6) + 1 + 1 <= CoreSpan(u)
    BY <1>3, <1>5
  <2> QED
    BY <1>4, <2>1, BiasPart
<1> HIDE DEF s, biases
<1>8. OnStart(u, s \o biases)
  BY <1>4, <1>6, <1>7, ContinueOn
<1>9. /\ t \in Int /\ t >= 1 /\ t >= OnTime(u) + Gap(u) /\ t + LongestDelay + 12 <= OnSpan(u)
  BY <1>3, <1>5
<1> HIDE DEF t
<1>10. Within(p, OnEntries(u)) /\ <<t, Activate(u)>> \in Elements(p)
  <2>1. <<t, Activate(u)>> \in OnEntries(u)
    BY <1>4, <1>9, ActivatePart
  <2>2. <<t, Protect(u)>> \in OnEntries(u)
    BY <1>4, <1>9, OnPoints, NeutralCommands
  <2>3. OnEntries(u) \subseteq Entry
    BY DEF OnEntries
  <2>4. \A x, y : Elements(<<x, y>>) = {x, y}
    BY DEF Elements
  <2>5. p \in Seq(Entry)
    BY <2>1, <2>2, <2>3, Lists
  <2> QED
    BY <2>1, <2>2, <2>4, <2>5 DEF Within
<1> HIDE DEF p
<1>11. OnGood(u, (s \o biases) \o p)
  BY <1>2, <1>8, <1>9, <1>10, LateOn
<1>12. PowerOnSagitta = (s \o biases) \o p
  BY <1>2 DEF PowerOnSagitta, s, t, p, biases, Activate
<1> QED
  BY <1>2, <1>11, <1>12

LEMMA Stim210On ==
    /\ OnGood("STIM210", PowerOnStim210)
    /\ Has(Elements(PowerOnStim210), SelectGyro("STIM210"))
<1>1. PICK C : C = OBCT_CYCLES_PER_SEC
  OBVIOUS
<1>2. PICK u : u = "STIM210"
  OBVIOUS
<1>3. /\ C \in Nat /\ C >= 10 /\ LongestDelay \in Nat
      /\ Sec(1) = C /\ Sec(3) = 3 * C /\ Sec(11) = 11 * C /\ Sec(12) = 12 * C
  BY <1>1, MoreTimes
<1>4. u \in Biasing /\ u \in Unit /\ u \in Monitored
  BY <1>2, UnitsOfBlocks
<1>5. /\ OnTime(u) = C + 2 /\ CoreSpan(u) = 11 * C + 4 /\ Gap(u) = 3 * C
      /\ OnSpan(u) = 12 * C + LongestDelay + 17
  BY <1>2, <1>3, <1>4 DEF OnTime, CoreSpan, OnSpan, Gap, Wheel
<1> DEFINE t == Sec(12) + 4
           biases == From(Sec(3) + 2, BiasBoth(u, 1))
           mask == From(1, <<Protect(u), DisableLogging(HwOc)>>)
           s == mask \o From(Sec(1) + 2, <<PowerOn(u)>>)
           select == From(Sec(11) + 4, <<SelectGyro(u)>>)
           p == From(t, <<Activate(u), Protect(u)>>)
<1>6. OnStart(u, s)
  <2>1. 1 \in Int /\ 1 >= 1 /\ Sec(1) + 2 = OnTime(u)
    BY <1>3, <1>5
  <2>2. Within(mask, OnEntries(u))
    BY <1>4, <2>1, MaskParts
  <2> HIDE DEF mask
  <2> QED
    BY <1>4, <2>1, <2>2, StartOn
<1>7. Within(biases, OnEntries(u))
  <2>1. Sec(3) + 2 \in Int /\ Sec(3) + 2 > OnTime(u) /\ Sec(3) + 2 + 1 <= CoreSpan(u)
    BY <1>3, <1>5
  <2> QED
    BY <1>4, <2>1, BiasPart
<1>8. /\ Within(select, OnEntries(u))
      /\ Elements(select) = {<<Sec(11) + 4, SelectGyro(u)>>}
  <2>1. /\ Sec(11) + 4 \in Int /\ Sec(11) + 4 >= 1 /\ Sec(11) + 4 > OnTime(u)
        /\ Sec(11) + 4 <= CoreSpan(u)
    BY <1>3, <1>5
  <2>2. SelectGyro(u) \in Command
    BY <1>2, CommandType
  <2>3. select \in Seq(Entry) /\ Elements(select) = {<<Sec(11) + 4, SelectGyro(u)>>}
    BY <2>1, <2>2, FromOneOrTwo
  <2>4. <<Sec(11) + 4, SelectGyro(u)>> \in OnEntries(u)
    BY <1>2, <1>4, <2>1, OnPoints
  <2> QED
    BY <2>3, <2>4 DEF Within
<1> HIDE DEF s, biases, select
<1>9. OnStart(u, s \o biases)
  BY <1>4, <1>6, <1>7, ContinueOn
<1> DEFINE sb == s \o biases
<1> HIDE DEF sb
<1>10. OnStart(u, sb \o select)
  BY <1>4, <1>8, <1>9, ContinueOn DEF sb
<1>11. /\ t \in Int /\ t >= 1 /\ t + 1 \in Int /\ t + 1 >= 1
       /\ t >= OnTime(u) + Gap(u) /\ t + LongestDelay + 12 <= OnSpan(u)
  BY <1>3, <1>5
<1> HIDE DEF t
<1>12. Within(p, OnEntries(u)) /\ <<t, Activate(u)>> \in Elements(p)
  <2>1. <<t, Activate(u)>> \in OnEntries(u)
    BY <1>4, <1>11, ActivatePart
  <2>2. <<t + 1, Protect(u)>> \in OnEntries(u)
    BY <1>4, <1>11, OnPoints, NeutralCommands
  <2>3. Activate(u) \in Command /\ Protect(u) \in Command
    BY <1>4, CommandType DEF Activate, BlockId
  <2>4. p \in Seq(Entry) /\ Elements(p) = {<<t, Activate(u)>>, <<t + 1, Protect(u)>>}
    BY <1>11, <2>3, FromOneOrTwo
  <2> QED
    BY <2>1, <2>2, <2>4 DEF Within
<1> HIDE DEF p
<1> DEFINE q == sb \o select
<1> HIDE DEF q
<1>13. OnGood(u, q \o p)
  BY <1>2, <1>10, <1>11, <1>12, LateOn DEF q
<1>14. PowerOnStim210 = q \o p
  BY <1>2 DEF PowerOnStim210, q, sb, s, select, t, p, biases, Activate
<1>15. Has(Elements(q \o p), SelectGyro(u))
  <2>1. sb \in Seq(Entry) /\ select \in Seq(Entry) /\ q \in Seq(Entry) /\ p \in Seq(Entry)
    BY <1>8, <1>9, <1>10, <1>12 DEF sb, q, OnStart, Within
  <2>2. /\ Elements(q \o p) = Elements(q) \cup Elements(p)
        /\ Elements(sb \o select) = Elements(sb) \cup Elements(select)
    BY <2>1, JoinElements
  <2>3. <<Sec(11) + 4, SelectGyro(u)>> \in Elements(q \o p)
    BY <1>8, <2>2 DEF q
  <2>4. <<Sec(11) + 4, SelectGyro(u)>>[2] = SelectGyro(u)
    OBVIOUS
  <2> QED
    BY <2>3, <2>4 DEF Has
<1> QED
  BY <1>2, <1>13, <1>14, <1>15

LEMMA Ina260On == OnGood("INA260", PowerOnIna260)
<1>1. PICK C : C = OBCT_CYCLES_PER_SEC
  OBVIOUS
<1>2. PICK u : u = "INA260"
  OBVIOUS
<1>3. C \in Nat /\ C >= 10 /\ LongestDelay \in Nat /\ Sec(1) = C
  BY <1>1, MoreTimes
<1>4. u \in Unit /\ u \notin Biasing
  BY <1>2, UnitsOfBlocks
<1>5. OnTime(u) = 1 /\ Gap(u) = 1 /\ OnSpan(u) = C + LongestDelay + 27
  BY <1>2, <1>3, <1>4 DEF OnTime, OnSpan, Gap, Wheel
<1> DEFINE t == Sec(1) + 1
           first == <<InitSensor("PIC")>>
           inits == [i \in DOMAIN INA260_IDX |-> InitSensor(INA260_IDX[i])]
           enable == EnableAll(Ina260Groups)
           activate == <<Activate(u)>>
           on == From(1, <<PowerOn(u)>>)
<1>6. /\ Ina260Groups \in Seq(GroupsFor(u)) /\ Len(Ina260Groups) = 3
      /\ GroupsOf(u) = Elements(Ina260Groups)
  BY <1>2, UnitGroups, RulesAndGroups
<1>7. /\ enable \in Seq(Raises(u)) /\ Len(enable) = 3
      /\ \A g \in Elements(Ina260Groups) : EnableLogging(g) \in Elements(enable)
  BY <1>4, <1>6, AllCommands
<1>8. /\ first \in Seq(Neutral) /\ Len(first) = 1 /\ inits \in Seq(Neutral) /\ Len(inits) = 10
      /\ activate \in Seq(Command) /\ enable \in Seq(Command) /\ Activate(u) \in Command
  <2>1. Activate(u) \in Command
    BY <1>2, CommandType DEF Activate, BlockId
  <2>2. \A A, B : A \subseteq B => Seq(A) \subseteq Seq(B)
    OBVIOUS
  <2>3. Raises(u) \subseteq Command
    BY DEF Raises
  <2>4. InitSensor("PIC") \in Neutral
    BY NeutralCommands
  <2>5. DOMAIN INA260_IDX = 1..10 /\ \A i \in 1..10 : INA260_IDX[i] \in Monitored \cup {"PIC"}
    BY DEF INA260_IDX, Monitored, Unit, Wheel, Biasing
  <2>6. inits \in [1..10 -> Neutral]
    BY <2>5, NeutralCommands
  <2>7. ASSUME NEW S, NEW n \in Nat, NEW f \in [1..n -> S]
        PROVE  f \in Seq(S) /\ Len(f) = n
    OBVIOUS
  <2>8. inits \in Seq(Neutral) /\ Len(inits) = 10
    BY <2>6, <2>7
  <2> HIDE DEF inits
  <2>9. enable \in Seq(Command)
    BY <1>7, <2>2, <2>3
  <2> QED
    BY <2>1, <2>4, <2>8, <2>9, Lists
<1>9. OnStart(u, on)
  <2>1. 1 \in Int /\ 1 >= 1 /\ PowerOn(u) \in Command
    BY <1>4, CommandType
  <2>2. on \in Seq(Entry) /\ Elements(on) = {<<1, PowerOn(u)>>}
    BY <2>1, FromOneOrTwo
  <2>3. <<1, PowerOn(u)>> \in OnEntries(u)
    BY <1>4, <1>5, <2>1, OnPoints
  <2> QED
    BY <1>5, <2>2, <2>3 DEF OnStart, Within
<1>10. /\ t \in Int /\ t + 11 \in Int /\ t + 14 \in Int /\ t >= 1
       /\ t + 11 > OnTime(u) /\ t + 11 + 3 - 1 <= OnSpan(u) /\ t + 11 >= OnTime(u) + Gap(u)
       /\ t + 14 >= OnTime(u) + Gap(u) /\ t + 14 + LongestDelay + 12 <= OnSpan(u)
  BY <1>3, <1>5
<1> HIDE DEF t, first, inits, enable, on
<1> DEFINE start == first \o inits
<1>11. start \in Seq(Neutral) /\ Len(start) = 11 /\ start \in Seq(Command)
  <2>1. start \in Seq(Neutral) /\ Len(start) = Len(first) + Len(inits)
    BY <1>8, Joined
  <2>2. \A A, B : A \subseteq B => Seq(A) \subseteq Seq(B)
    OBVIOUS
  <2>3. Neutral \subseteq Command
    BY DEF Neutral
  <2> QED
    BY <1>8, <2>1, <2>2, <2>3
<1> HIDE DEF start
<1>12. Within(From(t, start), OnEntries(u))
  BY <1>4, <1>10, <1>11, NeutralPart
<1>13. /\ Within(From(t + 11, enable), OnEntries(u))
       /\ \A x \in Items(u) : Raise(x) \in Elements(enable) => Watches(u, From(t + 11, enable), x)
  <2>1. t + 11 + Len(enable) - 1 <= OnSpan(u)
    BY <1>7, <1>10
  <2> QED
    BY <1>4, <1>7, <1>10, <2>1, RaisePart
<1>14. /\ Within(From(t + 14, activate), OnEntries(u))
       /\ \A x \in Items(u) : RuleItem(x) => Watches(u, From(t + 14, activate), x)
  <2>1. /\ From(t + 14, activate) \in Seq(Entry)
        /\ Elements(From(t + 14, activate)) = {<<t + 14, Activate(u)>>}
    BY <1>8, <1>10, FromOneOrTwo
  <2>2. /\ <<t + 14, Activate(u)>> \in OnEntries(u)
        /\ \A p : \A x \in Items(u) :
               <<t + 14, Activate(u)>> \in Elements(p) /\ RuleItem(x) => Watches(u, p, x)
    BY <1>2, <1>10, ActivatePart
  <2> QED
    BY <2>1, <2>2 DEF Within
<1>15. From(t, (start \o enable) \o activate) =
           (From(t, start) \o From(t + 11, enable)) \o From(t + 14, activate)
  <2> HIDE DEF activate
  <2>1. From(t, start \o enable) = From(t, start) \o From(t + Len(start), enable)
    BY <1>8, <1>10, <1>11, FromConcat
  <2>2. start \o enable \in Seq(Command) /\ Len(start \o enable) = 14
    <3>1. /\ start \o enable \in Seq(Command)
          /\ Len(start \o enable) = Len(start) + Len(enable)
      BY <1>8, <1>11, Joined
    <3> QED
      BY <1>7, <1>11, <3>1
  <2>3. From(t, (start \o enable) \o activate) =
            From(t, start \o enable) \o From(t + Len(start \o enable), activate)
    BY <1>8, <1>10, <2>2, FromConcat
  <2> QED
    BY <1>11, <2>1, <2>2, <2>3
<1> DEFINE f == From(t, start)
           g == From(t + 11, enable)
           h == From(t + 14, activate)
<1>16. \A x \in Items(u) : Watches(u, g, x) \/ Watches(u, h, x)
  <2> SUFFICES ASSUME NEW x \in Items(u), ~RuleItem(x)
               PROVE  Watches(u, g, x)
    BY <1>14
  <2>1. x[2] \in GroupsOf(u) /\ Raise(x) = EnableLogging(x[2])
    BY DEF Items, RuleItem, Raise
  <2>2. Raise(x) \in Elements(enable)
    BY <1>6, <1>7, <2>1
  <2> QED
    BY <1>13, <2>2
<1> HIDE DEF f, g, h
<1>17. Within(f \o g, OnEntries(u)) /\ Within((f \o g) \o h, OnEntries(u))
  <2>1. Within(f, OnEntries(u)) /\ Within(g, OnEntries(u)) /\ Within(h, OnEntries(u))
    BY <1>12, <1>13, <1>14 DEF f, g, h
  <2>2. Within(f \o g, OnEntries(u))
    BY <2>1, JoinWithin
  <2> QED
    BY <2>1, <2>2, JoinWithin
<1>18. Elements((f \o g) \o h) = Elements(f) \cup Elements(g) \cup Elements(h)
  <2>1. /\ f \in Seq(Entry) /\ g \in Seq(Entry) /\ h \in Seq(Entry) /\ f \o g \in Seq(Entry)
    BY <1>12, <1>13, <1>14, <1>17 DEF f, g, h, Within
  <2> QED
    BY <2>1, JoinElements
<1> DEFINE p == (f \o g) \o h
<1>19. Within(p, OnEntries(u)) /\ \A x \in Items(u) : Watches(u, p, x)
  BY <1>16, <1>17, <1>18 DEF Watches
<1> HIDE DEF p
<1>20. OnGood(u, on \o p)
  BY <1>4, <1>9, <1>19, ContinueOn
<1>21. PowerOnIna260 = on \o From(t, (start \o enable) \o activate)
  BY <1>2 DEF PowerOnIna260, on, t, start, first, inits, enable, Activate
<1> QED
  BY <1>2, <1>15, <1>20, <1>21 DEF p, f, g, h

\* The block that switches a unit on does so, and has it watched afterwards.
LEMMA OnBlock ==
    /\ \A u \in Unit : OnGood(u, PowerOnBlock(u))
    /\ Has(Elements(PowerOnBlock("STIM210")), SelectGyro("STIM210"))
<1>1. /\ PowerOnBlock("NANOSSOC_D60") = PowerOnNanossocD60
      /\ PowerOnBlock("OEM7600") = PowerOnOem7600
      /\ PowerOnBlock("SAGITTA") = PowerOnSagitta
      /\ PowerOnBlock("STIM210") = PowerOnStim210
      /\ PowerOnBlock("INA260") = PowerOnIna260
  BY DEF PowerOnBlock, Wheel
<1>2. \A u \in Biasing \cup {"INA260"} :
          u \in {"NANOSSOC_D60", "OEM7600", "SAGITTA", "STIM210", "INA260"}
  BY DEF Biasing
<1> QED
  BY <1>1, <1>2, PlainOnBlocks, NanossocOn, Oem7600On, SagittaOn, Stim210On, Ina260On

-----------------------------------------------------------------------------
(* The blocks that switch a unit off.                                        *)

Quiets(u, s, x) == \E f \in Elements(s) : f[2] \in Lowering(u, x)
OffGood(u, s) ==
    /\ Within(s, OffEntries(u))
    /\ <<OffTime(u), PowerOff(u)>> \in Elements(s)
    /\ \A x \in Items(u) : Quiets(u, s, x)

LEMMA LowerPart ==
    ASSUME NEW u \in Unit, NEW t \in Int, NEW cs \in Seq(Lowers(u)),
           t >= 1, t + Len(cs) - 1 < OffTime(u)
    PROVE  /\ Within(From(t, cs), OffEntries(u))
           /\ \A x \in Items(u) : Lower(x) \in Elements(cs) => Quiets(u, From(t, cs), x)
<1>1. Lowers(u) \subseteq Command /\ Len(cs) \in Nat /\ OffTime(u) \in Nat
  <2>1. Len(cs) \in Nat
    OBVIOUS
  <2> QED
    BY <2>1, OffTimes DEF Lowers
<1>2. \A k \in Int, c \in Lowers(u) : t <= k /\ k <= t + Len(cs) - 1 => <<k, c>> \in OffEntries(u)
  <2> SUFFICES ASSUME NEW k \in Int, NEW c \in Lowers(u), t <= k, k <= t + Len(cs) - 1
               PROVE  <<k, c>> \in OffEntries(u)
    OBVIOUS
  <2>1. k >= 1 /\ k < OffTime(u)
    BY <1>1
  <2> QED
    BY <2>1, OffPoints
<1>3. Within(From(t, cs), OffEntries(u))
  BY <1>1, <1>2, FromWithin
<1>4. ASSUME NEW x \in Items(u), Lower(x) \in Elements(cs)
      PROVE  Quiets(u, From(t, cs), x)
  <2>1. PICK f \in Elements(From(t, cs)) : f[1] >= t /\ f[2] = Lower(x)
    BY <1>1, <1>4, FromElements
  <2> QED
    BY <2>1 DEF Quiets, Lowering
<1> QED
  BY <1>3, <1>4

LEMMA OffPart ==
    ASSUME NEW u \in Unit, NEW t, t = OffTime(u)
    PROVE  /\ Within(From(t, <<PowerOff(u)>>), OffEntries(u))
           /\ <<OffTime(u), PowerOff(u)>> \in Elements(From(t, <<PowerOff(u)>>))
<1>1. t \in Int /\ PowerOff(u) \in Command
  BY OffTimes, CommandType
<1>2. /\ From(t, <<PowerOff(u)>>) \in Seq(Entry)
      /\ Elements(From(t, <<PowerOff(u)>>)) = {<<t, PowerOff(u)>>}
  BY <1>1, FromOneOrTwo
<1>3. <<t, PowerOff(u)>> \in OffEntries(u)
  <2>1. 1 \in Int /\ 1 >= 1
    OBVIOUS
  <2> QED
    BY <2>1, OffPoints
<1> QED
  BY <1>2, <1>3 DEF Within

LEMMA UnbiasPart ==
    ASSUME NEW u \in Biasing, NEW t \in Int, t >= 1, t + 1 <= OffSpan(u)
    PROVE  Within(From(t, BiasBoth(u, -1)), OffEntries(u))
<1>1. u \in Unit
  BY UnitsOfBlocks
<1>2. OffSpan(u) \in Nat
  BY <1>1, OffTimes
<1>3. AddBias("ON_AOBC", u, -1) \in Command /\ AddBias("EXTERNAL", u, -1) \in Command
  BY CommandType DEF Mag
<1>4. /\ From(t, BiasBoth(u, -1)) \in Seq(Entry)
      /\ Elements(From(t, BiasBoth(u, -1))) =
             {<<t, AddBias("ON_AOBC", u, -1)>>, <<t + 1, AddBias("EXTERNAL", u, -1)>>}
  BY <1>3, FromOneOrTwo DEF BiasBoth
<1>5. /\ t <= OffSpan(u) /\ t + 1 \in Int /\ t + 1 >= 1
      /\ "ON_AOBC" \in Mag /\ "EXTERNAL" \in Mag
  BY <1>2 DEF Mag
<1>6. <<t, AddBias("ON_AOBC", u, -1)>> \in OffEntries(u)
  BY <1>1, <1>5, OffPoints
<1>7. <<t + 1, AddBias("EXTERNAL", u, -1)>> \in OffEntries(u)
  BY <1>1, <1>5, OffPoints
<1> QED
  BY <1>4, <1>6, <1>7 DEF Within

\* A unit that its own block stops to watch.
LEMMA PlainOff ==
    ASSUME NEW u \in Unit, NEW cs \in Seq(Lowers(u)), \A x \in Items(u) : Lower(x) \in Elements(cs),
           NEW t \in Int, t >= 1, t + Len(cs) - 1 < OffTime(u), NEW off, off = OffTime(u)
    PROVE  OffGood(u, From(t, cs) \o From(off, <<PowerOff(u)>>))
<1> DEFINE s == From(t, cs)
           p == From(off, <<PowerOff(u)>>)
<1>1. /\ Within(s, OffEntries(u)) /\ \A x \in Items(u) : Quiets(u, s, x)
  BY LowerPart
<1>2. Within(p, OffEntries(u)) /\ <<OffTime(u), PowerOff(u)>> \in Elements(p)
  BY OffPart
<1> HIDE DEF s, p
<1>3. Within(s \o p, OffEntries(u))
  BY <1>1, <1>2, JoinWithin
<1>4. Elements(s \o p) = Elements(s) \cup Elements(p)
  BY <1>1, <1>2, JoinElements DEF Within
<1>5. OffGood(u, s \o p)
  BY <1>1, <1>2, <1>3, <1>4 DEF OffGood, Quiets
<1> QED
  BY <1>5 DEF s, p

LEMMA PlainOffBlocks ==
    ASSUME NEW u \in Unit \ Biasing
    PROVE  OffGood(u, PowerOffBlock(u))
<1>1. PICK C : C = OBCT_CYCLES_PER_SEC
  OBVIOUS
<1>2. C \in Nat /\ C >= 10 /\ Sec(1) = C /\ Sec(2) = 2 * C /\ Sec(3) = 3 * C
  BY <1>1, MoreTimes
<1>3. CASE u \in Wheel
  <2> DEFINE cs == InactivateAll(RwRules(u)) \o DisableAll(RwGroups(u))
  <2>1. /\ RwGroups(u) \in Seq(GroupsFor(u)) /\ Len(RwGroups(u)) = 3
        /\ RwRules(u) \in Seq(RulesFor(u)) /\ Len(RwRules(u)) = 6
        /\ RulesOf(u) = Elements(RwRules(u)) /\ GroupsOf(u) = Elements(RwGroups(u))
    BY <1>3, UnitGroups, UnitRules, RulesAndGroups
  <2>2. /\ cs \in Seq(Lowers(u)) /\ Len(cs) = Len(RwGroups(u)) + Len(RwRules(u))
        /\ \A x \in Items(u) : Lower(x) \in Elements(cs)
    BY <2>1, AllItems
  <2>3. OffTime(u) = 2 * C + 9
    BY <1>2, <1>3 DEF OffTime, Wheel
  <2> HIDE DEF cs
  <2>4. /\ Sec(1) \in Int /\ Sec(1) >= 1 /\ Sec(1) + Len(cs) - 1 < OffTime(u)
        /\ Sec(2) + 9 = OffTime(u)
    BY <1>2, <2>1, <2>2, <2>3
  <2>5. OffGood(u, From(Sec(1), cs) \o From(Sec(2) + 9, <<PowerOff(u)>>))
    BY <2>2, <2>4, PlainOff
  <2>6. PowerOffBlock(u) = PowerOffRw(u)
    BY <1>3 DEF PowerOffBlock, Wheel
  <2> QED
    BY <2>5, <2>6 DEF PowerOffRw, cs
<1>4. CASE u = "RM3100"
  <2> DEFINE cs == DisableAll(Rm3100Groups) \o InactivateAll(Rm3100Rules)
  <2>1. /\ Rm3100Groups \in Seq(GroupsFor(u)) /\ Len(Rm3100Groups) = 2
        /\ Rm3100Rules \in Seq(RulesFor(u)) /\ Len(Rm3100Rules) = 8
        /\ RulesOf(u) = Elements(Rm3100Rules) /\ GroupsOf(u) = Elements(Rm3100Groups)
    BY <1>4, UnitGroups, UnitRules, RulesAndGroups
  <2>2. /\ cs \in Seq(Lowers(u)) /\ Len(cs) = Len(Rm3100Groups) + Len(Rm3100Rules)
        /\ \A x \in Items(u) : Lower(x) \in Elements(cs)
    BY <2>1, AllItems
  <2>3. OffTime(u) = 2 * C + 9
    BY <1>2, <1>4 DEF OffTime, Wheel
  <2> HIDE DEF cs
  <2>4. /\ Sec(1) \in Int /\ Sec(1) >= 1 /\ Sec(1) + Len(cs) - 1 < OffTime(u)
        /\ Sec(2) + 9 = OffTime(u)
    BY <1>2, <2>1, <2>2, <2>3
  <2>5. OffGood(u, From(Sec(1), cs) \o From(Sec(2) + 9, <<PowerOff(u)>>))
    BY <2>2, <2>4, PlainOff
  <2>6. PowerOffBlock(u) = PowerOffRm3100
    BY <1>4 DEF PowerOffBlock, Wheel
  <2> QED
    BY <1>4, <2>5, <2>6 DEF PowerOffRm3100, cs
<1>5. CASE u = "MPU9250"
  <2> DEFINE rs == <<TlmError(u)>>
             cs == InactivateAll(rs) \o DisableAll(Mpu9250Groups)
  <2>1. /\ Mpu9250Groups \in Seq(GroupsFor(u)) /\ Len(Mpu9250Groups) = 2
        /\ rs \in Seq(RulesFor(u)) /\ Len(rs) = 1
        /\ RulesOf(u) = Elements(rs) /\ GroupsOf(u) = Elements(Mpu9250Groups)
    BY <1>5, UnitGroups, UnitRules, RulesAndGroups
  <2>2. <<InactivateRule(TlmError(u))>> = InactivateAll(rs)
    BY DEF InactivateAll
  <2> HIDE DEF rs
  <2>3. /\ cs \in Seq(Lowers(u)) /\ Len(cs) = Len(Mpu9250Groups) + Len(rs)
        /\ \A x \in Items(u) : Lower(x) \in Elements(cs)
    BY <2>1, AllItems
  <2>4. OffTime(u) = 2 * C + 3
    BY <1>2, <1>5 DEF OffTime, Wheel
  <2> HIDE DEF cs
  <2>5. /\ Sec(1) \in Int /\ Sec(1) >= 1 /\ Sec(1) + Len(cs) - 1 < OffTime(u)
        /\ Sec(2) + 3 = OffTime(u)
    BY <1>2, <2>1, <2>3, <2>4
  <2>6. OffGood(u, From(Sec(1), cs) \o From(Sec(2) + 3, <<PowerOff(u)>>))
    BY <2>3, <2>5, PlainOff
  <2>7. PowerOffBlock(u) = PowerOffMpu9250
    BY <1>5 DEF PowerOffBlock, Wheel
  <2> QED
    BY <1>5, <2>2, <2>6, <2>7 DEF PowerOffMpu9250, cs
<1>6. CASE u = "MTQ"
  <2> DEFINE cs == InactivateAll(OcRules(u))
  <2>1. /\ OcRules(u) \in Seq(RulesFor(u)) /\ Len(OcRules(u)) = 4
        /\ RulesOf(u) = Elements(OcRules(u)) /\ GroupsOf(u) = {}
    BY <1>6, UnitRules, RulesAndGroups
  <2>2. /\ cs \in Seq(Lowers(u)) /\ Len(cs) = Len(OcRules(u))
        /\ \A r \in Elements(OcRules(u)) : InactivateRule(r) \in Elements(cs)
    BY <2>1, AllCommands
  <2>3. \A x \in Items(u) : Lower(x) \in Elements(cs)
    <3> SUFFICES ASSUME NEW x \in Items(u)
                 PROVE  Lower(x) \in Elements(cs)
      OBVIOUS
    <3>1. x[1] = "RULE" /\ x[2] \in RulesOf(u)
      BY <2>1 DEF Items
    <3> QED
      BY <2>1, <2>2, <3>1 DEF Lower
  <2>4. OffTime(u) = 2 * C + 3
    BY <1>2, <1>6 DEF OffTime, Wheel
  <2> HIDE DEF cs
  <2>5. /\ Sec(1) \in Int /\ Sec(1) >= 1 /\ Sec(1) + Len(cs) - 1 < OffTime(u)
        /\ Sec(2) + 3 = OffTime(u)
    BY <1>2, <2>1, <2>2, <2>4
  <2>6. OffGood(u, From(Sec(1), cs) \o From(Sec(2) + 3, <<PowerOff(u)>>))
    BY <2>2, <2>3, <2>5, PlainOff
  <2>7. PowerOffBlock(u) = PowerOffMtq
    BY <1>6 DEF PowerOffBlock, Wheel
  <2> QED
    BY <1>6, <2>6, <2>7 DEF PowerOffMtq, cs
<1>7. CASE u = "INA260"
  <2> DEFINE cs == InactivateAll(Ina260Rules) \o DisableAll(Ina260Groups)
  <2>1. /\ Ina260Groups \in Seq(GroupsFor(u)) /\ Len(Ina260Groups) = 3
        /\ Ina260Rules \in Seq(RulesFor(u)) /\ Len(Ina260Rules) = 10
        /\ RulesOf(u) = Elements(Ina260Rules) /\ GroupsOf(u) = Elements(Ina260Groups)
    BY <1>7, UnitGroups, UnitRules, RulesAndGroups
  <2>2. /\ cs \in Seq(Lowers(u)) /\ Len(cs) = Len(Ina260Groups) + Len(Ina260Rules)
        /\ \A x \in Items(u) : Lower(x) \in Elements(cs)
    BY <2>1, AllItems
  <2>3. OffTime(u) = 3 * C + 3
    BY <1>2, <1>7 DEF OffTime, Wheel
  <2> HIDE DEF cs
  <2>4. /\ Sec(1) \in Int /\ Sec(1) >= 1 /\ Sec(1) + Len(cs) - 1 < OffTime(u)
        /\ Sec(3) + 3 = OffTime(u)
    BY <1>2, <2>1, <2>2, <2>3
  <2>5. OffGood(u, From(Sec(1), cs) \o From(Sec(3) + 3, <<PowerOff(u)>>))
    BY <2>2, <2>4, PlainOff
  <2>6. PowerOffBlock(u) = PowerOffIna260
    BY <1>7 DEF PowerOffBlock, Wheel
  <2> QED
    BY <1>7, <2>5, <2>6 DEF PowerOffIna260, cs
<1> QED
  BY <1>3, <1>4, <1>5, <1>6, <1>7, UnitCases, UnitsOfBlocks

\* The units that another block stops to watch.
LEMMA InactivatePart ==
    ASSUME NEW u \in Biasing, NEW t \in Int, t >= 1, t < OffTime(u),
           t + LongestDelay + 12 <= OffSpan(u)
    PROVE  /\ Within(From(t, <<Inactivate(u)>>), OffEntries(u))
           /\ \A x \in Items(u) :
                  RuleItem(x) \/ u \in {"OEM7600", "SAGITTA", "STIM210"} =>
                      Quiets(u, From(t, <<Inactivate(u)>>), x)
<1>1. u \in Unit
  BY UnitsOfBlocks
<1>2. Inactivate(u) \in Command
  BY CommandType DEF Inactivate, BlockId
<1>3. <<t, Inactivate(u)>> \in OffEntries(u)
  BY <1>1, OffPoints
<1>4. /\ From(t, <<Inactivate(u)>>) \in Seq(Entry)
      /\ Elements(From(t, <<Inactivate(u)>>)) = {<<t, Inactivate(u)>>}
  BY <1>2, FromOneOrTwo
<1>5. ASSUME NEW x \in Items(u), RuleItem(x) \/ u \in {"OEM7600", "SAGITTA", "STIM210"}
      PROVE  Quiets(u, From(t, <<Inactivate(u)>>), x)
  <2>1. Has(Elements(SwitchingBlock(<<"INACTIVATE", u>>)), Lower(x))
    BY <1>5, WatchFacts
  <2>2. Inactivate(u) \in Lowering(u, x)
    BY <2>1 DEF Lowering
  <2>3. <<t, Inactivate(u)>>[2] = Inactivate(u)
    OBVIOUS
  <2> QED
    BY <1>4, <2>2, <2>3 DEF Quiets
<1> QED
  BY <1>3, <1>4, <1>5 DEF Within

LEMMA BiasingOff ==
    ASSUME NEW u \in {"OEM7600", "SAGITTA"},
           NEW s, s = (From(Sec(1), <<Inactivate(u)>>) \o From(Sec(2), <<PowerOff(u)>>))
                          \o From(Sec(3), BiasBoth(u, -1))
    PROVE  OffGood(u, s)
<1>1. PICK C : C = OBCT_CYCLES_PER_SEC
  OBVIOUS
<1>2. /\ C \in Nat /\ C >= 10 /\ Sec(1) = C /\ Sec(2) = 2 * C /\ Sec(3) = 3 * C
      /\ LongestDelay \in Nat /\ LongestDelay <= C + 3
  BY <1>1, MoreTimes
<1>3. u \in Biasing /\ u \in Unit
  BY UnitsOfBlocks
<1>4. OffTime(u) = 2 * C /\ OffSpan(u) = 3 * C + 5
  BY <1>2 DEF OffTime, OffSpan, Wheel
<1>5. /\ Sec(1) \in Int /\ Sec(1) >= 1 /\ Sec(1) < OffTime(u)
      /\ Sec(1) + LongestDelay + 12 <= OffSpan(u)
      /\ Sec(2) = OffTime(u) /\ Sec(3) \in Int /\ Sec(3) >= 1 /\ Sec(3) + 1 <= OffSpan(u)
  BY <1>2, <1>4
<1> DEFINE f == From(Sec(1), <<Inactivate(u)>>)
           g == From(Sec(2), <<PowerOff(u)>>)
           h == From(Sec(3), BiasBoth(u, -1))
<1>6. Within(f, OffEntries(u)) /\ \A x \in Items(u) : Quiets(u, f, x)
  BY <1>3, <1>5, InactivatePart
<1>7. Within(g, OffEntries(u)) /\ <<OffTime(u), PowerOff(u)>> \in Elements(g)
  BY <1>3, <1>5, OffPart
<1>8. Within(h, OffEntries(u))
  BY <1>3, <1>5, UnbiasPart
<1>9. s = (f \o g) \o h
  OBVIOUS
<1> HIDE DEF f, g, h
<1>10. Within(f \o g, OffEntries(u))
  BY <1>6, <1>7, JoinWithin
<1>11. Within((f \o g) \o h, OffEntries(u))
  BY <1>8, <1>10, JoinWithin
<1>12. Elements((f \o g) \o h) = Elements(f) \cup Elements(g) \cup Elements(h)
  <2>1. f \in Seq(Entry) /\ g \in Seq(Entry) /\ h \in Seq(Entry) /\ f \o g \in Seq(Entry)
    BY <1>6, <1>7, <1>8, <1>10 DEF Within
  <2> QED
    BY <2>1, JoinElements
<1> QED
  BY <1>6, <1>7, <1>9, <1>11, <1>12 DEF OffGood, Quiets

LEMMA NanossocOff == OffGood("NANOSSOC_D60", PowerOffNanossocD60)
<1>1. PICK C : C = OBCT_CYCLES_PER_SEC
  OBVIOUS
<1>2. PICK u : u = "NANOSSOC_D60"
  OBVIOUS
<1>3. /\ C \in Nat /\ C >= 10 /\ Sec(1) = C /\ Sec(3) = 3 * C /\ Sec(4) = 4 * C /\ Sec(5) = 5 * C
      /\ LongestDelay \in Nat /\ LongestDelay <= C + 3
  BY <1>1, MoreTimes
<1>4. u \in Biasing /\ u \in Unit
  BY <1>2, UnitsOfBlocks
<1>5. OffTime(u) = 4 * C + 2 /\ OffSpan(u) = 5 * C + 3
  BY <1>2, <1>3 DEF OffTime, OffSpan, Wheel
<1> DEFINE cs == DisableAll(SunSensorGroups)
           f == From(Sec(1), <<Inactivate(u)>>)
           d == From(Sec(3), cs)
           g == From(Sec(4) + 2, <<PowerOff(u)>>)
           h == From(Sec(5) + 2, BiasBoth(u, -1))
<1>6. /\ SunSensorGroups \in Seq(GroupsFor(u)) /\ Len(SunSensorGroups) = 3
      /\ GroupsOf(u) = Elements(SunSensorGroups)
  BY <1>2, UnitGroups, RulesAndGroups
<1>7. /\ cs \in Seq(Lowers(u)) /\ Len(cs) = 3
      /\ \A x \in GroupsOf(u) : DisableLogging(x) \in Elements(cs)
  BY <1>4, <1>6, AllCommands
<1> HIDE DEF cs
<1>8. /\ Sec(1) \in Int /\ Sec(1) >= 1 /\ Sec(1) < OffTime(u)
      /\ Sec(1) + LongestDelay + 12 <= OffSpan(u)
      /\ Sec(3) \in Int /\ Sec(3) >= 1 /\ Sec(3) + Len(cs) - 1 < OffTime(u)
      /\ Sec(4) + 2 = OffTime(u)
      /\ Sec(5) + 2 \in Int /\ Sec(5) + 2 >= 1 /\ Sec(5) + 2 + 1 <= OffSpan(u)
  BY <1>3, <1>5, <1>7
<1>9. Within(f, OffEntries(u)) /\ \A x \in Items(u) : RuleItem(x) => Quiets(u, f, x)
  BY <1>4, <1>8, InactivatePart
<1>10. /\ Within(d, OffEntries(u))
       /\ \A x \in Items(u) : Lower(x) \in Elements(cs) => Quiets(u, d, x)
  BY <1>4, <1>7, <1>8, LowerPart
<1>11. Within(g, OffEntries(u)) /\ <<OffTime(u), PowerOff(u)>> \in Elements(g)
  BY <1>4, <1>8, OffPart
<1>12. Within(h, OffEntries(u))
  BY <1>4, <1>8, UnbiasPart
<1>13. \A x \in Items(u) : Quiets(u, f, x) \/ Quiets(u, d, x)
  <2> SUFFICES ASSUME NEW x \in Items(u), ~RuleItem(x)
               PROVE  Quiets(u, d, x)
    BY <1>9
  <2>1. x[2] \in GroupsOf(u) /\ Lower(x) = DisableLogging(x[2])
    BY DEF Items, RuleItem, Lower
  <2>2. Lower(x) \in Elements(cs)
    BY <1>7, <2>1
  <2> QED
    BY <1>10, <2>2
<1>14. PowerOffNanossocD60 = ((f \o d) \o g) \o h
  BY <1>2 DEF PowerOffNanossocD60, cs, Inactivate
<1> HIDE DEF f, d, g, h
<1>15. Within(f \o d, OffEntries(u))
  BY <1>9, <1>10, JoinWithin
<1>16. Within((f \o d) \o g, OffEntries(u))
  BY <1>11, <1>15, JoinWithin
<1>17. Within(((f \o d) \o g) \o h, OffEntries(u))
  BY <1>12, <1>16, JoinWithin
<1>18. Elements(((f \o d) \o g) \o h) =
           Elements(f) \cup Elements(d) \cup Elements(g) \cup Elements(h)
  <2>1. /\ f \in Seq(Entry) /\ d \in Seq(Entry) /\ g \in Seq(Entry) /\ h \in Seq(Entry)
        /\ f \o d \in Seq(Entry) /\ (f \o d) \o g \in Seq(Entry)
    BY <1>9, <1>10, <1>11, <1>12, <1>15, <1>16 DEF Within
  <2> QED
    BY <2>1, JoinElements
<1>19. OffGood(u, ((f \o d) \o g) \o h)
  BY <1>11, <1>13, <1>17, <1>18 DEF OffGood, Quiets
<1> QED
  BY <1>2, <1>14, <1>19

LEMMA Stim210Off ==
    /\ OffGood("STIM210", PowerOffStim210)
    /\ Has(Elements(PowerOffStim210), SelectGyro("MPU9250"))
<1>1. PICK C : C = OBCT_CYCLES_PER_SEC
  OBVIOUS
<1>2. PICK u : u = "STIM210"
  OBVIOUS
<1>3. /\ C \in Nat /\ C >= 10 /\ Sec(2) = 2 * C /\ Sec(3) = 3 * C
      /\ LongestDelay \in Nat /\ LongestDelay <= C + 3
  BY <1>1, MoreTimes
<1>4. u \in Biasing /\ u \in Unit
  BY <1>2, UnitsOfBlocks
<1>5. OffTime(u) = 3 * C + 1 /\ OffSpan(u) = 3 * C + 3
  BY <1>2, <1>3 DEF OffTime, OffSpan, Wheel
<1> DEFINE off == <<PowerOff(u)>>
           biases == BiasBoth(u, -1)
           f == From(1, <<Inactivate(u)>>)
           d == From(Sec(2) + 1, <<SelectGyro("MPU9250")>>)
           g == From(Sec(3) + 1, off)
           h == From(Sec(3) + 2, biases)
<1>6. /\ 1 \in Int /\ 1 >= 1 /\ 1 < OffTime(u) /\ 1 + LongestDelay + 12 <= OffSpan(u)
      /\ Sec(2) + 1 \in Int /\ Sec(2) + 1 >= 1 /\ Sec(2) + 1 < OffTime(u)
      /\ Sec(3) + 1 = OffTime(u) /\ Sec(3) + 1 \in Int
      /\ Sec(3) + 2 \in Int /\ Sec(3) + 2 >= 1 /\ Sec(3) + 2 + 1 <= OffSpan(u)
  BY <1>3, <1>5
<1>7. Within(f, OffEntries(u)) /\ \A x \in Items(u) : Quiets(u, f, x)
  BY <1>2, <1>4, <1>6, InactivatePart
<1>8. Within(d, OffEntries(u)) /\ Elements(d) = {<<Sec(2) + 1, SelectGyro("MPU9250")>>}
  <2>1. SelectGyro("MPU9250") \in Command
    BY CommandType
  <2>2. d \in Seq(Entry) /\ Elements(d) = {<<Sec(2) + 1, SelectGyro("MPU9250")>>}
    BY <1>6, <2>1, FromOneOrTwo
  <2>3. <<Sec(2) + 1, SelectGyro("MPU9250")>> \in OffEntries(u)
    BY <1>2, <1>4, <1>6, OffPoints
  <2> QED
    BY <2>2, <2>3 DEF Within
<1>9. Within(g, OffEntries(u)) /\ <<OffTime(u), PowerOff(u)>> \in Elements(g)
  BY <1>4, <1>6, OffPart
<1>10. Within(h, OffEntries(u))
  BY <1>4, <1>6, UnbiasPart
<1>11. From(Sec(3) + 1, off \o biases) = g \o h
  <2>1. /\ PowerOff(u) \in Command /\ AddBias("ON_AOBC", u, -1) \in Command
        /\ AddBias("EXTERNAL", u, -1) \in Command
    BY <1>4, CommandType DEF Mag
  <2>2. off \in Seq(Command) /\ biases \in Seq(Command) /\ Len(off) = 1
    BY <2>1, Lists DEF BiasBoth
  <2> HIDE DEF off, biases
  <2>3. From(Sec(3) + 1, off \o biases) =
            From(Sec(3) + 1, off) \o From(Sec(3) + 1 + Len(off), biases)
    BY <1>6, <2>2, FromConcat
  <2>4. Sec(3) + 1 + Len(off) = Sec(3) + 2
    BY <1>3, <2>2
  <2> QED
    BY <2>3, <2>4
<1>12. PowerOffStim210 = (f \o d) \o From(Sec(3) + 1, off \o biases)
  BY <1>2 DEF PowerOffStim210, Inactivate
<1> HIDE DEF f, d, g, h
<1>13. Within(f \o d, OffEntries(u)) /\ Within(g \o h, OffEntries(u))
  BY <1>7, <1>8, <1>9, <1>10, JoinWithin
<1>14. Within((f \o d) \o (g \o h), OffEntries(u))
  BY <1>13, JoinWithin
<1>15. Elements((f \o d) \o (g \o h)) =
           Elements(f) \cup Elements(d) \cup Elements(g) \cup Elements(h)
  <2>1. /\ f \in Seq(Entry) /\ d \in Seq(Entry) /\ g \in Seq(Entry) /\ h \in Seq(Entry)
        /\ f \o d \in Seq(Entry) /\ g \o h \in Seq(Entry)
    BY <1>7, <1>8, <1>9, <1>10, <1>13 DEF Within
  <2>2. Elements(f \o d) = Elements(f) \cup Elements(d)
    BY <2>1, JoinElements
  <2>3. Elements(g \o h) = Elements(g) \cup Elements(h)
    BY <2>1, JoinElements
  <2>4. Elements((f \o d) \o (g \o h)) = Elements(f \o d) \cup Elements(g \o h)
    BY <2>1, JoinElements
  <2> QED
    BY <2>2, <2>3, <2>4
<1>16. OffGood(u, (f \o d) \o (g \o h))
  BY <1>7, <1>9, <1>14, <1>15 DEF OffGood, Quiets
<1>17. Has(Elements((f \o d) \o (g \o h)), SelectGyro("MPU9250"))
  <2>1. <<Sec(2) + 1, SelectGyro("MPU9250")>> \in Elements((f \o d) \o (g \o h))
    BY <1>8, <1>15
  <2>2. <<Sec(2) + 1, SelectGyro("MPU9250")>>[2] = SelectGyro("MPU9250")
    OBVIOUS
  <2> QED
    BY <2>1, <2>2 DEF Has
<1> QED
  BY <1>2, <1>11, <1>12, <1>16, <1>17

\* The block that switches a unit off stops to watch it first.
LEMMA OffBlock ==
    /\ \A u \in Unit : OffGood(u, PowerOffBlock(u))
    /\ Has(Elements(PowerOffBlock("STIM210")), SelectGyro("MPU9250"))
<1>1. /\ PowerOffBlock("NANOSSOC_D60") = PowerOffNanossocD60
      /\ PowerOffBlock("OEM7600") = PowerOffOem7600
      /\ PowerOffBlock("SAGITTA") = PowerOffSagitta
      /\ PowerOffBlock("STIM210") = PowerOffStim210
  BY DEF PowerOffBlock, Wheel
<1>2. \A u \in Biasing : u \in {"NANOSSOC_D60", "OEM7600", "SAGITTA", "STIM210"}
  BY DEF Biasing
<1>3. OffGood("OEM7600", PowerOffOem7600) /\ OffGood("SAGITTA", PowerOffSagitta)
  BY BiasingOff DEF PowerOffOem7600, PowerOffSagitta, Inactivate
<1> QED
  BY <1>1, <1>2, <1>3, PlainOffBlocks, NanossocOff, Stim210Off

-----------------------------------------------------------------------------
(* The other blocks, and what a command deploys.                             *)

ResetEntries(u) == {<<ResetOff(u), Off(u)>>, <<ResetOn(u), On(u)>>}

LEMMA ResetOfUnit ==
    ASSUME NEW u \in Unit
    PROVE  /\ ResetBlock(u) \in Seq(Entry)
           /\ ResetEntries(u) \subseteq Elements(ResetBlock(u))
           /\ \A e \in Elements(ResetBlock(u)) :
                  \/ e \in ResetEntries(u)
                  \/ Owner(e[2]) = "none" /\ e[2] = Deploy(<<"OC_LIMIT", "INA260">>)
<1> DEFINE two == OffThenOn(u, ResetOff(u), ResetOn(u))
           more == << <<Sec(13), Deploy(<<"OC_LIMIT", "INA260">>)>> >>
<1>1. CASE u # "INA260"
  <2>1. ResetBlock(u) = two
    BY <1>1, UnitCases
    DEF ResetBlock, ResetOff, ResetOn, Wheel, ResetRw, ResetRm3100, ResetMpu9250, ResetMtq,
        ResetNanossocD60, ResetOem7600, ResetSagitta, ResetStim210
  <2>2. two = << <<ResetOff(u), Off(u)>>, <<ResetOn(u), On(u)>> >>
    BY DEF OffThenOn, Off, On
  <2>3. \A x, y : Elements(<<x, y>>) = {x, y}
    BY DEF Elements
  <2>4. Elements(two) = ResetEntries(u)
    BY <2>2, <2>3 DEF ResetEntries
  <2>5. ResetBlock(u) \in Seq(Entry)
    <3>1. <<"RESET", u>> \in BlockId /\ SwitchingBlock(<<"RESET", u>>) = ResetBlock(u)
      BY DEF BlockId, SwitchingBlock
    <3> QED
      BY <3>1, SwitchingBlockIsProper DEF Proper
  <2> QED
    BY <2>1, <2>4, <2>5
<1>2. CASE u = "INA260"
  <2>1. ResetBlock(u) = two \o more
    BY <1>2 DEF ResetBlock, ResetOff, ResetOn, Wheel, ResetIna260
  <2>2. two = << <<ResetOff(u), Off(u)>>, <<ResetOn(u), On(u)>> >>
    BY DEF OffThenOn, Off, On
  <2>3. \A x, y : Elements(<<x, y>>) = {x, y} /\ Elements(<<x>>) = {x}
    BY DEF Elements
  <2>4. /\ Elements(two) = ResetEntries(u)
        /\ Elements(more) = {<<Sec(13), Deploy(<<"OC_LIMIT", "INA260">>)>>}
    BY <2>2, <2>3 DEF ResetEntries
  <2>5. two \in Seq(Entry) /\ more \in Seq(Entry)
    <3>1. ResetOff(u) \in Int /\ ResetOn(u) \in Int /\ Sec(13) \in Int
      BY OffTimes, Times
    <3>2. Off(u) \in Command /\ On(u) \in Command /\ Deploy(<<"OC_LIMIT", "INA260">>) \in Command
      BY CommandType DEF Off, On, BlockId
    <3>3. /\ <<ResetOff(u), Off(u)>> \in Entry /\ <<ResetOn(u), On(u)>> \in Entry
          /\ <<Sec(13), Deploy(<<"OC_LIMIT", "INA260">>)>> \in Entry
      BY <3>1, <3>2 DEF Entry
    <3> HIDE DEF Entry
    <3> QED
      BY <2>2, <3>3, Lists
  <2>6. /\ Owner(<<Sec(13), Deploy(<<"OC_LIMIT", "INA260">>)>>[2]) = "none"
        /\ <<Sec(13), Deploy(<<"OC_LIMIT", "INA260">>)>>[2] = Deploy(<<"OC_LIMIT", "INA260">>)
    BY OwnerAndKind
  <2> HIDE DEF two, more
  <2>7. two \o more \in Seq(Entry) /\ Elements(two \o more) = Elements(two) \cup Elements(more)
    BY <2>5, Joined
  <2> QED
    BY <2>1, <2>4, <2>6, <2>7
<1> QED
  BY <1>1, <1>2

LEMMA LimitBlock ==
    \A e \in Elements(SwitchingBlock(<<"OC_LIMIT", "INA260">>)) : e \in Entry /\ e[2] \in Neutral
<1>1. SwitchingBlock(<<"OC_LIMIT", "INA260">>) = SetIna260OcLimit
  BY DEF SwitchingBlock
<1> DEFINE cs == [i \in DOMAIN INA260_IDX |-> Protect(INA260_IDX[i])]
<1>2. DOMAIN INA260_IDX = 1..10 /\ \A i \in 1..10 : INA260_IDX[i] \in Monitored \cup {"PIC"}
  BY DEF INA260_IDX, Monitored, Unit, Wheel, Biasing
<1>3. cs \in [1..10 -> Neutral]
  BY <1>2, NeutralCommands
<1>4. ASSUME NEW S, NEW n \in Nat, NEW f \in [1..n -> S]
      PROVE  f \in Seq(S)
  OBVIOUS
<1>5. cs \in Seq(Neutral)
  BY <1>3, <1>4
<1> HIDE DEF cs
<1>6. Neutral \subseteq Command /\ 1 \in Int
  BY DEF Neutral
<1>7. From(1, cs) \in Seq(Entry) /\ \A e \in Elements(From(1, cs)) : e[2] \in Neutral
  BY <1>5, <1>6, FromElements
<1>8. \A e \in Elements(From(1, cs)) : e \in Entry
  BY <1>7 DEF Elements
<1> QED
  BY <1>1, <1>7, <1>8 DEF SetIna260OcLimit, cs

\* What a block holds besides belongs to no unit.
LEMMA BlockElements ==
    ASSUME NEW b \in BlockId
    PROVE  /\ Block(b) \in Seq(Entry) /\ OwnCommands(b) \in Seq(Entry)
           /\ Elements(Block(b)) = Elements(SwitchingBlock(b)) \cup Elements(OwnCommands(b))
           /\ \A e \in Elements(OwnCommands(b)) : e \in Entry /\ Idle(e[2])
<1>1. SwitchingBlock(b) \in Seq(Entry) /\ Idling(OwnCommands(b))
  BY SwitchingBlockIsProper, OwnCommandsIdle DEF Proper
<1>2. OwnCommands(b) \in Seq(Entry)
  BY <1>1 DEF Idling
<1>3. \A e \in Elements(OwnCommands(b)) : e \in Entry /\ Idle(e[2])
  <2> DEFINE s == OwnCommands(b)
  <2>1. s \in Seq(Entry) /\ \A i \in DOMAIN s : Idle(s[i][2])
    BY <1>1 DEF Idling
  <2> HIDE DEF s
  <2>2. \A i \in DOMAIN s : s[i] \in Entry
    BY <2>1
  <2> QED
    BY <2>1, <2>2 DEF Elements, s
<1>4. /\ Block(b) \in Seq(Entry)
      /\ Elements(Block(b)) = Elements(SwitchingBlock(b)) \cup Elements(OwnCommands(b))
  BY <1>1, <1>2, Joined DEF Block
<1> QED
  BY <1>2, <1>3, <1>4

LEMMA OwnedOfBlock ==
    ASSUME NEW u \in Unit, NEW b \in BlockId
    PROVE  {k \in Elements(Block(b)) : Owner(k[2]) = u}
               = {k \in Elements(SwitchingBlock(b)) : Owner(k[2]) = u}
<1>1. u # "none"
  BY DEF Unit, Wheel, Biasing
<1> QED
  BY <1>1, BlockElements, OwnerAndKind

\* What of a unit a command deploys.
Children(u, c) ==
    {k \in IF c[1] = "DEPLOY" THEN Elements(Block(c[2])) ELSE {} : Owner(k[2]) = u}

\* The commands of a unit.
Leaf(u) == {c \in Command : Owner(c) = u /\ c[1] # "DEPLOY"}

LEMMA OwnedCommands ==
    ASSUME NEW u \in Unit, NEW c \in Command, Owner(c) = u
    PROVE  \/ c \in Leaf(u)
           \/ c = On(u) \/ c = Off(u) \/ c = Reset(u)
           \/ c = Activate(u) /\ u \in Biasing \cup {"INA260"}
           \/ c = Inactivate(u) /\ u \in Biasing
<1> SUFFICES ASSUME c[1] = "DEPLOY"
             PROVE  \/ c = On(u) \/ c = Off(u) \/ c = Reset(u)
                    \/ c = Activate(u) /\ u \in Biasing \cup {"INA260"}
                    \/ c = Inactivate(u) /\ u \in Biasing
  BY DEF Leaf
<1>1. PICK b \in BlockId : c = Deploy(b)
  <2>1. c \in {"DEPLOY"} \X BlockId
    BY DEF Command, FinishTransition, OwnCommand
  <2>2. c = <<"DEPLOY", c[2]>> /\ c[2] \in BlockId
    BY <2>1
  <2> QED
    BY <2>2 DEF Deploy
<1>2. Owner(c) = IF b[1] \in Common THEN "none" ELSE b[2]
  BY <1>1 DEF Owner, Deploy
<1>3. "none" \notin Unit
  BY DEF Unit, Wheel, Biasing
<1>4. b[1] \notin Common /\ b[2] = u
  BY <1>2, <1>3
<1>5. \/ b \in {"ON", "OFF", "RESET"} \X Unit
      \/ b \in {"ACTIVATE"} \X (Biasing \cup {"INA260"})
      \/ b \in {"INACTIVATE"} \X Biasing
  BY <1>4 DEF BlockId, Common
<1>6. b = <<b[1], u>>
  BY <1>4, <1>5
<1>7. /\ b[1] \in {"ON", "OFF", "RESET", "ACTIVATE", "INACTIVATE"}
      /\ b[1] = "ACTIVATE" => u \in Biasing \cup {"INA260"}
      /\ b[1] = "INACTIVATE" => u \in Biasing
  BY <1>4, <1>5
<1> QED
  BY <1>1, <1>6, <1>7 DEF On, Off, Reset, Activate, Inactivate

HasAny(S, C) == \E e \in S : e[2] \in C

LEMMA ItemsOfUnits ==
    ASSUME NEW u \in Unit
    PROVE  RulesOf(u) \subseteq RulesFor(u) /\ GroupsOf(u) \subseteq GroupsFor(u)
<1>1. ASSUME NEW S, NEW s \in Seq(S)
      PROVE  Elements(s) \subseteq S
  BY DEF Elements
<1>2. PICK rs \in Seq(RulesFor(u)) : RulesOf(u) = Elements(rs)
  BY UnitCases, UnitRules, RulesAndGroups
<1>3. GroupsOf(u) = {} \/ \E gs \in Seq(GroupsFor(u)) : GroupsOf(u) = Elements(gs)
  BY UnitCases, UnitGroups, RulesAndGroups
<1> QED
  BY <1>1, <1>2, <1>3

LEMMA ItemCommands ==
    ASSUME NEW u \in Unit, NEW x \in Items(u)
    PROVE  /\ Owner(Raise(x)) = u /\ Kind(Raise(x)) = "up"
           /\ Owner(Lower(x)) = u /\ Kind(Lower(x)) = "down"
           /\ Raise(x) \in Leaf(u) /\ Lower(x) \in Leaf(u)
<1>1. "none" \notin Unit
  BY DEF Unit, Wheel, Biasing
<1>2. CASE x \in {"RULE"} \X RulesOf(u)
  <2>1. /\ x[2] \in RuleName /\ RuleUnit(x[2]) = u
        /\ Raise(x) = ActivateRule(x[2]) /\ Lower(x) = InactivateRule(x[2])
    BY <1>2, ItemsOfUnits DEF RulesFor, Raise, Lower
  <2>2. /\ ActivateRule(x[2])[1] # "DEPLOY" /\ InactivateRule(x[2])[1] # "DEPLOY"
    BY DEF ActivateRule, InactivateRule
  <2> QED
    BY <2>1, <2>2, OwnerAndKind, CommandType DEF Leaf
<1>3. CASE x \in {"GROUP"} \X (GroupsOf(u) \ {HwOc})
  <2>1. /\ x[2] \in GroupsFor(u) /\ x[2] # HwOc
        /\ Raise(x) = EnableLogging(x[2]) /\ Lower(x) = DisableLogging(x[2])
    BY <1>3, ItemsOfUnits DEF Raise, Lower
  <2>2. /\ x[2] \in Group /\ GroupUnit(x[2]) = u
    <3>1. x[2] \in Group /\ GroupUnit(x[2]) \in {u, "none"}
      BY <2>1 DEF GroupsFor
    <3>2. GroupUnit(x[2]) # "none"
      BY <1>1, <2>1, <3>1 DEF Group, GroupUnit, HwOc, SwOc
    <3> QED
      BY <3>1, <3>2
  <2>3. /\ EnableLogging(x[2])[1] # "DEPLOY" /\ DisableLogging(x[2])[1] # "DEPLOY"
    BY DEF EnableLogging, DisableLogging
  <2> QED
    BY <2>1, <2>2, <2>3, OwnerAndKind, CommandType DEF Leaf
<1> QED
  BY <1>2, <1>3 DEF Items

LEMMA ChildrenOfLeaf ==
    ASSUME NEW u \in Unit, NEW c \in Leaf(u)
    PROVE  Children(u, c) = {}
BY DEF Children, Leaf

LEMMA RaisingOwner ==
    ASSUME NEW u \in Unit, NEW x \in Items(u)
    PROVE  /\ \A c \in Raising(u, x) : Owner(c) = u /\ Kind(c) = "up"
           /\ \A c \in Lowering(u, x) : Owner(c) = u /\ Kind(c) = "down"
BY ItemCommands, OwnerAndKind DEF Raising, Lowering

LEMMA ChildrenOfOn ==
    ASSUME NEW u \in Unit
    PROVE  /\ \A e \in Children(u, On(u)) : e \in OnEntries(u) /\ Owner(e[2]) = u
           /\ <<OnTime(u), PowerOn(u)>> \in Children(u, On(u))
           /\ \A x \in Items(u) : \E f \in Children(u, On(u)) :
                  f[1] >= OnTime(u) + Gap(u) /\ f[2] \in Raising(u, x)
           /\ u = "STIM210" => Has(Children(u, On(u)), SelectGyro("STIM210"))
<1>1. Children(u, On(u)) = {k \in Elements(PowerOnBlock(u)) : Owner(k[2]) = u}
  <2>1. <<"ON", u>> \in BlockId /\ SwitchingBlock(<<"ON", u>>) = PowerOnBlock(u)
    BY DEF BlockId, SwitchingBlock
  <2> QED
    BY <2>1, OwnedOfBlock DEF Children, On, Deploy
<1>2. OnGood(u, PowerOnBlock(u))
  BY OnBlock
<1>3. \A e \in Children(u, On(u)) : e \in OnEntries(u) /\ Owner(e[2]) = u
  BY <1>1, <1>2 DEF OnGood, OnStart, Within
<1>4. <<OnTime(u), PowerOn(u)>> \in Children(u, On(u))
  BY <1>1, <1>2, OwnerAndKind DEF OnGood, OnStart
<1>5. ASSUME NEW x \in Items(u)
      PROVE  \E f \in Children(u, On(u)) :
                 f[1] >= OnTime(u) + Gap(u) /\ f[2] \in Raising(u, x)
  BY <1>1, <1>2, RaisingOwner DEF OnGood, Watches
<1>6. u = "STIM210" => Has(Children(u, On(u)), SelectGyro("STIM210"))
  BY <1>1, OnBlock, OwnerAndKind DEF Has
<1> QED
  BY <1>3, <1>4, <1>5, <1>6

LEMMA ChildrenOfOff ==
    ASSUME NEW u \in Unit
    PROVE  /\ \A e \in Children(u, Off(u)) : e \in OffEntries(u) /\ Owner(e[2]) = u
           /\ <<OffTime(u), PowerOff(u)>> \in Children(u, Off(u))
           /\ \A x \in Items(u) : HasAny(Children(u, Off(u)), Lowering(u, x))
           /\ u = "STIM210" => Has(Children(u, Off(u)), SelectGyro("MPU9250"))
<1>1. Children(u, Off(u)) = {k \in Elements(PowerOffBlock(u)) : Owner(k[2]) = u}
  <2>1. <<"OFF", u>> \in BlockId /\ SwitchingBlock(<<"OFF", u>>) = PowerOffBlock(u)
    BY DEF BlockId, SwitchingBlock
  <2> QED
    BY <2>1, OwnedOfBlock DEF Children, Off, Deploy
<1>2. OffGood(u, PowerOffBlock(u))
  BY OffBlock
<1>3. \A e \in Children(u, Off(u)) : e \in OffEntries(u) /\ Owner(e[2]) = u
  BY <1>1, <1>2 DEF OffGood, Within
<1>4. <<OffTime(u), PowerOff(u)>> \in Children(u, Off(u))
  BY <1>1, <1>2, OwnerAndKind DEF OffGood
<1>5. ASSUME NEW x \in Items(u)
      PROVE  HasAny(Children(u, Off(u)), Lowering(u, x))
  BY <1>1, <1>2, RaisingOwner DEF OffGood, Quiets, HasAny
<1>6. u = "STIM210" => Has(Children(u, Off(u)), SelectGyro("MPU9250"))
  BY <1>1, OffBlock, OwnerAndKind DEF Has
<1> QED
  BY <1>3, <1>4, <1>5, <1>6

LEMMA ChildrenOfReset ==
    ASSUME NEW u \in Unit
    PROVE  Children(u, Reset(u)) = ResetEntries(u)
<1>1. Children(u, Reset(u)) = {k \in Elements(ResetBlock(u)) : Owner(k[2]) = u}
  <2>1. <<"RESET", u>> \in BlockId /\ SwitchingBlock(<<"RESET", u>>) = ResetBlock(u)
    BY DEF BlockId, SwitchingBlock
  <2> QED
    BY <2>1, OwnedOfBlock DEF Children, Reset, Deploy
<1>2. "none" \notin Unit
  BY DEF Unit, Wheel, Biasing
<1>3. \A e \in ResetEntries(u) : Owner(e[2]) = u
  BY OwnerAndKind DEF ResetEntries
<1> QED
  BY <1>1, <1>2, <1>3, ResetOfUnit

LEMMA ChildrenOfActivate ==
    ASSUME NEW u \in Biasing \cup {"INA260"}
    PROVE  /\ \A e \in Children(u, Activate(u)) : e \in UpLeaves(u) /\ Owner(e[2]) = u
           /\ \A x \in Items(u) : Activate(u) \in Raising(u, x) =>
                  Has(Children(u, Activate(u)), Raise(x))
<1>1. u \in Unit
  BY UnitsOfBlocks
<1>2. Children(u, Activate(u))
          = {k \in Elements(SwitchingBlock(<<"ACTIVATE", u>>)) : Owner(k[2]) = u}
  <2>1. <<"ACTIVATE", u>> \in BlockId
    BY DEF BlockId
  <2> QED
    BY <1>1, <2>1, OwnedOfBlock DEF Children, Activate, Deploy
<1>3. \A e \in Children(u, Activate(u)) : e \in UpLeaves(u) /\ Owner(e[2]) = u
  BY <1>2, WatchFacts DEF Within
<1>4. ASSUME NEW x \in Items(u), Activate(u) \in Raising(u, x)
      PROVE  Has(Children(u, Activate(u)), Raise(x))
  <2>1. Activate(u) # Raise(x)
    BY <1>1, ItemCommands DEF Leaf, Activate, Deploy
  <2>2. Has(Elements(SwitchingBlock(<<"ACTIVATE", u>>)), Raise(x))
    BY <1>4, <2>1 DEF Raising
  <2> QED
    BY <1>1, <1>2, <2>2, ItemCommands DEF Has
<1> QED
  BY <1>3, <1>4

LEMMA ChildrenOfInactivate ==
    ASSUME NEW u \in Biasing
    PROVE  /\ \A e \in Children(u, Inactivate(u)) : e \in DownLeaves(u) /\ Owner(e[2]) = u
           /\ \A x \in Items(u) : Inactivate(u) \in Lowering(u, x) =>
                  Has(Children(u, Inactivate(u)), Lower(x))
<1>1. u \in Unit
  BY UnitsOfBlocks
<1>2. Children(u, Inactivate(u))
          = {k \in Elements(SwitchingBlock(<<"INACTIVATE", u>>)) : Owner(k[2]) = u}
  <2>1. <<"INACTIVATE", u>> \in BlockId
    BY DEF BlockId
  <2> QED
    BY <1>1, <2>1, OwnedOfBlock DEF Children, Inactivate, Deploy
<1>3. \A e \in Children(u, Inactivate(u)) : e \in DownLeaves(u) /\ Owner(e[2]) = u
  BY <1>2, WatchFacts DEF Within
<1>4. ASSUME NEW x \in Items(u), Inactivate(u) \in Lowering(u, x)
      PROVE  Has(Children(u, Inactivate(u)), Lower(x))
  <2>1. Inactivate(u) # Lower(x)
    BY <1>1, ItemCommands DEF Leaf, Inactivate, Deploy
  <2>2. Has(Elements(SwitchingBlock(<<"INACTIVATE", u>>)), Lower(x))
    BY <1>4, <2>1 DEF Lowering
  <2> QED
    BY <1>1, <1>2, <2>2, ItemCommands DEF Has
<1> QED
  BY <1>3, <1>4

-----------------------------------------------------------------------------
(* The entries S of a unit when the dispatcher executes one of them, e: the  *)
(* others remain, and those that it deploys are new.                         *)

Belongs(u, S) == \A e \in S : e \in Entry /\ Owner(e[2]) = u
Runs(u, S, e, S2) ==
    /\ e \in S
    /\ \A f \in S : e[1] <= f[1]
    /\ -LongestDelay <= e[1] /\ e[1] <= 0
    /\ \A f \in S : f # e => f \in S2
    /\ \A f \in Children(u, e[2]) : f \in S2
    /\ \A f \in S2 : f \in S \/ f \in Children(u, e[2])

\* What a command makes of the powered units and of the items that are raised.
PoweredBy(u, c, p, p2) == u \in p2 <=> c = PowerOn(u) \/ (u \in p /\ c # PowerOff(u))
RaisedBy(u, c, lit, lit2) ==
    \A x \in Items(u) : x \in lit2 <=> c = Raise(x) \/ (x \in lit /\ c # Lower(x))

LEMMA EntryType == \A e \in Entry : e = <<e[1], e[2]>> /\ e[1] \in Int /\ e[2] \in Command
BY DEF Entry

\* What a unit's deployments do not do themselves.
LEMMA DeploysOnly ==
    ASSUME NEW u \in Unit, NEW c, c \in {On(u), Off(u), Reset(u), Activate(u), Inactivate(u)}
    PROVE  /\ c # PowerOn(u) /\ c # PowerOff(u) /\ c[1] = "DEPLOY"
           /\ \A x \in Items(u) : c # Raise(x) /\ c # Lower(x)
<1>1. c[1] = "DEPLOY"
  BY DEF On, Off, Reset, Activate, Inactivate, Deploy
<1>2. PowerOn(u)[1] # "DEPLOY" /\ PowerOff(u)[1] # "DEPLOY"
  BY DEF PowerOn, PowerOff
<1>3. \A x \in Items(u) : c # Raise(x) /\ c # Lower(x)
  BY <1>1, ItemCommands DEF Leaf
<1> QED
  BY <1>1, <1>2, <1>3

-----------------------------------------------------------------------------
(* A unit that is on is watched by everything, or will be: the commands for  *)
(* that are on their way, or the one that switches it off.                   *)

RaisedAfterOn(u, S, x) ==
    \A e \in S : e[2] = PowerOn(u) =>
        \E f \in S : f[2] \in Raising(u, x) /\ f[1] >= e[1] + Gap(u)

\* An item is lowered before the unit is switched off.  What a block lowers that an
\* earlier one has deployed may come after that, but before the unit is watched again.
LoweredForOff(u, S, p, x) ==
    \A e \in S : e[2] \in Lowering(u, x) =>
        \/ \E f \in S : f[2] = PowerOff(u) /\ f[1] > e[1]
        \/ /\ e[2] = Lower(x) /\ u \in Biasing /\ e[1] <= 12
           /\ \/ u \notin p
              \/ Has(S, PowerOff(u))
              \/ \E f \in S : f[2] \in Raising(u, x) /\ f[1] > e[1]

RaisedWhileOn(u, S, p, lit, x) ==
    u \in p /\ x \notin lit => HasAny(S, Raising(u, x)) \/ Has(S, PowerOff(u))

WatchedOn(u, S, p, lit) ==
    \A x \in Items(u) : /\ RaisedAfterOn(u, S, x)
                        /\ LoweredForOff(u, S, p, x)
                        /\ RaisedWhileOn(u, S, p, lit, x)

LEMMA LongGap == \A u \in Biasing : Gap(u) - LongestDelay > 12
<1>1. PICK C : C = OBCT_CYCLES_PER_SEC
  OBVIOUS
<1>2. C \in Nat /\ C >= 10 /\ LongestDelay \in Nat /\ LongestDelay <= C + 3 /\ Sec(3) = 3 * C
  BY <1>1, MoreTimes
<1> QED
  BY <1>2 DEF Gap

LEMMA WatchedOnLeaf ==
    ASSUME NEW u \in Unit, NEW S, Belongs(u, S), NEW e, NEW S2, Runs(u, S, e, S2),
           e[2] \in Leaf(u), NEW p, NEW p2, PoweredBy(u, e[2], p, p2),
           NEW lit, NEW lit2, RaisedBy(u, e[2], lit, lit2), WatchedOn(u, S, p, lit)
    PROVE  WatchedOn(u, S2, p2, lit2)
<1> SUFFICES ASSUME NEW x \in Items(u)
             PROVE  /\ RaisedAfterOn(u, S2, x)
                    /\ LoweredForOff(u, S2, p2, x)
                    /\ RaisedWhileOn(u, S2, p2, lit2, x)
  BY DEF WatchedOn
<1>1. /\ RaisedAfterOn(u, S, x) /\ LoweredForOff(u, S, p, x) /\ RaisedWhileOn(u, S, p, lit, x)
  BY DEF WatchedOn
<1>2. \A f \in S : f[1] \in Int /\ e[1] <= f[1]
  BY EntryType DEF Belongs, Runs
<1>3. /\ \A f \in S : f # e => f \in S2
      /\ \A f \in S2 : f \in S
      /\ e \in S /\ e[1] \in Int /\ -LongestDelay <= e[1]
  BY <1>2, ChildrenOfLeaf DEF Runs
<1>4. Gap(u) \in Nat /\ Gap(u) >= 1 /\ LongestDelay \in Nat
  BY GapType, Times
<1>5. ASSUME NEW d \in S, d[2] = PowerOn(u)
      PROVE  \E f \in S2 : f[2] \in Raising(u, x) /\ f[1] >= d[1] + Gap(u)
  <2>1. PICK f \in S : f[2] \in Raising(u, x) /\ f[1] >= d[1] + Gap(u)
    BY <1>1, <1>5 DEF RaisedAfterOn
  <2>2. f # e
    BY <1>2, <1>4, <2>1
  <2> QED
    BY <1>3, <2>1, <2>2
<1>6. RaisedAfterOn(u, S2, x)
  BY <1>3, <1>5 DEF RaisedAfterOn
<1>7. ASSUME NEW d \in S2, d[2] \in Lowering(u, x)
      PROVE  \/ \E f \in S2 : f[2] = PowerOff(u) /\ f[1] > d[1]
             \/ /\ d[2] = Lower(x) /\ u \in Biasing /\ d[1] <= 12
                /\ \/ u \notin p2
                   \/ Has(S2, PowerOff(u))
                   \/ \E f \in S2 : f[2] \in Raising(u, x) /\ f[1] > d[1]
  <2>1. d \in S /\ d[1] \in Int /\ e[1] <= d[1]
    BY <1>2, <1>3
  <2>2. \A f \in S : f[1] > d[1] => f \in S2
    BY <1>2, <1>3, <2>1
  <2>3. CASE \E f \in S : f[2] = PowerOff(u) /\ f[1] > d[1]
    BY <2>2, <2>3
  <2>4. CASE /\ d[2] = Lower(x) /\ u \in Biasing /\ d[1] <= 12
             /\ \/ u \notin p
                \/ Has(S, PowerOff(u))
                \/ \E f \in S : f[2] \in Raising(u, x) /\ f[1] > d[1]
    <3>1. CASE \E f \in S : f[2] \in Raising(u, x) /\ f[1] > d[1]
      BY <2>2, <2>4, <3>1
    <3>2. CASE Has(S, PowerOff(u))
      <4>1. CASE e[2] = PowerOff(u)
        <5>1. u \notin p2
          BY <4>1, OwnerAndKind DEF PoweredBy
        <5> QED
          BY <2>4, <5>1
      <4>2. CASE e[2] # PowerOff(u)
        BY <1>3, <2>4, <3>2, <4>2 DEF Has
      <4> QED
        BY <4>1, <4>2
    <3>3. CASE u \notin p
      <4>1. CASE e[2] = PowerOn(u)
        <5>1. PICK f \in S2 : f[2] \in Raising(u, x) /\ f[1] >= e[1] + Gap(u)
          BY <1>3, <1>5, <4>1
        <5>2. f[1] \in Int /\ Gap(u) - LongestDelay > 12
          BY <1>2, <1>3, <2>4, LongGap
        <5>3. f[1] > d[1]
          BY <1>3, <1>4, <2>1, <2>4, <5>1, <5>2
        <5> QED
          BY <2>4, <5>1, <5>3
      <4>2. CASE e[2] # PowerOn(u)
        BY <2>4, <3>3, <4>2 DEF PoweredBy
      <4> QED
        BY <4>1, <4>2
    <3> QED
      BY <2>4, <3>1, <3>2, <3>3
  <2> QED
    BY <1>1, <1>7, <2>1, <2>3, <2>4 DEF LoweredForOff
<1>8. LoweredForOff(u, S2, p2, x)
  BY <1>7 DEF LoweredForOff
<1>9. ASSUME u \in p2, x \notin lit2
      PROVE  HasAny(S2, Raising(u, x)) \/ Has(S2, PowerOff(u))
  <2>1. CASE e[2] = PowerOn(u)
    BY <1>3, <1>5, <2>1 DEF HasAny
  <2>2. CASE e[2] # PowerOn(u) /\ x \notin lit
    <3>1. u \in p /\ e[2] # PowerOff(u) /\ e[2] # Raise(x)
      <4>1. u \in p /\ e[2] # PowerOff(u)
        BY <1>9, <2>2 DEF PoweredBy
      <4>2. e[2] # Raise(x)
        BY <1>9 DEF RaisedBy
      <4> QED
        BY <4>1, <4>2
    <3>2. e[2] \notin Raising(u, x)
      BY <3>1 DEF Raising, Leaf, Activate, Deploy
    <3> QED
      BY <1>1, <1>3, <2>2, <3>1, <3>2 DEF RaisedWhileOn, HasAny, Has
  <2>3. CASE e[2] # PowerOn(u) /\ x \in lit
    <3>1. u \in p /\ e[2] # PowerOff(u) /\ e[2] = Lower(x)
      BY <1>9, <2>3 DEF PoweredBy, RaisedBy
    <3>2. e[2] \in Lowering(u, x)
      BY <3>1 DEF Lowering
    <3>3. \/ \E f \in S : f[2] = PowerOff(u)
          \/ \E f \in S : f[2] \in Raising(u, x) /\ f[1] > e[1]
      BY <1>1, <1>3, <3>1, <3>2 DEF LoweredForOff, Has
    <3>4. CASE \E f \in S : f[2] = PowerOff(u)
      BY <1>3, <3>1, <3>4 DEF Has
    <3>5. CASE \E f \in S : f[2] \in Raising(u, x) /\ f[1] > e[1]
      BY <1>2, <1>3, <3>5 DEF HasAny
    <3> QED
      BY <3>3, <3>4, <3>5
  <2> QED
    BY <2>1, <2>2, <2>3
<1>10. RaisedWhileOn(u, S2, p2, lit2, x)
  BY <1>9 DEF RaisedWhileOn
<1> QED
  BY <1>6, <1>8, <1>10

\* What the blocks deployed by a unit contribute: nothing is lowered that the unit's
\* switching off, or the rest of the inactivation, does not account for.
LEMMA NewOnes ==
    ASSUME NEW u \in Unit, NEW x \in Items(u), NEW c,
           \/ c \in {On(u), Off(u), Reset(u)}
           \/ c = Activate(u) /\ u \in Biasing \cup {"INA260"}
           \/ c = Inactivate(u) /\ u \in Biasing,
           NEW d \in Children(u, c)
    PROVE  /\ d[2] = PowerOn(u) =>
                  \E f \in Children(u, c) : f[2] \in Raising(u, x) /\ f[1] >= d[1] + Gap(u)
           /\ d[2] \in Lowering(u, x) =>
                  \/ \E f \in Children(u, c) : f[2] = PowerOff(u) /\ f[1] > d[1]
                  \/ /\ c = Inactivate(u) /\ c \in Lowering(u, x)
                     /\ d[2] = Lower(x) /\ d[1] <= 12
<1>1. /\ \A r \in Raising(u, x) : Kind(r) = "up"
      /\ \A r \in Lowering(u, x) : Kind(r) = "down"
  BY RaisingOwner
<1>2. CASE c = On(u)
  <2>1. d \in OnEntries(u) /\ Owner(d[2]) = u
    BY <1>2, ChildrenOfOn
  <2>2. "none" \notin Unit
    BY DEF Unit, Wheel, Biasing
  <2>3. Kind(d[2]) = "up" /\ (d[2] = PowerOn(u) => d[1] = OnTime(u))
    BY <2>1, <2>2 DEF OnEntries, Neutral
  <2> QED
    BY <1>1, <1>2, <2>3, ChildrenOfOn
<1>3. CASE c = Off(u)
  <2>1. d \in OffEntries(u) /\ Owner(d[2]) = u
    BY <1>3, ChildrenOfOff
  <2>2. "none" \notin Unit
    BY DEF Unit, Wheel, Biasing
  <2>3. /\ Kind(d[2]) = "down"
        /\ d[2][1] \notin {"OFF", "ADD_BIAS"} => d[1] < OffTime(u)
    BY <2>1, <2>2 DEF OffEntries, Neutral
  <2>4. d[2] # PowerOn(u)
    BY <2>3, OwnerAndKind
  <2>5. ASSUME d[2] \in Lowering(u, x)
        PROVE  d[2][1] \notin {"OFF", "ADD_BIAS"}
    BY <2>5 DEF Lowering, Lower, Inactivate, Deploy, InactivateRule, DisableLogging
  <2>6. <<OffTime(u), PowerOff(u)>> \in Children(u, c)
    BY <1>3, ChildrenOfOff
  <2>7. /\ <<OffTime(u), PowerOff(u)>>[1] = OffTime(u)
        /\ <<OffTime(u), PowerOff(u)>>[2] = PowerOff(u)
    OBVIOUS
  <2>8. OffTime(u) \in Int /\ d[1] \in Int
    BY <2>1, OffTimes DEF OffEntries, Entry
  <2> QED
    BY <2>3, <2>4, <2>5, <2>6, <2>7, <2>8
<1>4. CASE c = Reset(u)
  <2>1. d[2] \in {Off(u), On(u)}
    BY <1>4, ChildrenOfReset DEF ResetEntries
  <2> QED
    BY <1>1, <2>1, OwnerAndKind
<1>5. CASE c = Activate(u) /\ u \in Biasing \cup {"INA260"}
  <2>1. d \in UpLeaves(u)
    BY <1>5, ChildrenOfActivate
  <2>2. d[2][1] \in {"ACTIVATE_RULE", "ENABLE_LOGGING"}
    BY <2>1 DEF UpLeaves, Raises
  <2>3. d[2] # PowerOn(u) /\ Kind(d[2]) = "up"
    BY <2>2 DEF PowerOn, Kind
  <2> QED
    BY <1>1, <2>3
<1>6. CASE c = Inactivate(u) /\ u \in Biasing
  <2>1. d \in DownLeaves(u) /\ d \in Elements(SwitchingBlock(<<"INACTIVATE", u>>))
    <3>1. <<"INACTIVATE", u>> \in BlockId
      BY <1>6 DEF BlockId
    <3>2. d \in {k \in Elements(Block(<<"INACTIVATE", u>>)) : Owner(k[2]) = u}
      BY <1>6 DEF Children, Inactivate, Deploy
    <3> QED
      BY <1>6, <3>1, <3>2, ChildrenOfInactivate, OwnedOfBlock
  <2>2. d[1] <= 12 /\ d[2][1] \in {"INACTIVATE_RULE", "DISABLE_LOGGING"}
    BY <2>1 DEF DownLeaves, Lowers
  <2>3. d[2] # PowerOn(u) /\ d[2] # Inactivate(u)
    BY <2>2 DEF PowerOn, Inactivate, Deploy
  <2>4. ASSUME d[2] \in Lowering(u, x)
        PROVE  d[2] = Lower(x) /\ c \in Lowering(u, x)
    <3>1. d[2] = Lower(x)
      BY <2>3, <2>4 DEF Lowering
    <3>2. Has(Elements(SwitchingBlock(<<"INACTIVATE", u>>)), Lower(x))
      BY <2>1, <3>1 DEF Has
    <3> QED
      BY <1>6, <3>1, <3>2 DEF Lowering
  <2> QED
    BY <1>6, <2>2, <2>3, <2>4
<1> QED
  BY <1>2, <1>3, <1>4, <1>5, <1>6

LEMMA WatchedOnDeploy ==
    ASSUME NEW u \in Unit, NEW S, Belongs(u, S), NEW e, NEW S2, Runs(u, S, e, S2),
           \/ e[2] \in {On(u), Off(u), Reset(u)}
           \/ e[2] = Activate(u) /\ u \in Biasing \cup {"INA260"}
           \/ e[2] = Inactivate(u) /\ u \in Biasing,
           NEW p, NEW p2, PoweredBy(u, e[2], p, p2),
           NEW lit, NEW lit2, RaisedBy(u, e[2], lit, lit2), WatchedOn(u, S, p, lit)
    PROVE  WatchedOn(u, S2, p2, lit2)
<1> SUFFICES ASSUME NEW x \in Items(u)
             PROVE  /\ RaisedAfterOn(u, S2, x)
                    /\ LoweredForOff(u, S2, p2, x)
                    /\ RaisedWhileOn(u, S2, p2, lit2, x)
  BY DEF WatchedOn
<1> DEFINE K == Children(u, e[2])
<1>1. /\ RaisedAfterOn(u, S, x) /\ LoweredForOff(u, S, p, x) /\ RaisedWhileOn(u, S, p, lit, x)
  BY DEF WatchedOn
<1>2. \A f \in S : f[1] \in Int /\ e[1] <= f[1]
  BY EntryType DEF Belongs, Runs
<1>3. /\ \A f \in S : f # e => f \in S2
      /\ \A f \in K : f \in S2
      /\ \A f \in S2 : f \in S \/ f \in K
      /\ e \in S /\ e[1] \in Int
  BY <1>2 DEF Runs
<1>4. Gap(u) \in Nat /\ Gap(u) >= 1
  BY GapType
<1>5. /\ e[2] # PowerOn(u) /\ e[2] # PowerOff(u) /\ e[2] # Raise(x) /\ e[2] # Lower(x)
  BY DeploysOnly
<1>6. /\ u \in p2 <=> u \in p
      /\ x \in lit2 <=> x \in lit
  <2>1. u \in p2 <=> u \in p
    BY <1>5 DEF PoweredBy
  <2>2. x \in lit2 <=> x \in lit
    BY <1>5 DEF RaisedBy
  <2> QED
    BY <2>1, <2>2
<1>7. \A d \in K :
          /\ d[2] = PowerOn(u) => \E f \in K : f[2] \in Raising(u, x) /\ f[1] >= d[1] + Gap(u)
          /\ d[2] \in Lowering(u, x) =>
                 \/ \E f \in K : f[2] = PowerOff(u) /\ f[1] > d[1]
                 \/ /\ e[2] = Inactivate(u) /\ e[2] \in Lowering(u, x)
                    /\ d[2] = Lower(x) /\ d[1] <= 12
  BY NewOnes
<1> HIDE DEF K
<1>8. ASSUME NEW d \in S, d[2] = PowerOn(u)
      PROVE  \E f \in S2 : f[2] \in Raising(u, x) /\ f[1] >= d[1] + Gap(u)
  <2>1. PICK f \in S : f[2] \in Raising(u, x) /\ f[1] >= d[1] + Gap(u)
    BY <1>1, <1>8 DEF RaisedAfterOn
  <2>2. f # e
    BY <1>2, <1>4, <2>1
  <2> QED
    BY <1>3, <2>1, <2>2
<1>9. RaisedAfterOn(u, S2, x)
  BY <1>3, <1>7, <1>8 DEF RaisedAfterOn
<1>10. Has(S, PowerOff(u)) => Has(S2, PowerOff(u))
  BY <1>3, <1>5 DEF Has
<1>11. ASSUME NEW d \in S, d[2] \in Lowering(u, x)
       PROVE  \/ \E f \in S2 : f[2] = PowerOff(u) /\ f[1] > d[1]
              \/ /\ d[2] = Lower(x) /\ u \in Biasing /\ d[1] <= 12
                 /\ \/ u \notin p2
                    \/ Has(S2, PowerOff(u))
                    \/ \E f \in S2 : f[2] \in Raising(u, x) /\ f[1] > d[1]
  <2>1. d[1] \in Int /\ e[1] <= d[1]
    BY <1>2
  <2>2. \A f \in S : f[1] > d[1] => f \in S2
    BY <1>2, <1>3, <2>1
  <2> QED
    BY <1>1, <1>6, <1>10, <1>11, <2>2 DEF LoweredForOff
<1>12. ASSUME NEW d \in K, d[2] \in Lowering(u, x)
       PROVE  \/ \E f \in S2 : f[2] = PowerOff(u) /\ f[1] > d[1]
              \/ /\ d[2] = Lower(x) /\ u \in Biasing /\ d[1] <= 12
                 /\ Has(S2, PowerOff(u))
  <2>1. CASE \E f \in K : f[2] = PowerOff(u) /\ f[1] > d[1]
    BY <1>3, <2>1
  <2>2. CASE /\ e[2] = Inactivate(u) /\ e[2] \in Lowering(u, x)
             /\ d[2] = Lower(x) /\ d[1] <= 12
    <3>1. Has(S, PowerOff(u))
      BY <1>1, <1>3, <1>5, <2>2 DEF LoweredForOff, Has
    <3>2. u \in Biasing
      BY <2>2, OwnerAndKind
    <3> QED
      BY <1>10, <2>2, <3>1, <3>2
  <2> QED
    BY <1>7, <1>12, <2>1, <2>2
<1>13. LoweredForOff(u, S2, p2, x)
  BY <1>3, <1>11, <1>12 DEF LoweredForOff
<1>14. ASSUME u \in p2, x \notin lit2
       PROVE  HasAny(S2, Raising(u, x)) \/ Has(S2, PowerOff(u))
  <2>1. HasAny(S, Raising(u, x)) \/ Has(S, PowerOff(u))
    BY <1>1, <1>6, <1>14 DEF RaisedWhileOn
  <2>2. CASE Has(S, PowerOff(u))
    BY <1>10, <2>2
  <2>3. CASE HasAny(S, Raising(u, x))
    <3>1. PICK f \in S : f[2] \in Raising(u, x)
      BY <2>3 DEF HasAny
    <3>2. CASE f # e
      BY <1>3, <3>1, <3>2 DEF HasAny
    <3>3. CASE f = e
      <4>1. e[2] = Activate(u) /\ u \in Biasing \cup {"INA260"} /\ Activate(u) \in Raising(u, x)
        BY <1>5, <3>1, <3>3 DEF Raising
      <4>2. Has(K, Raise(x))
        BY <4>1, ChildrenOfActivate DEF K
      <4> QED
        BY <1>3, <4>2 DEF Has, HasAny, Raising
    <3> QED
      BY <3>2, <3>3
  <2> QED
    BY <2>1, <2>2, <2>3
<1>15. RaisedWhileOn(u, S2, p2, lit2, x)
  BY <1>14 DEF RaisedWhileOn
<1> QED
  BY <1>9, <1>13, <1>15

LEMMA WatchedOnRuns ==
    ASSUME NEW u \in Unit, NEW S, Belongs(u, S), NEW e, NEW S2, Runs(u, S, e, S2),
           NEW p, NEW p2, PoweredBy(u, e[2], p, p2),
           NEW lit, NEW lit2, RaisedBy(u, e[2], lit, lit2), WatchedOn(u, S, p, lit)
    PROVE  WatchedOn(u, S2, p2, lit2)
<1>1. e[2] \in Command /\ Owner(e[2]) = u
  BY EntryType DEF Belongs, Runs
<1>2. \/ e[2] \in Leaf(u)
      \/ e[2] \in {On(u), Off(u), Reset(u)}
      \/ e[2] = Activate(u) /\ u \in Biasing \cup {"INA260"}
      \/ e[2] = Inactivate(u) /\ u \in Biasing
  BY <1>1, OwnedCommands
<1>3. CASE e[2] \in Leaf(u)
  BY <1>3, WatchedOnLeaf
<1>4. CASE \/ e[2] \in {On(u), Off(u), Reset(u)}
           \/ e[2] = Activate(u) /\ u \in Biasing \cup {"INA260"}
           \/ e[2] = Inactivate(u) /\ u \in Biasing
  BY <1>4, WatchedOnDeploy
<1> QED
  BY <1>2, <1>3, <1>4

-----------------------------------------------------------------------------
(* What the steps of the system do to the entries of a unit. *)

Pending == Elements(timeline)
Owned(u, P) == {e \in P : Owner(e[2]) = u}
Lit == ({"RULE"} \X active) \cup ({"GROUP"} \X logging)

\* The entries a cycle later.
Sooner(S) == {<<e[1] - 1, e[2]>> : e \in S}

LEMMA OwnedBelongs ==
    ASSUME timeline \in Seq(Entry)
    PROVE  /\ \A e \in Pending : e \in Entry
           /\ \A u : Belongs(u, Owned(u, Pending))
<1>1. \A i \in DOMAIN timeline : timeline[i] \in Entry
  OBVIOUS
<1>2. \A e \in Pending : e \in Entry
  BY <1>1 DEF Pending, Elements
<1> QED
  BY <1>2 DEF Belongs, Owned

\* A block has no entries of a unit other than its own.
LEMMA BlockOwners ==
    ASSUME NEW b \in BlockId, NEW k \in Elements(Block(b))
    PROVE  Owner(k[2]) \in {b[2], "none"} /\ k[2][1] # "CLEAR_BIAS" /\ k[2] # FinishTransition
<1>1. \A c \in Neutral : Owner(c) = "none" /\ c[1] # "CLEAR_BIAS" /\ c # FinishTransition
  BY DEF Neutral
<1>2. ASSUME NEW u \in Unit, NEW c, Owner(c) = u
      PROVE  c[1] # "CLEAR_BIAS" /\ c # FinishTransition
  <2>1. u # "none"
    BY DEF Unit, Wheel, Biasing
  <2> QED
    BY <1>2, <2>1 DEF Owner, FinishTransition
<1>10. SUFFICES ASSUME k \in Elements(SwitchingBlock(b))
       PROVE  Owner(k[2]) \in {b[2], "none"} /\ k[2][1] # "CLEAR_BIAS" /\ k[2] # FinishTransition
  BY BlockElements, OwnerAndKind
<1>3. CASE b[1] = "ON" /\ b[2] \in Unit
  <2>1. k \in OnEntries(b[2])
    BY <1>3, <1>10, OnBlock DEF SwitchingBlock, OnGood, OnStart, Within
  <2> QED
    BY <1>1, <1>2, <1>3, <2>1 DEF OnEntries
<1>4. CASE b[1] = "OFF" /\ b[2] \in Unit
  <2>1. k \in OffEntries(b[2])
    BY <1>4, <1>10, OffBlock DEF SwitchingBlock, OffGood, Within
  <2> QED
    BY <1>1, <1>2, <1>4, <2>1 DEF OffEntries
<1>5. CASE b[1] = "RESET" /\ b[2] \in Unit
  <2>1. k \in Elements(ResetBlock(b[2]))
    BY <1>5, <1>10 DEF SwitchingBlock
  <2>2. k[2] \in {On(b[2]), Off(b[2])} \/ k[2] = Deploy(<<"OC_LIMIT", "INA260">>)
    <3>1. \A u : \A e \in ResetEntries(u) : e[2] \in {On(u), Off(u)}
      BY DEF ResetEntries
    <3> QED
      BY <1>5, <2>1, <3>1, ResetOfUnit
  <2> QED
    BY <2>2 DEF Owner, On, Off, Deploy, Common, FinishTransition
<1>6. CASE b[1] = "ACTIVATE" /\ b[2] \in Biasing \cup {"INA260"}
  <2>1. k \in UpLeaves(b[2])
    <3>1. b = <<"ACTIVATE", b[2]>>
      BY <1>6 DEF BlockId
    <3> QED
      BY <1>6, <1>10, <3>1, WatchFacts DEF Within
  <2> QED
    BY <2>1 DEF UpLeaves, Raises, FinishTransition
<1>7. CASE b[1] = "INACTIVATE" /\ b[2] \in Biasing
  <2>1. k \in DownLeaves(b[2])
    <3>1. b = <<"INACTIVATE", b[2]>>
      BY <1>7 DEF BlockId
    <3> QED
      BY <1>7, <1>10, <3>1, WatchFacts DEF Within
  <2> QED
    BY <2>1 DEF DownLeaves, Lowers, FinishTransition
<1>8. CASE b = <<"OC_LIMIT", "INA260">>
  BY <1>1, <1>8, <1>10, LimitBlock
<1>11. CASE b[1] \in {"SET_PARAMETER", "READ_PARAMETER"}
  BY <1>10, <1>11 DEF SwitchingBlock, Elements
<1>9. \/ b[1] \in {"ON", "OFF", "RESET"} /\ b[2] \in Unit
      \/ b[1] = "ACTIVATE" /\ b[2] \in Biasing \cup {"INA260"}
      \/ b[1] = "INACTIVATE" /\ b[2] \in Biasing
      \/ b = <<"OC_LIMIT", "INA260">>
      \/ b[1] \in {"SET_PARAMETER", "READ_PARAMETER"}
  BY DEF BlockId
<1> QED
  BY <1>3, <1>4, <1>5, <1>6, <1>7, <1>8, <1>9, <1>11

LEMMA OthersChildren ==
    ASSUME NEW u \in Unit, NEW c \in Command, Owner(c) # u
    PROVE  Children(u, c) = {}
<1>1. u # "none"
  BY DEF Unit, Wheel, Biasing
<1>2. CASE c[1] = "DEPLOY"
  <2>1. c[2] \in BlockId /\ c = Deploy(c[2])
    BY <1>2 DEF Command, Deploy, FinishTransition, OwnCommand
  <2>2. Owner(c) = IF c[2][1] \in Common THEN "none" ELSE c[2][2]
    BY <1>2 DEF Owner
  <2>3. CASE c[2][1] \notin Common
    BY <1>1, <2>1, <2>2, <2>3, BlockOwners DEF Children
  <2>4. CASE c[2][1] \in Common
    <3>1. \A k \in Elements(SwitchingBlock(c[2])) : Owner(k[2]) = "none"
      <4>1. \/ c[2] = <<"OC_LIMIT", "INA260">>
            \/ c[2][1] \in {"SET_PARAMETER", "READ_PARAMETER"}
        BY <2>1, <2>4 DEF BlockId, Common
      <4>2. CASE c[2][1] \in {"SET_PARAMETER", "READ_PARAMETER"}
        BY <4>2 DEF SwitchingBlock, Elements
      <4> QED
        BY <4>1, <4>2, LimitBlock DEF Neutral
    <3>2. \A k \in Elements(Block(c[2])) : Owner(k[2]) = "none"
      BY <2>1, <3>1, BlockElements, OwnerAndKind
    <3> QED
      BY <1>1, <3>2 DEF Children
  <2> QED
    BY <2>3, <2>4
<1>3. CASE c[1] # "DEPLOY"
  BY <1>3 DEF Children
<1> QED
  BY <1>2, <1>3

\* No two entries have the command c.
Single(s, c) == \A i, j \in DOMAIN s : s[i][2] = c /\ s[j][2] = c => i = j

LEMMA SingleWithout ==
    ASSUME timeline \in Seq(Entry), NEW i \in DOMAIN timeline, NEW c, Single(timeline, c)
    PROVE  /\ Single(Without(i), c)
           /\ timeline[i][2] = c => ~Has(Elements(Without(i)), c)
<1> DEFINE n == Len(timeline)
           place(k) == IF k < i THEN k ELSE k + 1
<1>1. /\ n \in Nat /\ i \in 1..n /\ DOMAIN timeline = 1..n
      /\ DOMAIN Without(i) = 1..(n - 1)
      /\ \A k \in 1..(i - 1) : Without(i)[k] = timeline[k]
      /\ \A k \in i..(n - 1) : Without(i)[k] = timeline[k + 1]
  BY WithoutPlaces
<1>2. ASSUME NEW k \in DOMAIN Without(i)
      PROVE  /\ place(k) \in DOMAIN timeline /\ place(k) # i
             /\ Without(i)[k] = timeline[place(k)]
  <2>1. CASE k < i
    BY <1>1, <2>1
  <2>2. CASE ~(k < i)
    <3>1. k \in i..(n - 1) /\ place(k) = k + 1
      BY <1>1, <2>2
    <3> QED
      BY <1>1, <3>1
  <2> QED
    BY <2>1, <2>2
<1>3. \A k, l \in DOMAIN Without(i) : place(k) = place(l) => k = l
  BY <1>1
<1> HIDE DEF place, n
<1>4. Single(Without(i), c)
  BY <1>2, <1>3 DEF Single
<1>5. timeline[i][2] = c => ~Has(Elements(Without(i)), c)
  BY <1>2 DEF Single, Has, Elements
<1> QED
  BY <1>4, <1>5

LEMMA SingleConcat ==
    ASSUME NEW s \in Seq(Entry), NEW t \in Seq(Entry), NEW c, Single(s, c), Single(t, c),
           ~Has(Elements(s), c) \/ ~Has(Elements(t), c)
    PROVE  Single(s \o t, c)
<1> SUFFICES ASSUME NEW i \in DOMAIN (s \o t), NEW j \in DOMAIN (s \o t),
                    (s \o t)[i][2] = c, (s \o t)[j][2] = c
             PROVE  i = j
  BY DEF Single
<1>1. /\ DOMAIN (s \o t) = 1..(Len(s) + Len(t))
      /\ Len(s) \in Nat /\ Len(t) \in Nat /\ DOMAIN s = 1..Len(s) /\ DOMAIN t = 1..Len(t)
      /\ \A k \in 1..Len(s) : (s \o t)[k] = s[k]
      /\ \A k \in 1..Len(t) : (s \o t)[Len(s) + k] = t[k]
  BY ConcatProperties
<1>2. ASSUME NEW k \in DOMAIN (s \o t)
      PROVE  \/ k \in DOMAIN s /\ (s \o t)[k] = s[k]
             \/ k - Len(s) \in DOMAIN t /\ (s \o t)[k] = t[k - Len(s)]
  <2>1. CASE k <= Len(s)
    BY <1>1, <2>1
  <2>2. CASE ~(k <= Len(s))
    <3>1. k - Len(s) \in 1..Len(t) /\ Len(s) + (k - Len(s)) = k
      BY <1>1, <2>2
    <3> QED
      BY <1>1, <3>1
  <2> QED
    BY <2>1, <2>2
<1>3. CASE ~Has(Elements(s), c)
  <2>1. \A k \in DOMAIN s : s[k][2] # c
    BY <1>3 DEF Has, Elements
  <2>2. i - Len(s) = j - Len(s)
    BY <1>2, <2>1 DEF Single
  <2> QED
    BY <1>1, <2>2
<1>4. CASE ~Has(Elements(t), c)
  <2>1. \A k \in DOMAIN t : t[k][2] # c
    BY <1>4 DEF Has, Elements
  <2> QED
    BY <1>2, <2>1 DEF Single
<1> QED
  BY <1>3, <1>4

\* The dispatcher executes the entry e, which is due before all others.
New(c) == IF c[1] = "DEPLOY" THEN Elements(Block(c[2])) ELSE {}
Executes(e) ==
    /\ \A c : Single(timeline, c) /\ ~Has(New(e[2]), c) =>
                  Single(timeline', c) /\ (e[2] = c => ~Has(Pending', c))
    /\ \A c : ~Has(Pending, c) /\ e[2][1] = "DEPLOY" /\ Single(Block(e[2][2]), c) =>
                  Single(timeline', c)
    /\ e \in Pending /\ e \in Entry
    /\ \A f \in Pending : e[1] <= f[1]
    /\ -LongestDelay <= e[1] /\ e[1] <= 0
    /\ \A f \in Pending : f # e => f \in Pending'
    /\ \A f \in New(e[2]) : f \in Pending'
    /\ \A f \in Pending' : f \in Pending \/ f \in New(e[2])
    /\ Execute(e[2])

Idles == UNCHANGED <<timeline, in_progress, switching, handling, initialized, attitude>>

LEMMA ExecutesEntry ==
    ASSUME IInv, Timely, NEW i \in DOMAIN timeline, IsNext(i), Execute(timeline[i][2]),
           timeline' = Without(i) \o (IF timeline[i][2][1] = "DEPLOY"
                                        THEN Block(timeline[i][2][2]) ELSE << >>)
    PROVE  Executes(timeline[i])
<1> DEFINE e == timeline[i]
           new == IF e[2][1] = "DEPLOY" THEN Block(e[2][2]) ELSE << >>
<1>1. timeline \in Seq(Entry)
  BY DEF IInv, Proper
<1>2. e \in Pending /\ e \in Entry
  BY <1>1, OwnedBelongs DEF Pending, Elements
<1>3. new \in Seq(Entry) /\ Elements(new) = New(e[2])
  <2>1. CASE e[2][1] = "DEPLOY"
    <3>1. e[2][2] \in BlockId
      BY <1>2, <2>1 DEF Entry, Command, FinishTransition, OwnCommand
    <3> QED
      BY <2>1, <3>1, BlockIsProper DEF Proper, New
  <2>2. CASE e[2][1] # "DEPLOY"
    BY <2>2 DEF New, Elements
  <2> QED
    BY <2>1, <2>2
<1>4. Without(i) \in Seq(Entry)
  BY <1>1, WithoutEntries
<1>5. Pending' = Elements(Without(i)) \cup New(e[2])
  <2>1. timeline' = Without(i) \o new
    OBVIOUS
  <2> HIDE DEF new
  <2>2. Elements(Without(i) \o new) = Elements(Without(i)) \cup Elements(new)
    BY <1>3, <1>4, JoinElements
  <2> QED
    BY <1>3, <2>1, <2>2 DEF Pending, Elements
<1>6. ASSUME NEW f \in Pending, f # e
      PROVE  f \in Elements(Without(i))
  <2>1. PICK j \in DOMAIN timeline : f = timeline[j]
    BY DEF Pending, Elements
  <2>2. j # i
    BY <1>6, <2>1
  <2>3. \E k \in DOMAIN Without(i) : Without(i)[k] = timeline[j]
    BY <1>1, <2>2, WithoutEntries
  <2> QED
    BY <2>1, <2>3 DEF Elements
<1>7. \A f \in Elements(Without(i)) : f \in Pending
  BY <1>1, WithoutEntries DEF Pending, Elements
<1>8. \A f \in Pending : e[1] <= f[1]
  <2>1. \A j \in DOMAIN timeline : e[1] < timeline[j][1] \/ e[1] = timeline[j][1]
    BY DEF IsNext
  <2>2. \A j \in DOMAIN timeline : timeline[j][1] \in Int
    BY <1>1 DEF Entry
  <2> QED
    BY <2>1, <2>2 DEF Pending, Elements
<1>9. -LongestDelay <= e[1] /\ e[1] <= 0
  <2>1. e[1] \in Int /\ LongestDelay \in Nat
    BY <1>2, Times DEF Entry
  <2> QED
    BY <2>1 DEF Timely, IsNext, Due
<1>10. ASSUME NEW c, Single(timeline, c), ~Has(New(e[2]), c)
       PROVE  Single(timeline', c) /\ (e[2] = c => ~Has(Pending', c))
  <2>1. Single(Without(i), c) /\ (e[2] = c => ~Has(Elements(Without(i)), c))
    BY <1>1, <1>10, SingleWithout
  <2>2. timeline' = Without(i) \o new
    OBVIOUS
  <2>3. ~Has(Elements(new), c)
    BY <1>3, <1>10
  <2> HIDE DEF new, e
  <2>4. Single(new, c)
    BY <2>3 DEF Single, Has, Elements
  <2>5. Single(Without(i) \o new, c)
    BY <1>3, <1>4, <2>1, <2>3, <2>4, SingleConcat
  <2> QED
    BY <1>5, <1>10, <2>1, <2>2, <2>5 DEF Has
<1>11. ASSUME NEW c, ~Has(Pending, c), e[2][1] = "DEPLOY", Single(Block(e[2][2]), c)
       PROVE  Single(timeline', c)
  <2>1. ~Has(Elements(Without(i)), c)
    BY <1>7, <1>11 DEF Has
  <2>2. Single(Without(i), c)
    BY <2>1 DEF Single, Has, Elements
  <2>3. Single(new, c)
    BY <1>11
  <2>4. timeline' = Without(i) \o new
    OBVIOUS
  <2> HIDE DEF new, e
  <2>5. Single(Without(i) \o new, c)
    BY <1>3, <1>4, <2>1, <2>2, <2>3, SingleConcat
  <2> QED
    BY <2>4, <2>5
<1> HIDE DEF e, new
<1> QED
  BY <1>2, <1>5, <1>6, <1>7, <1>8, <1>9, <1>10, <1>11 DEF Executes, e

LEMMA Dispatches ==
    ASSUME IInv, Timely, TLC_DISPATCHER_BC
    PROVE  Idles \/ \E e \in Pending : Executes(e)
<1>1. CASE \E i \in DOMAIN timeline :
               /\ IsNext(i)
               /\ Execute(timeline[i][2])
               /\ timeline' = Without(i) \o (IF timeline[i][2][1] = "DEPLOY"
                                               THEN Block(timeline[i][2][2]) ELSE << >>)
  <2>1. PICK i \in DOMAIN timeline :
            /\ IsNext(i)
            /\ Execute(timeline[i][2])
            /\ timeline' = Without(i) \o (IF timeline[i][2][1] = "DEPLOY"
                                            THEN Block(timeline[i][2][2]) ELSE << >>)
    BY <1>1
  <2>2. Executes(timeline[i])
    BY <2>1, ExecutesEntry
  <2> QED
    BY <2>2 DEF Executes
<1>2. CASE UNCHANGED <<timeline, in_progress, switching, handling, initialized, attitude>>
  BY <1>2 DEF Idles
<1> QED
  BY <1>1, <1>2 DEF TLC_DISPATCHER_BC

\* What it does to the powered units and the items.
LEMMA ExecutedPower ==
    ASSUME NEW c \in Command, Execute(c)
    PROVE  \A u \in Unit : PoweredBy(u, c, powered, powered')
<1>1. CASE c[1] \in {"ON", "OFF"}
  <2>1. \/ c = PowerOn(c[2]) /\ powered' = powered \cup {c[2]}
        \/ c = PowerOff(c[2]) /\ powered' = powered \ {c[2]}
    BY <1>1 DEF Command, FinishTransition, OwnCommand, Execute, Cmd_APP_PSC_CONTROL_PORT,
       Cmd_DI_INA260_INIT, Cmd_DI_INA260_SET_OVER_CURRENT_PROTECTION, Cmd_EL_LOGGING,
       Cmd_EH_ACTIVATE_RULE, Cmd_DI_RM3100_SET_MAG_BIAS_COMPO_NT,
       Cmd_APP_GYRO_SELECTOR_SET_STATE, PowerOn, PowerOff
  <2>2. \A u, v : /\ PowerOn(u) = PowerOn(v) => u = v
                  /\ PowerOff(u) = PowerOff(v) => u = v
                  /\ PowerOn(u) # PowerOff(v)
    BY DEF PowerOn, PowerOff
  <2> QED
    BY <2>1, <2>2 DEF PoweredBy
<1>2. CASE c[1] \notin {"ON", "OFF"}
  <2>1. powered' = powered
    BY <1>2 DEF Execute, Cmd_APP_PSC_CONTROL_PORT, switching
  <2>2. \A u : c # PowerOn(u) /\ c # PowerOff(u)
    BY <1>2 DEF PowerOn, PowerOff
  <2> QED
    BY <2>1, <2>2 DEF PoweredBy
<1> QED
  BY <1>1, <1>2

LEMMA ExecutedItems ==
    ASSUME NEW c \in Command, Execute(c)
    PROVE  \A u \in Unit : RaisedBy(u, c, Lit, Lit')
<1>1. SUFFICES ASSUME NEW u \in Unit, NEW x \in Items(u)
               PROVE  x \in Lit' <=> c = Raise(x) \/ (x \in Lit /\ c # Lower(x))
  BY DEF RaisedBy
<1>2. \/ x[1] = "RULE" /\ x = <<"RULE", x[2]>>
      \/ x[1] = "GROUP" /\ x = <<"GROUP", x[2]>>
  BY DEF Items
<1>3. /\ \A a : c = ActivateRule(a) => /\ c[1] = "ACTIVATE_RULE" /\ c[2] = a
      /\ \A a : c = InactivateRule(a) => /\ c[1] = "INACTIVATE_RULE" /\ c[2] = a
      /\ \A a : c = EnableLogging(a) => /\ c[1] = "ENABLE_LOGGING" /\ c[2] = a
      /\ \A a : c = DisableLogging(a) => /\ c[1] = "DISABLE_LOGGING" /\ c[2] = a
  BY DEF ActivateRule, InactivateRule, EnableLogging, DisableLogging
<1>4. /\ c[1] = "ACTIVATE_RULE" => c = ActivateRule(c[2])
      /\ c[1] = "INACTIVATE_RULE" => c = InactivateRule(c[2])
      /\ c[1] = "ENABLE_LOGGING" => c = EnableLogging(c[2])
      /\ c[1] = "DISABLE_LOGGING" => c = DisableLogging(c[2])
  BY DEF Command, FinishTransition, OwnCommand, ActivateRule, InactivateRule, EnableLogging,
     DisableLogging
<1>5. CASE x[1] = "RULE"
  <2>1. \/ c[1] \in {"ACTIVATE_RULE", "INACTIVATE_RULE"}
           /\ \/ c[1] = "ACTIVATE_RULE" /\ active' = active \cup {c[2]}
              \/ c[1] = "INACTIVATE_RULE" /\ active' = active \ {c[2]}
        \/ c[1] \notin {"ACTIVATE_RULE", "INACTIVATE_RULE"} /\ active' = active
    BY DEF Execute, handling, Cmd_APP_PSC_CONTROL_PORT, FinishTransition, OwnCommand,
       Cmd_DI_INA260_INIT, Cmd_DI_INA260_SET_OVER_CURRENT_PROTECTION, Cmd_EL_LOGGING,
       Cmd_EH_ACTIVATE_RULE, Cmd_DI_RM3100_SET_MAG_BIAS_COMPO_NT, Cmd_APP_GYRO_SELECTOR_SET_STATE
  <2>2. x \in Lit' <=> x[2] \in active'
    BY <1>2, <1>5 DEF Lit
  <2>3. x \in Lit <=> x[2] \in active
    BY <1>2, <1>5 DEF Lit
  <2>4. Raise(x) = ActivateRule(x[2]) /\ Lower(x) = InactivateRule(x[2])
    BY <1>5 DEF Raise, Lower
  <2> QED
    BY <1>3, <1>4, <2>1, <2>2, <2>3, <2>4
<1>6. CASE x[1] = "GROUP"
  <2>1. \/ c[1] \in {"ENABLE_LOGGING", "DISABLE_LOGGING"}
           /\ \/ c[1] = "ENABLE_LOGGING" /\ logging' = logging \cup {c[2]}
              \/ c[1] = "DISABLE_LOGGING" /\ logging' = logging \ {c[2]}
        \/ c[1] \notin {"ENABLE_LOGGING", "DISABLE_LOGGING"} /\ logging' = logging
    BY DEF Execute, handling, Cmd_APP_PSC_CONTROL_PORT, FinishTransition, OwnCommand,
       Cmd_DI_INA260_INIT, Cmd_DI_INA260_SET_OVER_CURRENT_PROTECTION, Cmd_EL_LOGGING,
       Cmd_EH_ACTIVATE_RULE, Cmd_DI_RM3100_SET_MAG_BIAS_COMPO_NT, Cmd_APP_GYRO_SELECTOR_SET_STATE
  <2>2. x \in Lit' <=> x[2] \in logging'
    BY <1>2, <1>6 DEF Lit
  <2>3. x \in Lit <=> x[2] \in logging
    BY <1>2, <1>6 DEF Lit
  <2>4. Raise(x) = EnableLogging(x[2]) /\ Lower(x) = DisableLogging(x[2])
    BY <1>6 DEF Raise, Lower
  <2> QED
    BY <1>3, <1>4, <2>1, <2>2, <2>3, <2>4
<1> QED
  BY <1>2, <1>5, <1>6

LEMMA ExecutesOwned ==
    ASSUME IInv, NEW e, Executes(e), NEW u \in Unit, Owner(e[2]) = u
    PROVE  /\ Runs(u, Owned(u, Pending), e, Owned(u, Pending)')
           /\ PoweredBy(u, e[2], powered, powered')
           /\ RaisedBy(u, e[2], Lit, Lit')
<1>1. e[2] \in Command
  BY EntryType DEF Executes
<1>2. \A k : k \in Children(u, e[2]) <=> k \in New(e[2]) /\ Owner(k[2]) = u
  BY DEF Children, New
<1>3. Runs(u, Owned(u, Pending), e, Owned(u, Pending)')
  BY <1>2 DEF Executes, Runs, Owned
<1> QED
  BY <1>1, <1>3, ExecutedPower, ExecutedItems DEF Executes

\* The step leaves the unit alone.
Untouched(u) ==
    /\ Owned(u, Pending)' = Owned(u, Pending)
    /\ u \in powered' <=> u \in powered
    /\ \A x \in Items(u) : x \in Lit' <=> x \in Lit

LEMMA ExecutesOther ==
    ASSUME IInv, NEW e, Executes(e), NEW u \in Unit, Owner(e[2]) # u
    PROVE  Untouched(u)
<1>1. e[2] \in Command
  BY EntryType DEF Executes
<1>2. \A k \in New(e[2]) : Owner(k[2]) # u
  BY <1>1, OthersChildren DEF Children, New
<1>3. \A f : f \in Owned(u, Pending)' <=> f \in Owned(u, Pending)
  BY <1>2 DEF Executes, Owned
<1>4. e[2] # PowerOn(u) /\ e[2] # PowerOff(u) /\ \A x \in Items(u) : e[2] # Raise(x) /\ e[2] # Lower(x)
  BY OwnerAndKind, ItemCommands
<1>5. u \in powered' <=> u \in powered
  BY <1>1, <1>4, ExecutedPower DEF Executes, PoweredBy
<1>6. \A x \in Items(u) : x \in Lit' <=> x \in Lit
  BY <1>1, <1>4, ExecutedItems DEF Executes, RaisedBy
<1> QED
  BY <1>3, <1>5, <1>6 DEF Untouched

\* A block is deployed without the dispatcher.
LEMMA Deploys ==
    ASSUME IInv, NEW block \in Seq(Entry), timeline' = timeline \o block
    PROVE  /\ Pending' = Pending \cup Elements(block)
           /\ \A u : Owned(u, Pending)' = Owned(u, Pending) \cup Owned(u, Elements(block))
<1>1. Pending' = Pending \cup Elements(block)
  <2>1. Elements(timeline \o block) = Elements(timeline) \cup Elements(block)
    BY JoinElements DEF IInv, Proper
  <2> QED
    BY <2>1 DEF Pending
<1> QED
  BY <1>1 DEF Owned

\* The event handler deploys a block of one unit, or none.
LEMMA Responds ==
    ASSUME NEW u \in Unit, NEW v \in Monitored, NEW matched \in BOOLEAN, NEW broken \in BOOLEAN
    PROVE  LET K == Owned(u, Elements(Response(v, matched, broken)))
           IN  /\ Response(v, matched, broken) \in Seq(Entry)
               /\ K # {} => v = u /\ (matched \/ broken)
               /\ K = {} \/ K = Children(u, Off(u)) \/ K = Children(u, Reset(u))
<1>1. v \in Unit /\ Off(v) \in Command /\ Reset(v) \in Command
  BY SensorType, CommandType DEF BlockId, Off, Reset
<1>2. /\ \A b : Children(u, Deploy(b)) = Owned(u, Elements(Block(b)))
  BY DEF Children, Owned, Deploy
<1>3. \/ Response(v, matched, broken) = Block(<<"OFF", v>>) /\ broken
      \/ Response(v, matched, broken) = Block(<<"RESET", v>>) /\ matched
      \/ Response(v, matched, broken) = << >>
  BY DEF Response
<1>4. <<"OFF", v>> \in BlockId /\ <<"RESET", v>> \in BlockId
  BY <1>1 DEF BlockId
<1>5. /\ Owner(Off(v)) = v /\ Owner(Reset(v)) = v
  BY OwnerAndKind
<1>6. v # u => Children(u, Off(v)) = {} /\ Children(u, Reset(v)) = {}
  BY <1>1, <1>5, OthersChildren
<1>7. Owned(u, Elements(<< >>)) = {} /\ << >> \in Seq(Entry)
  BY DEF Owned, Elements
<1>8. CASE Response(v, matched, broken) = Block(<<"OFF", v>>) /\ broken
  <2>1. Block(<<"OFF", v>>) \in Seq(Entry)
    BY <1>4, BlockIsProper DEF Proper
  <2>2. Owned(u, Elements(Block(<<"OFF", v>>))) = Children(u, Off(v))
    BY <1>2 DEF Off
  <2> QED
    BY <1>6, <1>8, <2>1, <2>2
<1>9. CASE Response(v, matched, broken) = Block(<<"RESET", v>>) /\ matched
  <2>1. Block(<<"RESET", v>>) \in Seq(Entry)
    BY <1>4, BlockIsProper DEF Proper
  <2>2. Owned(u, Elements(Block(<<"RESET", v>>))) = Children(u, Reset(v))
    BY <1>2 DEF Reset
  <2> QED
    BY <1>6, <1>9, <2>1, <2>2
<1>10. CASE Response(v, matched, broken) = << >>
  BY <1>7, <1>10
<1> QED
  BY <1>3, <1>8, <1>9, <1>10

\* A cycle later.
LEMMA Ticks ==
    ASSUME IInv, Tick
    PROVE  /\ Pending' = Sooner(Pending)
           /\ \A u : Owned(u, Pending)' = Sooner(Owned(u, Pending))
<1> DEFINE later == [i \in DOMAIN timeline |-> <<timeline[i][1] - 1, timeline[i][2]>>]
<1>1. timeline' = later
  BY DEF Tick
<1>2. DOMAIN later = DOMAIN timeline
  OBVIOUS
<1>3. \A i \in DOMAIN timeline : later[i] = <<timeline[i][1] - 1, timeline[i][2]>>
  OBVIOUS
<1> HIDE DEF later
<1>4. Pending' = Sooner(Pending)
  BY <1>1, <1>2, <1>3 DEF Pending, Elements, Sooner
<1>5. \A e : <<e[1] - 1, e[2]>>[2] = e[2]
  OBVIOUS
<1> QED
  BY <1>4, <1>5 DEF Owned, Sooner

LEMMA SoonerEntries ==
    ASSUME NEW S, \A e \in S : e[1] \in Int
    PROVE  /\ \A e \in S : \E f \in Sooner(S) : f[1] = e[1] - 1 /\ f[2] = e[2]
           /\ \A f \in Sooner(S) : \E e \in S : f[1] = e[1] - 1 /\ f[2] = e[2] /\ f[1] \in Int
<1>1. ASSUME NEW e \in S
      PROVE  \E f \in Sooner(S) : f[1] = e[1] - 1 /\ f[2] = e[2]
  <2>1. <<e[1] - 1, e[2]>> \in Sooner(S)
    BY DEF Sooner
  <2>2. <<e[1] - 1, e[2]>>[1] = e[1] - 1 /\ <<e[1] - 1, e[2]>>[2] = e[2]
    OBVIOUS
  <2> QED
    BY <2>1, <2>2
<1>2. ASSUME NEW f \in Sooner(S)
      PROVE  \E e \in S : f[1] = e[1] - 1 /\ f[2] = e[2] /\ f[1] \in Int
  <2>1. PICK e \in S : f = <<e[1] - 1, e[2]>>
    BY DEF Sooner
  <2>2. f[1] = e[1] - 1 /\ f[2] = e[2] /\ e[1] \in Int
    BY <2>1
  <2> QED
    BY <2>2
<1> QED
  BY <1>1, <1>2

LEMMA WatchedOnSame ==
    ASSUME NEW u \in Unit, NEW S, NEW p, NEW p2, u \in p2 <=> u \in p,
           NEW lit, NEW lit2, \A x \in Items(u) : x \in lit2 <=> x \in lit,
           WatchedOn(u, S, p, lit)
    PROVE  WatchedOn(u, S, p2, lit2)
BY DEF WatchedOn, RaisedAfterOn, LoweredForOff, RaisedWhileOn

LEMMA WatchedOnSooner ==
    ASSUME NEW u \in Unit, NEW S, Belongs(u, S), NEW p, NEW lit, WatchedOn(u, S, p, lit)
    PROVE  WatchedOn(u, Sooner(S), p, lit)
<1> SUFFICES ASSUME NEW x \in Items(u)
             PROVE  /\ RaisedAfterOn(u, Sooner(S), x)
                    /\ LoweredForOff(u, Sooner(S), p, x)
                    /\ RaisedWhileOn(u, Sooner(S), p, lit, x)
  BY DEF WatchedOn
<1>1. RaisedAfterOn(u, S, x) /\ LoweredForOff(u, S, p, x) /\ RaisedWhileOn(u, S, p, lit, x)
  BY DEF WatchedOn
<1>2. \A e \in S : e[1] \in Int
  BY EntryType DEF Belongs
<1>3. /\ \A e \in S : \E f \in Sooner(S) : f[1] = e[1] - 1 /\ f[2] = e[2]
      /\ \A f \in Sooner(S) : \E e \in S : f[1] = e[1] - 1 /\ f[2] = e[2] /\ f[1] \in Int
  BY <1>2, SoonerEntries
<1>4. Gap(u) \in Nat
  BY GapType
<1>5. RaisedAfterOn(u, Sooner(S), x)
  <2> SUFFICES ASSUME NEW e \in Sooner(S), e[2] = PowerOn(u)
               PROVE  \E f \in Sooner(S) : f[2] \in Raising(u, x) /\ f[1] >= e[1] + Gap(u)
    BY DEF RaisedAfterOn
  <2>1. PICK e0 \in S : e[1] = e0[1] - 1 /\ e[2] = e0[2]
    BY <1>3
  <2>2. PICK f0 \in S : f0[2] \in Raising(u, x) /\ f0[1] >= e0[1] + Gap(u)
    BY <1>1, <2>1 DEF RaisedAfterOn
  <2>3. PICK f \in Sooner(S) : f[1] = f0[1] - 1 /\ f[2] = f0[2]
    BY <1>3
  <2>4. f[1] >= e[1] + Gap(u)
    BY <1>2, <1>4, <2>1, <2>2, <2>3
  <2> QED
    BY <2>2, <2>3, <2>4
<1>6. \A C : HasAny(S, C) => HasAny(Sooner(S), C)
  BY <1>3 DEF HasAny
<1>7. \A c : Has(S, c) => Has(Sooner(S), c)
  BY <1>3 DEF Has
<1>8. LoweredForOff(u, Sooner(S), p, x)
  <2> SUFFICES ASSUME NEW e \in Sooner(S), e[2] \in Lowering(u, x)
               PROVE  \/ \E f \in Sooner(S) : f[2] = PowerOff(u) /\ f[1] > e[1]
                      \/ /\ e[2] = Lower(x) /\ u \in Biasing /\ e[1] <= 12
                         /\ \/ u \notin p
                            \/ Has(Sooner(S), PowerOff(u))
                            \/ \E f \in Sooner(S) : f[2] \in Raising(u, x) /\ f[1] > e[1]
    BY DEF LoweredForOff
  <2>1. PICK e0 \in S : e[1] = e0[1] - 1 /\ e[2] = e0[2]
    BY <1>3
  <2>2. ASSUME NEW f0 \in S, f0[1] > e0[1]
        PROVE  \E f \in Sooner(S) : f[2] = f0[2] /\ f[1] > e[1]
    <3>1. PICK f \in Sooner(S) : f[1] = f0[1] - 1 /\ f[2] = f0[2]
      BY <1>3
    <3>2. f[1] > e[1]
      BY <1>2, <2>1, <2>2, <3>1
    <3> QED
      BY <3>1, <3>2
  <2>3. e0[1] <= 12 => e[1] <= 12
    BY <1>2, <2>1
  <2>4. \/ \E f \in S : f[2] = PowerOff(u) /\ f[1] > e0[1]
        \/ /\ e0[2] = Lower(x) /\ u \in Biasing /\ e0[1] <= 12
           /\ \/ u \notin p
              \/ Has(S, PowerOff(u))
              \/ \E f \in S : f[2] \in Raising(u, x) /\ f[1] > e0[1]
    BY <1>1, <2>1 DEF LoweredForOff
  <2>5. CASE \E f \in S : f[2] = PowerOff(u) /\ f[1] > e0[1]
    BY <2>2, <2>5
  <2>6. CASE /\ e0[2] = Lower(x) /\ u \in Biasing /\ e0[1] <= 12
             /\ \/ u \notin p
                \/ Has(S, PowerOff(u))
                \/ \E f \in S : f[2] \in Raising(u, x) /\ f[1] > e0[1]
    BY <1>7, <2>1, <2>2, <2>3, <2>6
  <2> QED
    BY <2>4, <2>5, <2>6
<1>9. RaisedWhileOn(u, Sooner(S), p, lit, x)
  BY <1>1, <1>6, <1>7 DEF RaisedWhileOn
<1> QED
  BY <1>5, <1>8, <1>9

\* New entries are harmless if they do not switch the unit on and lower only what is to be
\* switched off.
LEMMA WatchedOnMore ==
    ASSUME NEW u \in Unit, NEW S, NEW S2, \A f \in S : f \in S2,
           NEW p, NEW lit, WatchedOn(u, S, p, lit),
           \A d \in S2 : d \notin S =>
               /\ d[2] # PowerOn(u)
               /\ \A x \in Items(u) : d[2] \in Lowering(u, x) =>
                      \E f \in S2 : f[2] = PowerOff(u) /\ f[1] > d[1]
    PROVE  WatchedOn(u, S2, p, lit)
<1> SUFFICES ASSUME NEW x \in Items(u)
             PROVE  /\ RaisedAfterOn(u, S2, x)
                    /\ LoweredForOff(u, S2, p, x)
                    /\ RaisedWhileOn(u, S2, p, lit, x)
  BY DEF WatchedOn
<1>1. RaisedAfterOn(u, S, x) /\ LoweredForOff(u, S, p, x) /\ RaisedWhileOn(u, S, p, lit, x)
  BY DEF WatchedOn
<1>2. RaisedAfterOn(u, S2, x)
  BY <1>1 DEF RaisedAfterOn
<1>3. LoweredForOff(u, S2, p, x)
  <2> SUFFICES ASSUME NEW e \in S2, e[2] \in Lowering(u, x)
               PROVE  \/ \E f \in S2 : f[2] = PowerOff(u) /\ f[1] > e[1]
                      \/ /\ e[2] = Lower(x) /\ u \in Biasing /\ e[1] <= 12
                         /\ \/ u \notin p
                            \/ Has(S2, PowerOff(u))
                            \/ \E f \in S2 : f[2] \in Raising(u, x) /\ f[1] > e[1]
    BY DEF LoweredForOff
  <2>1. CASE e \in S
    BY <1>1, <2>1 DEF LoweredForOff, Has
  <2>2. CASE e \notin S
    BY <2>2
  <2> QED
    BY <2>1, <2>2
<1>4. RaisedWhileOn(u, S2, p, lit, x)
  BY <1>1 DEF RaisedWhileOn, HasAny, Has
<1> QED
  BY <1>2, <1>3, <1>4

-----------------------------------------------------------------------------
(* The transitions, as sets of entries. *)

Limit == Deploy(<<"OC_LIMIT", "INA260">>)
At(s, c) == <<Sec(s), c>>

LEMMA TimedElements ==
    /\ \A s1, c1 : Elements(Timed(<< <<s1, c1>> >>)) = {At(s1, c1)}
    /\ \A s1, c1, s2, c2 :
           Elements(Timed(<< <<s1, c1>>, <<s2, c2>> >>)) = {At(s1, c1), At(s2, c2)}
    /\ \A s1, c1, s2, c2, s3, c3 :
           Elements(Timed(<< <<s1, c1>>, <<s2, c2>>, <<s3, c3>> >>)) =
               {At(s1, c1), At(s2, c2), At(s3, c3)}
    /\ \A s1, c1, s2, c2, s3, c3, s4, c4 :
           Elements(Timed(<< <<s1, c1>>, <<s2, c2>>, <<s3, c3>>, <<s4, c4>> >>)) =
               {At(s1, c1), At(s2, c2), At(s3, c3), At(s4, c4)}
    /\ \A s1, c1, s2, c2, s3, c3, s4, c4, s5, c5 :
           Elements(Timed(<< <<s1, c1>>, <<s2, c2>>, <<s3, c3>>, <<s4, c4>>, <<s5, c5>> >>)) =
               {At(s1, c1), At(s2, c2), At(s3, c3), At(s4, c4), At(s5, c5)}
BY DEF Elements, Timed, At

LEMMA Tables ==
    /\ Elements(StartUpToInitial) =
           {At(2, On("INA260")), At(7, Limit), At(12, FinishTransition)}
    /\ Elements(BdotToInitial) =
           {At(1, Off("MTQ")), At(4, Reset("INA260")), At(9, Reset("MPU9250")),
            At(24, Reset("RM3100")), At(42, FinishTransition)}
    /\ Elements(InitialToBdot) =
           {At(1, On("MPU9250")), At(8, On("RM3100")), At(18, On("MTQ")), At(23, FinishTransition)}
    /\ Elements(AnyToBdot) =
           {At(2, Off("RWX")), At(6, Off("RWY")), At(10, Off("RWZ")), At(14, Off("OEM7600")),
            At(18, Off("STIM210")), At(22, Off("SAGITTA")), At(26, Off("NANOSSOC_D60")),
            At(33, Reset("INA260")), At(49, Reset("MTQ")), At(59, Reset("MPU9250")),
            At(75, Reset("RM3100")), At(93, ClearBias("EXTERNAL")), At(95, FinishTransition)}
    /\ Elements(BdotToRoughSunPointing) = {At(2, On("NANOSSOC_D60")), At(12, FinishTransition)}
    /\ Elements(RoughSunPointingToRoughThreeAxis) = {At(7, FinishTransition)}
    /\ Elements(RoughThreeAxisToRoughThreeAxisRw) =
           {At(3, On("RWX")), At(13, On("RWY")), At(23, On("RWZ")), At(28, FinishTransition)}
    /\ Elements(RoughThreeAxisRwToFineThreeAxis) =
           {At(3, On("STIM210")), At(17, On("SAGITTA")), At(60, FinishTransition)}
    /\ Elements(Nop) = {At(5, FinishTransition)}
<1>1. /\ Elements(StartUpToInitial) =
             {At(2, On("INA260")), At(7, Limit), At(12, FinishTransition)}
      /\ Elements(RoughThreeAxisRwToFineThreeAxis) =
             {At(3, On("STIM210")), At(17, On("SAGITTA")), At(60, FinishTransition)}
  BY TimedElements DEF StartUpToInitial, RoughThreeAxisRwToFineThreeAxis, Limit
<1>2. Elements(BdotToInitial) =
           {At(1, Off("MTQ")), At(4, Reset("INA260")), At(9, Reset("MPU9250")),
            At(24, Reset("RM3100")), At(42, FinishTransition)}
  BY TimedElements DEF BdotToInitial
<1>3. /\ Elements(InitialToBdot) =
           {At(1, On("MPU9250")), At(8, On("RM3100")), At(18, On("MTQ")), At(23, FinishTransition)}
      /\ Elements(RoughThreeAxisToRoughThreeAxisRw) =
           {At(3, On("RWX")), At(13, On("RWY")), At(23, On("RWZ")), At(28, FinishTransition)}
  BY TimedElements DEF InitialToBdot, RoughThreeAxisToRoughThreeAxisRw
<1>4. Elements(AnyToBdot) =
           {At(2, Off("RWX")), At(6, Off("RWY")), At(10, Off("RWZ")), At(14, Off("OEM7600")),
            At(18, Off("STIM210")), At(22, Off("SAGITTA")), At(26, Off("NANOSSOC_D60")),
            At(33, Reset("INA260")), At(49, Reset("MTQ")), At(59, Reset("MPU9250")),
            At(75, Reset("RM3100")), At(93, ClearBias("EXTERNAL")), At(95, FinishTransition)}
  BY DEF AnyToBdot, Elements, Timed, At
<1>5. Elements(BdotToRoughSunPointing) = {At(2, On("NANOSSOC_D60")), At(12, FinishTransition)}
  BY TimedElements DEF BdotToRoughSunPointing
<1>6. /\ Elements(RoughSunPointingToRoughThreeAxis) = {At(7, FinishTransition)}
      /\ Elements(Nop) = {At(5, FinishTransition)}
  BY TimedElements DEF RoughSunPointingToRoughThreeAxis, Nop
<1> QED
  BY <1>1, <1>2, <1>3, <1>4, <1>5, <1>6

LEMMA TransitionCases ==
    ASSUME NEW m \in Mode, NEW n \in Successors[m]
    PROVE  /\ n \in Mode
           /\ \/ n = m /\ SwitchingTransition(m, n) = Nop
              \/ m = "START_UP" /\ n = "INITIAL" /\ SwitchingTransition(m, n) = StartUpToInitial
              \/ m = "BDOT" /\ n = "INITIAL" /\ SwitchingTransition(m, n) = BdotToInitial
              \/ m = "INITIAL" /\ n = "BDOT" /\ SwitchingTransition(m, n) = InitialToBdot
              \/ /\ m = "BDOT" /\ n = "ROUGH_SUN_POINTING"
                 /\ SwitchingTransition(m, n) = BdotToRoughSunPointing
              \/ /\ m = "ROUGH_SUN_POINTING" /\ n = "ROUGH_THREE_AXIS"
                 /\ SwitchingTransition(m, n) = RoughSunPointingToRoughThreeAxis
              \/ /\ m = "ROUGH_THREE_AXIS" /\ n = "ROUGH_THREE_AXIS_RW"
                 /\ SwitchingTransition(m, n) = RoughThreeAxisToRoughThreeAxisRw
              \/ /\ m = "ROUGH_THREE_AXIS_RW" /\ n = "FINE_THREE_AXIS"
                 /\ SwitchingTransition(m, n) = RoughThreeAxisRwToFineThreeAxis
              \/ /\ m \in {"ROUGH_SUN_POINTING", "ROUGH_THREE_AXIS", "ROUGH_THREE_AXIS_RW",
                           "FINE_THREE_AXIS"}
                 /\ n = "BDOT" /\ SwitchingTransition(m, n) = AnyToBdot
<1>1. m \in Mode
  OBVIOUS
<1>2. CASE m = "START_UP"
  BY <1>2 DEF Mode, Successors, SwitchingTransition
<1>3. CASE m = "INITIAL"
  BY <1>3 DEF Mode, Successors, SwitchingTransition
<1>4. CASE m = "BDOT"
  BY <1>4 DEF Mode, Successors, SwitchingTransition
<1>5. CASE m = "ROUGH_SUN_POINTING"
  BY <1>5 DEF Mode, Successors, SwitchingTransition
<1>6. CASE m = "ROUGH_THREE_AXIS"
  BY <1>6 DEF Mode, Successors, SwitchingTransition
<1>7. CASE m = "ROUGH_THREE_AXIS_RW"
  BY <1>7 DEF Mode, Successors, SwitchingTransition
<1>8. CASE m = "FINE_THREE_AXIS"
  BY <1>8 DEF Mode, Successors, SwitchingTransition
<1> QED
  BY <1>1, <1>2, <1>3, <1>4, <1>5, <1>6, <1>7, <1>8 DEF Mode

\* What a transition holds besides belongs to no unit.
LEMMA TransitionElements ==
    ASSUME NEW m \in Mode, NEW n \in Mode
    PROVE  /\ Transition(m, n) \in Seq(Entry)
           /\ Elements(SwitchingTransition(m, n)) \subseteq Elements(Transition(m, n))
           /\ \A e \in Elements(Transition(m, n)) :
                  e \in Elements(SwitchingTransition(m, n)) \/ Idle(e[2])
<1> DEFINE s == SwitchingTransition(m, n)
           own == OwnCommandsOfTransition(m, n)
<1>1. s \in Seq(Entry) /\ Idling(own)
  BY SwitchingTransitionIsProper, OwnCommandsIdle DEF Proper
<1>2. Transition(m, n) = s \o own
  BY DEF Transition
<1> HIDE DEF s, own
<1>3. own \in Seq(Entry) /\ \A e \in Elements(own) : Idle(e[2])
  BY <1>1 DEF Idling, Elements
<1>4. s \o own \in Seq(Entry) /\ Elements(s \o own) = Elements(s) \cup Elements(own)
  BY <1>1, <1>3, Joined
<1> QED
  BY <1>2, <1>3, <1>4 DEF s

LEMMA ModeUnits ==
    /\ UnitsOf["START_UP"] = {} /\ UnitsOf["INITIAL"] = {"INA260"}
    /\ UnitsOf["BDOT"] = Magnetic
    /\ UnitsOf["ROUGH_SUN_POINTING"] = Magnetic \cup {"NANOSSOC_D60"}
    /\ UnitsOf["ROUGH_THREE_AXIS"] = Magnetic \cup {"NANOSSOC_D60"}
    /\ UnitsOf["ROUGH_THREE_AXIS_RW"] = Magnetic \cup {"NANOSSOC_D60"} \cup Wheel
    /\ UnitsOf["FINE_THREE_AXIS"] =
           Magnetic \cup {"NANOSSOC_D60", "STIM210", "SAGITTA"} \cup Wheel
    /\ SpareOf("INITIAL") = {"MPU9250", "RM3100"}
    /\ \A m : m # "INITIAL" => SpareOf(m) = {}
BY DEF UnitsOf, Mode, SpareOf

\* How far the sequences of a unit may reach beyond the end of their transition.
Spill(u) ==
    CASE u = "MTQ" -> 10
      [] u = "RWZ" -> Sec(2) + 15
      [] u = "SAGITTA" -> 22
      [] OTHER -> 0

\* A command c after s seconds fits into a transition that is finished after F seconds.
Fits(u, s, c, F) ==
    /\ c \in {On(u), Off(u), Reset(u)}
    /\ Sec(s) >= 1
    /\ Sec(s) + CoreRest(c) < Sec(F)
    /\ Sec(s) + Rest(c) < Sec(F) + Spill(u)
    /\ c \in {Off(u), Reset(u)} => Spill(u) <= Sec(s)
    /\ c = Reset(u) => u \in Magnetic

LEMMA RootsFit ==
    /\ Fits("INA260", 2, On("INA260"), 12)
    /\ Fits("MTQ", 1, Off("MTQ"), 42)
    /\ Fits("INA260", 4, Reset("INA260"), 42)
    /\ Fits("MPU9250", 9, Reset("MPU9250"), 42)
    /\ Fits("RM3100", 24, Reset("RM3100"), 42)
    /\ Fits("MPU9250", 1, On("MPU9250"), 23)
    /\ Fits("RM3100", 8, On("RM3100"), 23)
    /\ Fits("MTQ", 18, On("MTQ"), 23)
    /\ Fits("RWX", 2, Off("RWX"), 95)
    /\ Fits("RWY", 6, Off("RWY"), 95)
    /\ Fits("RWZ", 10, Off("RWZ"), 95)
    /\ Fits("OEM7600", 14, Off("OEM7600"), 95)
    /\ Fits("STIM210", 18, Off("STIM210"), 95)
    /\ Fits("SAGITTA", 22, Off("SAGITTA"), 95)
    /\ Fits("NANOSSOC_D60", 26, Off("NANOSSOC_D60"), 95)
    /\ Fits("INA260", 33, Reset("INA260"), 95)
    /\ Fits("MTQ", 49, Reset("MTQ"), 95)
    /\ Fits("MPU9250", 59, Reset("MPU9250"), 95)
    /\ Fits("RM3100", 75, Reset("RM3100"), 95)
    /\ Fits("NANOSSOC_D60", 2, On("NANOSSOC_D60"), 12)
    /\ Fits("RWX", 3, On("RWX"), 28)
    /\ Fits("RWY", 13, On("RWY"), 28)
    /\ Fits("RWZ", 23, On("RWZ"), 28)
    /\ Fits("STIM210", 3, On("STIM210"), 60)
    /\ Fits("SAGITTA", 17, On("SAGITTA"), 60)
<1>1. PICK C : C = OBCT_CYCLES_PER_SEC
  OBVIOUS
<1>2. C \in Nat /\ C >= 10 /\ LongestDelay \in Nat /\ LongestDelay <= C + 3
  BY <1>1, Times
<1>3. \A k \in Nat : Sec(k) = k * C
  BY <1>1, Times
<1>4. \A u : /\ Rest(On(u)) = LongestDelay + OnSpan(u)
             /\ CoreRest(On(u)) = LongestDelay + CoreSpan(u)
             /\ Rest(Off(u)) = LongestDelay + OffSpan(u)
             /\ CoreRest(Off(u)) = LongestDelay + OffSpan(u)
             /\ Rest(Reset(u)) = LongestDelay + (ResetOn(u) + LongestDelay + OnSpan(u))
             /\ CoreRest(Reset(u)) = LongestDelay + ResetOn(u) + LongestDelay + CoreSpan(u)
  BY RestOfCommands, CoreCommands, OwnerAndKind
<1>5. \A u : On(u) # Off(u) /\ On(u) # Reset(u) /\ Off(u) # Reset(u)
  BY DEF On, Off, Reset, Deploy
<1>6. \A u \in Unit, s \in Nat, F \in Nat :
          s * C >= 1 /\ s * C + (LongestDelay + CoreSpan(u)) < F * C
              /\ s * C + (LongestDelay + OnSpan(u)) < F * C + Spill(u)
              => Fits(u, s, On(u), F)
  BY <1>3, <1>4, <1>5 DEF Fits
<1>7. \A u \in Unit, s \in Nat, F \in Nat :
          s * C >= 1 /\ s * C + (LongestDelay + OffSpan(u)) < F * C
              /\ s * C + (LongestDelay + OffSpan(u)) < F * C + Spill(u) /\ Spill(u) <= s * C
              => Fits(u, s, Off(u), F)
  BY <1>3, <1>4, <1>5 DEF Fits
<1>8. \A u \in Magnetic, s \in Nat, F \in Nat :
          s * C >= 1
              /\ s * C + (LongestDelay + ResetOn(u) + LongestDelay + CoreSpan(u)) < F * C
              /\ s * C + (LongestDelay + (ResetOn(u) + LongestDelay + OnSpan(u))) < F * C + Spill(u)
              /\ Spill(u) <= s * C
              => Fits(u, s, Reset(u), F)
  BY <1>3, <1>4, <1>5 DEF Fits
<1>9. /\ Sec(1) = C /\ Sec(2) = 2 * C /\ Sec(3) = 3 * C /\ Sec(4) = 4 * C /\ Sec(5) = 5 * C
      /\ Sec(6) = 6 * C /\ Sec(7) = 7 * C /\ Sec(8) = 8 * C /\ Sec(11) = 11 * C
      /\ Sec(12) = 12 * C /\ Sec(13) = 13 * C /\ Sec(15) = 15 * C /\ Sec(41) = 41 * C
  BY <1>1, MoreTimes
<1>10. /\ Fits("INA260", 2, On("INA260"), 12)
      /\ Fits("INA260", 4, Reset("INA260"), 42)
      /\ Fits("INA260", 33, Reset("INA260"), 95)
  <2>1. /\ "INA260" \in Unit
        /\ CoreSpan("INA260") = 1
        /\ OnSpan("INA260") = C + LongestDelay + 27
        /\ "INA260" \in Magnetic
        /\ ResetOn("INA260") = 8 * C
        /\ Spill("INA260") = 0
    BY <1>9 DEF Unit, Wheel, Biasing, Magnetic, CoreSpan, OnSpan, OffSpan, ResetOn, Spill
  <2>2. Fits("INA260", 2, On("INA260"), 12)
    BY <1>2, <1>6, <2>1
  <2>3. Fits("INA260", 4, Reset("INA260"), 42)
    BY <1>2, <1>8, <2>1
  <2>4. Fits("INA260", 33, Reset("INA260"), 95)
    BY <1>2, <1>8, <2>1
  <2> QED
    BY <2>2, <2>3, <2>4
<1>11. /\ Fits("MTQ", 1, Off("MTQ"), 42)
      /\ Fits("MTQ", 18, On("MTQ"), 23)
      /\ Fits("MTQ", 49, Reset("MTQ"), 95)
  <2>1. /\ "MTQ" \in Unit
        /\ CoreSpan("MTQ") = C + 2
        /\ OnSpan("MTQ") = 4 * C + 6
        /\ OffSpan("MTQ") = 2 * C + 3
        /\ "MTQ" \in Magnetic
        /\ ResetOn("MTQ") = 6 * C
        /\ Spill("MTQ") = 10
    BY <1>9 DEF Unit, Wheel, Biasing, Magnetic, CoreSpan, OnSpan, OffSpan, ResetOn, Spill
  <2>2. Fits("MTQ", 1, Off("MTQ"), 42)
    BY <1>2, <1>7, <2>1
  <2>3. Fits("MTQ", 18, On("MTQ"), 23)
    BY <1>2, <1>6, <2>1
  <2>4. Fits("MTQ", 49, Reset("MTQ"), 95)
    BY <1>2, <1>8, <2>1
  <2> QED
    BY <2>2, <2>3, <2>4
<1>12. /\ Fits("MPU9250", 9, Reset("MPU9250"), 42)
      /\ Fits("MPU9250", 1, On("MPU9250"), 23)
      /\ Fits("MPU9250", 59, Reset("MPU9250"), 95)
  <2>1. /\ "MPU9250" \in Unit
        /\ CoreSpan("MPU9250") = 2 * C
        /\ OnSpan("MPU9250") = 6 * C + 3
        /\ "MPU9250" \in Magnetic
        /\ ResetOn("MPU9250") = 5 * C
        /\ Spill("MPU9250") = 0
    BY <1>9 DEF Unit, Wheel, Biasing, Magnetic, CoreSpan, OnSpan, OffSpan, ResetOn, Spill
  <2>2. Fits("MPU9250", 9, Reset("MPU9250"), 42)
    BY <1>2, <1>8, <2>1
  <2>3. Fits("MPU9250", 1, On("MPU9250"), 23)
    BY <1>2, <1>6, <2>1
  <2>4. Fits("MPU9250", 59, Reset("MPU9250"), 95)
    BY <1>2, <1>8, <2>1
  <2> QED
    BY <2>2, <2>3, <2>4
<1>13. /\ Fits("RM3100", 24, Reset("RM3100"), 42)
      /\ Fits("RM3100", 8, On("RM3100"), 23)
      /\ Fits("RM3100", 75, Reset("RM3100"), 95)
  <2>1. /\ "RM3100" \in Unit
        /\ CoreSpan("RM3100") = 2 * C + 1
        /\ OnSpan("RM3100") = 8 * C + 11
        /\ "RM3100" \in Magnetic
        /\ ResetOn("RM3100") = 6 * C
        /\ Spill("RM3100") = 0
    BY <1>9 DEF Unit, Wheel, Biasing, Magnetic, CoreSpan, OnSpan, OffSpan, ResetOn, Spill
  <2>2. Fits("RM3100", 24, Reset("RM3100"), 42)
    BY <1>2, <1>8, <2>1
  <2>3. Fits("RM3100", 8, On("RM3100"), 23)
    BY <1>2, <1>6, <2>1
  <2>4. Fits("RM3100", 75, Reset("RM3100"), 95)
    BY <1>2, <1>8, <2>1
  <2> QED
    BY <2>2, <2>3, <2>4
<1>14. /\ Fits("RWX", 2, Off("RWX"), 95)
      /\ Fits("RWX", 3, On("RWX"), 28)
  <2>1. /\ "RWX" \in Unit
        /\ CoreSpan("RWX") = C + 2
        /\ OnSpan("RWX") = 6 * C + 11
        /\ OffSpan("RWX") = 2 * C + 9
        /\ Spill("RWX") = 0
    BY <1>9 DEF Unit, Wheel, Biasing, Magnetic, CoreSpan, OnSpan, OffSpan, ResetOn, Spill
  <2>2. Fits("RWX", 2, Off("RWX"), 95)
    BY <1>2, <1>7, <2>1
  <2>3. Fits("RWX", 3, On("RWX"), 28)
    BY <1>2, <1>6, <2>1
  <2> QED
    BY <2>2, <2>3
<1>15. /\ Fits("RWY", 6, Off("RWY"), 95)
      /\ Fits("RWY", 13, On("RWY"), 28)
  <2>1. /\ "RWY" \in Unit
        /\ CoreSpan("RWY") = C + 2
        /\ OnSpan("RWY") = 6 * C + 11
        /\ OffSpan("RWY") = 2 * C + 9
        /\ Spill("RWY") = 0
    BY <1>9 DEF Unit, Wheel, Biasing, Magnetic, CoreSpan, OnSpan, OffSpan, ResetOn, Spill
  <2>2. Fits("RWY", 6, Off("RWY"), 95)
    BY <1>2, <1>7, <2>1
  <2>3. Fits("RWY", 13, On("RWY"), 28)
    BY <1>2, <1>6, <2>1
  <2> QED
    BY <2>2, <2>3
<1>16. /\ Fits("RWZ", 10, Off("RWZ"), 95)
      /\ Fits("RWZ", 23, On("RWZ"), 28)
  <2>1. /\ "RWZ" \in Unit
        /\ CoreSpan("RWZ") = C + 2
        /\ OnSpan("RWZ") = 6 * C + 11
        /\ OffSpan("RWZ") = 2 * C + 9
        /\ Spill("RWZ") = 2 * C + 15
    BY <1>9 DEF Unit, Wheel, Biasing, Magnetic, CoreSpan, OnSpan, OffSpan, ResetOn, Spill
  <2>2. Fits("RWZ", 10, Off("RWZ"), 95)
    BY <1>2, <1>7, <2>1
  <2>3. Fits("RWZ", 23, On("RWZ"), 28)
    BY <1>2, <1>6, <2>1
  <2> QED
    BY <2>2, <2>3
<1>17. /\ Fits("NANOSSOC_D60", 26, Off("NANOSSOC_D60"), 95)
      /\ Fits("NANOSSOC_D60", 2, On("NANOSSOC_D60"), 12)
  <2>1. /\ "NANOSSOC_D60" \in Unit
        /\ CoreSpan("NANOSSOC_D60") = 5 * C + 7
        /\ OnSpan("NANOSSOC_D60") = 5 * C + LongestDelay + 19
        /\ OffSpan("NANOSSOC_D60") = 5 * C + 3
        /\ Spill("NANOSSOC_D60") = 0
    BY <1>9 DEF Unit, Wheel, Biasing, Magnetic, CoreSpan, OnSpan, OffSpan, ResetOn, Spill
  <2>2. Fits("NANOSSOC_D60", 26, Off("NANOSSOC_D60"), 95)
    BY <1>2, <1>7, <2>1
  <2>3. Fits("NANOSSOC_D60", 2, On("NANOSSOC_D60"), 12)
    BY <1>2, <1>6, <2>1
  <2> QED
    BY <2>2, <2>3
<1>18. /\ Fits("OEM7600", 14, Off("OEM7600"), 95)
  <2>1. /\ "OEM7600" \in Unit
        /\ OffSpan("OEM7600") = 3 * C + 5
        /\ Spill("OEM7600") = 0
    BY <1>9 DEF Unit, Wheel, Biasing, Magnetic, CoreSpan, OnSpan, OffSpan, ResetOn, Spill
  <2>2. Fits("OEM7600", 14, Off("OEM7600"), 95)
    BY <1>2, <1>7, <2>1
  <2> QED
    BY <2>2
<1>19. /\ Fits("STIM210", 18, Off("STIM210"), 95)
      /\ Fits("STIM210", 3, On("STIM210"), 60)
  <2>1. /\ "STIM210" \in Unit
        /\ CoreSpan("STIM210") = 11 * C + 4
        /\ OnSpan("STIM210") = 12 * C + LongestDelay + 17
        /\ OffSpan("STIM210") = 3 * C + 3
        /\ Spill("STIM210") = 0
    BY <1>9 DEF Unit, Wheel, Biasing, Magnetic, CoreSpan, OnSpan, OffSpan, ResetOn, Spill
  <2>2. Fits("STIM210", 18, Off("STIM210"), 95)
    BY <1>2, <1>7, <2>1
  <2>3. Fits("STIM210", 3, On("STIM210"), 60)
    BY <1>2, <1>6, <2>1
  <2> QED
    BY <2>2, <2>3
<1>20. /\ Fits("SAGITTA", 22, Off("SAGITTA"), 95)
      /\ Fits("SAGITTA", 17, On("SAGITTA"), 60)
  <2>1. /\ "SAGITTA" \in Unit
        /\ CoreSpan("SAGITTA") = 6 * C + 2
        /\ OnSpan("SAGITTA") = 41 * C + LongestDelay + 15
        /\ OffSpan("SAGITTA") = 3 * C + 5
        /\ Spill("SAGITTA") = 22
    BY <1>9 DEF Unit, Wheel, Biasing, Magnetic, CoreSpan, OnSpan, OffSpan, ResetOn, Spill
  <2>2. Fits("SAGITTA", 22, Off("SAGITTA"), 95)
    BY <1>2, <1>7, <2>1
  <2>3. Fits("SAGITTA", 17, On("SAGITTA"), 60)
    BY <1>2, <1>6, <2>1
  <2> QED
    BY <2>2, <2>3
<1> QED
  BY <1>10, <1>11, <1>12, <1>13, <1>14, <1>15, <1>16, <1>17, <1>18, <1>19, <1>20

\* The commands of the transitions are told apart by their owner and their kind.
LEMMA RootNames ==
    /\ \A u : Owner(On(u)) = u /\ Owner(Off(u)) = u /\ Owner(Reset(u)) = u
    /\ \A u : Kind(On(u)) = "ON" /\ Kind(Off(u)) = "OFF" /\ Kind(Reset(u)) = "RESET"
    /\ Owner(Limit) = "none" /\ Owner(FinishTransition) = "none"
    /\ Owner(ClearBias("EXTERNAL")) = "none"
    /\ Limit # FinishTransition /\ ClearBias("EXTERNAL") # FinishTransition
    /\ ClearBias("EXTERNAL") # Limit
    /\ "none" \notin Unit
    /\ \A s, c : At(s, c)[1] = Sec(s) /\ At(s, c)[2] = c
<1>1. /\ Limit # FinishTransition /\ ClearBias("EXTERNAL") # FinishTransition
      /\ ClearBias("EXTERNAL") # Limit
  BY DEF Limit, Deploy, FinishTransition, ClearBias
<1>2. "none" \notin Unit
  BY DEF Unit, Wheel, Biasing
<1>3. \A s, c : At(s, c)[1] = Sec(s) /\ At(s, c)[2] = c
  BY DEF At
<1> QED
  BY <1>1, <1>2, <1>3, OwnerAndKind DEF Limit

\* A transition finishes once, at F; before that it deploys at most one block of a unit.
Fitting(T, F) ==
    /\ At(F, FinishTransition) \in T
    /\ \A e \in T : \/ e = At(F, FinishTransition)
                    \/ e[2] \in {Limit, ClearBias("EXTERNAL")} \/ Idle(e[2])
                    \/ \E u \in Unit, s \in Nat : e = At(s, e[2]) /\ Fits(u, s, e[2], F)
Alone(T) ==
    \A e, f \in T : Owner(e[2]) = Owner(f[2]) /\ Owner(e[2]) \in Unit => e = f

\* It switches on what the mode n has and the mode m has not, and the other way round.
Switching(T, m, n) ==
    \A u \in Unit :
        /\ Has(T, On(u)) \/ Has(T, Reset(u)) => u \in UnitsOf[n] \cup SpareOf(n)
        /\ Has(T, Off(u)) => u \notin UnitsOf[n]
        /\ u \in UnitsOf[n] => Has(T, On(u)) \/ Has(T, Reset(u)) \/ u \in UnitsOf[m]
        /\ u \notin UnitsOf[n] \cup SpareOf(n) =>
               Has(T, Off(u)) \/ u \notin UnitsOf[m] \cup SpareOf(m)


LEMMA NopFits ==
    LET T == Elements(Nop)
    IN  /\ Fitting(T, 5) /\ Alone(T)
        /\ \A m, n \in Mode :
             m = n
             => Switching(T, m, n)
<1> DEFINE T == Elements(Nop)
<1>1. Fitting(T, 5)
  BY Tables, RootsFit, RootNames, UnitsOfBlocks DEF Fitting, Unit, Biasing, Wheel
<1>2. Alone(T)
  BY Tables, RootNames DEF Alone
<1>3. ASSUME NEW m \in Mode, NEW n \in Mode,
             m = n
      PROVE  Switching(T, m, n)
  BY <1>3, Tables, RootNames, ModeUnits DEF Switching, Has, Magnetic, Unit, Biasing, Wheel, Mode
<1> QED
  BY <1>1, <1>2, <1>3

LEMMA StartUpToInitialFits ==
    LET T == Elements(StartUpToInitial)
    IN  /\ Fitting(T, 12) /\ Alone(T)
        /\ \A m, n \in Mode :
             m = "START_UP" /\ n = "INITIAL"
             => Switching(T, m, n)
<1> DEFINE T == Elements(StartUpToInitial)
<1>1. Fitting(T, 12)
  BY Tables, RootsFit, RootNames, UnitsOfBlocks DEF Fitting, Unit, Biasing, Wheel
<1>2. Alone(T)
  BY Tables, RootNames DEF Alone
<1>3. ASSUME NEW m \in Mode, NEW n \in Mode,
             m = "START_UP" /\ n = "INITIAL"
      PROVE  Switching(T, m, n)
  BY <1>3, Tables, RootNames, ModeUnits DEF Switching, Has, Magnetic, Unit, Biasing, Wheel, Mode
<1> QED
  BY <1>1, <1>2, <1>3

LEMMA BdotToInitialFits ==
    LET T == Elements(BdotToInitial)
    IN  /\ Fitting(T, 42) /\ Alone(T)
        /\ \A m, n \in Mode :
             m = "BDOT" /\ n = "INITIAL"
             => Switching(T, m, n)
<1> DEFINE T == Elements(BdotToInitial)
<1>1. Fitting(T, 42)
  BY Tables, RootsFit, RootNames, UnitsOfBlocks DEF Fitting, Unit, Biasing, Wheel
<1>2. Alone(T)
  BY Tables, RootNames DEF Alone
<1>3. ASSUME NEW m \in Mode, NEW n \in Mode,
             m = "BDOT" /\ n = "INITIAL"
      PROVE  Switching(T, m, n)
  BY <1>3, Tables, RootNames, ModeUnits DEF Switching, Has, Magnetic, Unit, Biasing, Wheel, Mode
<1> QED
  BY <1>1, <1>2, <1>3

LEMMA InitialToBdotFits ==
    LET T == Elements(InitialToBdot)
    IN  /\ Fitting(T, 23) /\ Alone(T)
        /\ \A m, n \in Mode :
             m = "INITIAL" /\ n = "BDOT"
             => Switching(T, m, n)
<1> DEFINE T == Elements(InitialToBdot)
<1>1. Fitting(T, 23)
  BY Tables, RootsFit, RootNames, UnitsOfBlocks DEF Fitting, Unit, Biasing, Wheel
<1>2. Alone(T)
  BY Tables, RootNames DEF Alone
<1>3. ASSUME NEW m \in Mode, NEW n \in Mode,
             m = "INITIAL" /\ n = "BDOT"
      PROVE  Switching(T, m, n)
  BY <1>3, Tables, RootNames, ModeUnits DEF Switching, Has, Magnetic, Unit, Biasing, Wheel, Mode
<1> QED
  BY <1>1, <1>2, <1>3

LEMMA BdotToRoughSunPointingFits ==
    LET T == Elements(BdotToRoughSunPointing)
    IN  /\ Fitting(T, 12) /\ Alone(T)
        /\ \A m, n \in Mode :
             m = "BDOT" /\ n = "ROUGH_SUN_POINTING"
             => Switching(T, m, n)
<1> DEFINE T == Elements(BdotToRoughSunPointing)
<1>1. Fitting(T, 12)
  BY Tables, RootsFit, RootNames, UnitsOfBlocks DEF Fitting, Unit, Biasing, Wheel
<1>2. Alone(T)
  BY Tables, RootNames DEF Alone
<1>3. ASSUME NEW m \in Mode, NEW n \in Mode,
             m = "BDOT" /\ n = "ROUGH_SUN_POINTING"
      PROVE  Switching(T, m, n)
  BY <1>3, Tables, RootNames, ModeUnits DEF Switching, Has, Magnetic, Unit, Biasing, Wheel, Mode
<1> QED
  BY <1>1, <1>2, <1>3

LEMMA RoughSunPointingToRoughThreeAxisFits ==
    LET T == Elements(RoughSunPointingToRoughThreeAxis)
    IN  /\ Fitting(T, 7) /\ Alone(T)
        /\ \A m, n \in Mode :
             m = "ROUGH_SUN_POINTING" /\ n = "ROUGH_THREE_AXIS"
             => Switching(T, m, n)
<1> DEFINE T == Elements(RoughSunPointingToRoughThreeAxis)
<1>1. Fitting(T, 7)
  BY Tables, RootsFit, RootNames, UnitsOfBlocks DEF Fitting, Unit, Biasing, Wheel
<1>2. Alone(T)
  BY Tables, RootNames DEF Alone
<1>3. ASSUME NEW m \in Mode, NEW n \in Mode,
             m = "ROUGH_SUN_POINTING" /\ n = "ROUGH_THREE_AXIS"
      PROVE  Switching(T, m, n)
  BY <1>3, Tables, RootNames, ModeUnits DEF Switching, Has, Magnetic, Unit, Biasing, Wheel, Mode
<1> QED
  BY <1>1, <1>2, <1>3

LEMMA RoughThreeAxisToRoughThreeAxisRwFits ==
    LET T == Elements(RoughThreeAxisToRoughThreeAxisRw)
    IN  /\ Fitting(T, 28) /\ Alone(T)
        /\ \A m, n \in Mode :
             m = "ROUGH_THREE_AXIS" /\ n = "ROUGH_THREE_AXIS_RW"
             => Switching(T, m, n)
<1> DEFINE T == Elements(RoughThreeAxisToRoughThreeAxisRw)
<1>1. Fitting(T, 28)
  BY Tables, RootsFit, RootNames, UnitsOfBlocks DEF Fitting, Unit, Biasing, Wheel
<1>2. Alone(T)
  BY Tables, RootNames DEF Alone
<1>3. ASSUME NEW m \in Mode, NEW n \in Mode,
             m = "ROUGH_THREE_AXIS" /\ n = "ROUGH_THREE_AXIS_RW"
      PROVE  Switching(T, m, n)
  BY <1>3, Tables, RootNames, ModeUnits DEF Switching, Has, Magnetic, Unit, Biasing, Wheel, Mode
<1> QED
  BY <1>1, <1>2, <1>3

LEMMA RoughThreeAxisRwToFineThreeAxisFits ==
    LET T == Elements(RoughThreeAxisRwToFineThreeAxis)
    IN  /\ Fitting(T, 60) /\ Alone(T)
        /\ \A m, n \in Mode :
             m = "ROUGH_THREE_AXIS_RW" /\ n = "FINE_THREE_AXIS"
             => Switching(T, m, n)
<1> DEFINE T == Elements(RoughThreeAxisRwToFineThreeAxis)
<1>1. Fitting(T, 60)
  BY Tables, RootsFit, RootNames, UnitsOfBlocks DEF Fitting, Unit, Biasing, Wheel
<1>2. Alone(T)
  BY Tables, RootNames DEF Alone
<1>3. ASSUME NEW m \in Mode, NEW n \in Mode,
             m = "ROUGH_THREE_AXIS_RW" /\ n = "FINE_THREE_AXIS"
      PROVE  Switching(T, m, n)
  BY <1>3, Tables, RootNames, ModeUnits DEF Switching, Has, Magnetic, Unit, Biasing, Wheel, Mode
<1> QED
  BY <1>1, <1>2, <1>3

LEMMA AnyToBdotFits ==
    LET T == Elements(AnyToBdot)
    IN  /\ Fitting(T, 95) /\ Alone(T)
        /\ \A m, n \in Mode :
             /\ m \in {"ROUGH_SUN_POINTING", "ROUGH_THREE_AXIS", "ROUGH_THREE_AXIS_RW",
                      "FINE_THREE_AXIS"}
             /\ n = "BDOT"
             => Switching(T, m, n)
<1> DEFINE T == Elements(AnyToBdot)
<1>1. Fitting(T, 95)
  BY Tables, RootsFit, RootNames, UnitsOfBlocks DEF Fitting, Unit, Biasing, Wheel
<1>2. Alone(T)
  BY Tables, RootNames DEF Alone
<1>3. ASSUME NEW m \in Mode, NEW n \in Mode,
             /\ m \in {"ROUGH_SUN_POINTING", "ROUGH_THREE_AXIS", "ROUGH_THREE_AXIS_RW",
                      "FINE_THREE_AXIS"}
             /\ n = "BDOT"
      PROVE  Switching(T, m, n)
  BY <1>3, Tables, RootNames, ModeUnits DEF Switching, Has, Magnetic, Unit, Biasing, Wheel, Mode
<1> QED
  BY <1>1, <1>2, <1>3

LEMMA SwitchingTransitionFacts ==
    ASSUME NEW m \in Mode, NEW n \in Successors[m]
    PROVE  LET T == Elements(SwitchingTransition(m, n))
           IN  /\ \E F \in Nat : Fitting(T, F)
               /\ Alone(T) /\ Switching(T, m, n)
<1>1. n \in Mode
  BY TransitionCases
<1> QED
  BY <1>1, TransitionCases, NopFits, StartUpToInitialFits, BdotToInitialFits,
     InitialToBdotFits, BdotToRoughSunPointingFits, RoughSunPointingToRoughThreeAxisFits,
     RoughThreeAxisToRoughThreeAxisRwFits, RoughThreeAxisRwToFineThreeAxisFits, AnyToBdotFits

LEMMA TransitionFacts ==
    ASSUME NEW m \in Mode, NEW n \in Successors[m]
    PROVE  LET T == Elements(Transition(m, n))
           IN  /\ Transition(m, n) \in Seq(Entry)
               /\ \E F \in Nat : Fitting(T, F)
               /\ Alone(T) /\ Switching(T, m, n)
<1> DEFINE S == Elements(SwitchingTransition(m, n))
           T == Elements(Transition(m, n))
<1>1. n \in Mode
  BY TransitionCases
<1>2. Alone(S) /\ Switching(S, m, n) /\ \E F \in Nat : Fitting(S, F)
  BY SwitchingTransitionFacts
<1>3. /\ Transition(m, n) \in Seq(Entry)
      /\ S \subseteq T /\ \A e \in T : e \in S \/ Idle(e[2])
  BY <1>1, TransitionElements
<1> HIDE DEF S, T
<1>4. \E F \in Nat : Fitting(T, F)
  BY <1>2, <1>3 DEF Fitting
<1>5. Alone(T)
  BY <1>2, <1>3, OwnerAndKind, RootNames DEF Alone
<1>6. \A u \in Unit : \A c \in {On(u), Off(u), Reset(u)} : Has(T, c) <=> Has(S, c)
  BY <1>3, OwnerAndKind DEF Has
<1>7. Switching(T, m, n)
  BY <1>2, <1>6 DEF Switching
<1> QED
  BY <1>3, <1>4, <1>5, <1>7 DEF T

\* What a transition deploys of one unit.
LEMMA OwnedOfTransition ==
    ASSUME NEW T, NEW F \in Nat, Fitting(T, F), NEW u \in Unit, NEW e \in Owned(u, T)
    PROVE  /\ e[2] \in {On(u), Off(u), Reset(u)}
           /\ \E s \in Nat : e = At(s, e[2]) /\ Fits(u, s, e[2], F)
<1>1. e \in T /\ Owner(e[2]) = u /\ u # "none"
  BY RootNames DEF Owned
<1>2. PICK v \in Unit, s \in Nat : e = At(s, e[2]) /\ Fits(v, s, e[2], F)
  <2>1. e # At(F, FinishTransition) /\ e[2] \notin {Limit, ClearBias("EXTERNAL")} /\ ~Idle(e[2])
    BY <1>1, RootNames, OwnerAndKind
  <2> QED
    BY <1>1, <2>1 DEF Fitting
<1>3. e[2] \in {On(v), Off(v), Reset(v)}
  BY <1>2 DEF Fits
<1>4. v = u
  BY <1>1, <1>3, RootNames
<1> QED
  BY <1>2, <1>3, <1>4

-----------------------------------------------------------------------------
(* Units that are on are watched. *)

WatchInv == \A u \in Unit : WatchedOn(u, Owned(u, Pending), powered, Lit)

LEMMA WatchDispatched ==
    ASSUME IInv, Timely, WatchInv, TLC_DISPATCHER_BC
    PROVE  WatchInv'
<1> SUFFICES ASSUME NEW u \in Unit
             PROVE  WatchedOn(u, Owned(u, Pending)', powered', Lit')
  BY DEF WatchInv, Owned
<1>1. WatchedOn(u, Owned(u, Pending), powered, Lit)
  BY DEF WatchInv
<1>2. Belongs(u, Owned(u, Pending))
  BY OwnedBelongs DEF IInv, Proper
<1>3. CASE Idles
  <2>1. timeline' = timeline /\ powered' = powered /\ logging' = logging /\ active' = active
    BY <1>3 DEF Idles, switching, handling
  <2>2. Owned(u, Pending)' = Owned(u, Pending)
    BY <2>1 DEF Owned, Pending, Elements
  <2>3. Lit' = Lit
    BY <2>1 DEF Lit
  <2> QED
    BY <1>1, <2>1, <2>2, <2>3
<1>4. ASSUME NEW e, Executes(e), Owner(e[2]) = u
      PROVE  WatchedOn(u, Owned(u, Pending)', powered', Lit')
  BY <1>1, <1>2, <1>4, ExecutesOwned, WatchedOnRuns
<1>5. ASSUME NEW e, Executes(e), Owner(e[2]) # u
      PROVE  WatchedOn(u, Owned(u, Pending)', powered', Lit')
  <2>1. Untouched(u)
    BY <1>5, ExecutesOther
  <2> QED
    BY <1>1, <2>1, WatchedOnSame DEF Untouched
<1> QED
  BY <1>3, <1>4, <1>5, Dispatches

\* What the event handler deploys.
LEMMA WatchResponse ==
    ASSUME NEW u \in Unit, NEW S, NEW K, K = {} \/ K = Children(u, Off(u)) \/ K = Children(u, Reset(u)),
           NEW p, NEW lit, WatchedOn(u, S, p, lit)
    PROVE  WatchedOn(u, S \cup K, p, lit)
<1>1. ASSUME NEW d \in K, NEW x \in Items(u)
      PROVE  /\ d[2] # PowerOn(u)
             /\ d[2] \in Lowering(u, x) => \E f \in K : f[2] = PowerOff(u) /\ f[1] > d[1]
  <2>1. CASE K = Children(u, Off(u))
    <3>1. d[2] \in Lowering(u, x) => \E f \in K : f[2] = PowerOff(u) /\ f[1] > d[1]
      <4>1. Off(u) # Inactivate(u)
        BY DEF Off, Inactivate, Deploy
      <4> QED
        BY <1>1, <2>1, <4>1, NewOnes
    <3>2. \A c : Kind(c) = "down" => c # PowerOn(u)
      BY OwnerAndKind
    <3>3. d \in OffEntries(u) /\ Owner(d[2]) = u
      BY <1>1, <2>1, ChildrenOfOff
    <3>4. Kind(d[2]) = "down"
      BY <3>3, RootNames DEF OffEntries, Neutral
    <3> QED
      BY <3>1, <3>2, <3>4
  <2>2. CASE K = Children(u, Reset(u))
    <3>1. d[2] \in {Off(u), On(u)}
      BY <1>1, <2>2, ChildrenOfReset DEF ResetEntries
    <3> QED
      BY <3>1, RaisingOwner, RootNames, OwnerAndKind
  <2>3. K # {}
    BY <1>1
  <2> QED
    BY <2>1, <2>2, <2>3
<1>2. Items(u) = {} => WatchedOn(u, S \cup K, p, lit)
  BY DEF WatchedOn
<1>3. CASE \E x \in Items(u) : TRUE
  <2>1. \A d \in K : d[2] # PowerOn(u)
    BY <1>1, <1>3
  <2>2. \A d \in S \cup K : d \notin S =>
            /\ d[2] # PowerOn(u)
            /\ \A x \in Items(u) : d[2] \in Lowering(u, x) =>
                   \E f \in S \cup K : f[2] = PowerOff(u) /\ f[1] > d[1]
    BY <1>1, <2>1
  <2> QED
    BY <2>2, WatchedOnMore
<1> QED
  BY <1>2, <1>3

LEMMA WatchHandled ==
    ASSUME IInv, WatchInv, EVENT_UTILITY
    PROVE  WatchInv'
<1> SUFFICES ASSUME NEW u \in Unit
             PROVE  WatchedOn(u, Owned(u, Pending)', powered', Lit')
  BY DEF WatchInv, Owned
<1>1. WatchedOn(u, Owned(u, Pending), powered, Lit)
  BY DEF WatchInv
<1> DEFINE r == Head(events)
           matched == r \in active /\ Count(r) >= ResetCount
           counted == matched /\ BrokenOf(r) \in active
           broken == counted /\ count[BrokenOf(r)] + 1 >= PowerOffCount
           block == Response(r[2], matched, broken)
<1>2. r[2] \in Monitored
  <2>1. events \in Seq(OcRule) /\ events # << >>
    BY DEF IInv, TypeOK, EVENT_UTILITY
  <2>2. r \in OcRule
    BY <2>1
  <2> QED
    BY <2>2, RuleType
<1>3. matched \in BOOLEAN /\ broken \in BOOLEAN
  OBVIOUS
<1>4. timeline' = timeline \o block /\ powered' = powered /\ Lit' = Lit
  BY DEF EVENT_UTILITY, switching, Lit
<1> HIDE DEF r, matched, counted, broken
<1>5. LET K == Owned(u, Elements(block))
      IN  /\ block \in Seq(Entry)
          /\ K = {} \/ K = Children(u, Off(u)) \/ K = Children(u, Reset(u))
  BY <1>2, <1>3, Responds
<1> HIDE DEF block
<1>6. Owned(u, Pending)' = Owned(u, Pending) \cup Owned(u, Elements(block))
  BY <1>4, <1>5, Deploys
<1>7. WatchedOn(u, Owned(u, Pending) \cup Owned(u, Elements(block)), powered, Lit)
  BY <1>1, <1>5, WatchResponse
<1> QED
  BY <1>4, <1>6, <1>7

LEMMA WatchTransition ==
    ASSUME IInv, WatchInv, NEW n \in Mode, StartTransition(n)
    PROVE  WatchInv'
<1> SUFFICES ASSUME NEW u \in Unit
             PROVE  WatchedOn(u, Owned(u, Pending)', powered', Lit')
  BY DEF WatchInv, Owned
<1> DEFINE T == Elements(Transition(mode, n))
           S == Owned(u, Pending)
           K == Owned(u, T)
<1>1. WatchedOn(u, S, powered, Lit)
  BY DEF WatchInv
<1>2. mode \in Mode /\ n \in Successors[mode]
  BY PowerAssumption DEF StartTransition, IInv, TypeOK
<1>3. timeline' = timeline \o Transition(mode, n) /\ powered' = powered /\ Lit' = Lit
  BY DEF StartTransition, switching, handling, Lit
<1>4. Transition(mode, n) \in Seq(Entry) /\ \E F \in Nat : Fitting(T, F)
  BY <1>2, TransitionFacts
<1>5. Owned(u, Pending)' = S \cup K
  BY <1>3, <1>4, Deploys
<1>6. \A e \in K : e[2] \in {On(u), Off(u), Reset(u)}
  BY <1>4, OwnedOfTransition
<1> HIDE DEF S, K, T
<1>7. \A c \in {On(u), Off(u), Reset(u)} :
          c # PowerOn(u) /\ \A x \in Items(u) : c \notin Lowering(u, x)
  BY RaisingOwner, RootNames, OwnerAndKind
<1>8. \A d \in S \cup K : d \notin S =>
          /\ d[2] # PowerOn(u)
          /\ \A x \in Items(u) : d[2] \in Lowering(u, x) =>
                 \E f \in S \cup K : f[2] = PowerOff(u) /\ f[1] > d[1]
  BY <1>6, <1>7
<1> QED
  BY <1>1, <1>3, <1>5, <1>8, WatchedOnMore

LEMMA WatchTick ==
    ASSUME IInv, WatchInv, BASIC_SENSOR_UPDATE
    PROVE  WatchInv'
<1> SUFFICES ASSUME NEW u \in Unit
             PROVE  WatchedOn(u, Owned(u, Pending)', powered', Lit')
  BY DEF WatchInv, Owned
<1>1. WatchedOn(u, Owned(u, Pending), powered, Lit)
  BY DEF WatchInv
<1>2. Belongs(u, Owned(u, Pending))
  BY OwnedBelongs DEF IInv, Proper
<1>3. Tick /\ powered' = powered /\ Lit' = Lit
  BY DEF BASIC_SENSOR_UPDATE, switching, Lit
<1>4. Owned(u, Pending)' = Sooner(Owned(u, Pending))
  BY <1>3, Ticks
<1> QED
  BY <1>1, <1>2, <1>3, <1>4, WatchedOnSooner

LEMMA WatchStep ==
    ASSUME IInv, Timely, WatchInv, [Next]_vars
    PROVE  WatchInv'
<1>1. CASE UNCHANGED <<timeline, powered, logging, active>>
  BY <1>1 DEF WatchInv, Owned, Pending, Elements, Lit
<1>2. CASE \E kind \in {"short", "overload"}, v \in Monitored : Fault(kind, v)
  <2>1. UNCHANGED <<timeline, powered, logging, active>>
    BY <1>2 DEF Fault, handling
  <2> QED
    BY <1>1, <2>1
<1>3. CASE UNCHANGED vars
  <2>1. UNCHANGED <<timeline, powered, logging, active>>
    BY <1>3 DEF vars, switching, handling
  <2> QED
    BY <1>1, <2>1
<1>4. CASE \E n \in Mode : StartTransition(n)
  BY <1>4, WatchTransition
<1> QED
  BY <1>2, <1>3, <1>4, WatchDispatched, WatchHandled, WatchTick DEF Next

LEMMA WatchInit == Init => WatchInv
<1> SUFFICES ASSUME Init PROVE WatchInv
  OBVIOUS
<1>1. timeline = << >> /\ powered = {}
  BY DEF Init
<1>2. \A u : Owned(u, Pending) = {}
  BY <1>1 DEF Owned, Pending, Elements
<1> QED
  BY <1>1, <1>2 DEF WatchInv, WatchedOn, RaisedAfterOn, LoweredForOff, RaisedWhileOn

-----------------------------------------------------------------------------
(* The order of the entries of a unit. *)

LEMMA KindOfCommands ==
    ASSUME NEW u \in Unit, NEW c \in Command, Owner(c) = u
    PROVE  /\ Kind(c) \in {"up", "down", "ON", "OFF", "RESET"}
           /\ Kind(c) = "ON" <=> c = On(u)
           /\ Kind(c) = "OFF" <=> c = Off(u)
           /\ Kind(c) = "RESET" <=> c = Reset(u)
<1>1. u # "none"
  BY RootNames
<1>2. CASE c \in Leaf(u)
  <2>1. Kind(c) \in {"up", "down"}
    BY <1>1, <1>2 DEF Leaf, Owner, Kind
  <2> QED
    BY <2>1, RootNames
<1>3. CASE c = On(u) \/ c = Off(u) \/ c = Reset(u)
  BY <1>3, RootNames
<1>4. CASE c = Activate(u) \/ c = Inactivate(u)
  BY <1>4, RootNames, OwnerAndKind
<1> QED
  BY <1>2, <1>3, <1>4, OwnedCommands

\* What a command deploys is of the expected kind and ends when the command is to end.
LEMMA ChildEnds ==
    ASSUME NEW u \in Unit, NEW c \in Command, Owner(c) = u, c = Reset(u) => u \in Magnetic,
           NEW k \in Children(u, c)
    PROVE  /\ k \in Entry /\ Owner(k[2]) = u /\ k[1] >= 1
           /\ k[1] + Rest(k[2]) + LongestDelay <= Rest(c)
           /\ Kind(c) \in {"ON", "up"} => Kind(k[2]) = "up"
           /\ Kind(c) \in {"OFF", "down"} => Kind(k[2]) = "down"
           /\ Kind(c) = "RESET" => k \in ResetEntries(u)
           /\ Core(k[2]) => Core(c) /\ k[1] + CoreRest(k[2]) + LongestDelay <= CoreRest(c)
<1>1. LongestDelay \in Nat
  BY Times
<1>2. /\ \A d : Kind(d) \notin {"ON", "RESET"} => CoreRest(d) = Rest(d)
      /\ \A v : /\ Rest(On(v)) = LongestDelay + OnSpan(v)
                /\ CoreRest(On(v)) = LongestDelay + CoreSpan(v)
                /\ Rest(Off(v)) = LongestDelay + OffSpan(v)
                /\ Rest(Reset(v)) = LongestDelay + (ResetOn(v) + LongestDelay + OnSpan(v))
                /\ CoreRest(Reset(v)) = LongestDelay + ResetOn(v) + LongestDelay + CoreSpan(v)
                /\ Rest(Activate(v)) = LongestDelay + 12 /\ Rest(Inactivate(v)) = LongestDelay + 12
  BY RestOfCommands, CoreCommands
<1>3. CASE c = On(u)
  <2>1. k \in OnEntries(u) /\ Owner(k[2]) = u
    BY <1>3, ChildrenOfOn
  <2>2. /\ k \in Entry /\ k[1] >= 1 /\ Kind(k[2]) = "up" /\ k[1] + Rest(k[2]) <= OnSpan(u)
        /\ Core(k[2]) => k[1] <= CoreSpan(u)
    BY <2>1, RootNames DEF OnEntries, Neutral
  <2>3. k[1] \in Int /\ Rest(k[2]) \in Nat /\ OnSpan(u) \in Nat /\ CoreSpan(u) \in Nat
    BY <2>2, EntryType, RestType, OnTimes
  <2>4. Core(k[2]) => CoreRest(k[2]) = 0
    <3>1. Core(k[2]) => k[2][1] # "DEPLOY"
      BY <2>2 DEF Core
    <3> QED
      BY <1>2, <2>2, <3>1 DEF Rest
  <2>5. Kind(c) = "ON" /\ Core(c)
    BY <1>3, RootNames, CoreCommands
  <2>6. k[1] + Rest(k[2]) + LongestDelay <= Rest(c)
    BY <1>1, <1>2, <1>3, <2>2, <2>3
  <2>7. Core(k[2]) => k[1] + CoreRest(k[2]) + LongestDelay <= CoreRest(c)
    BY <1>1, <1>2, <1>3, <2>2, <2>3, <2>4
  <2> QED
    BY <2>1, <2>2, <2>5, <2>6, <2>7
<1>4. CASE c = Off(u)
  <2>1. k \in OffEntries(u) /\ Owner(k[2]) = u
    BY <1>4, ChildrenOfOff
  <2>2. k \in Entry /\ k[1] >= 1 /\ Kind(k[2]) = "down" /\ k[1] + Rest(k[2]) <= OffSpan(u)
    BY <2>1, RootNames DEF OffEntries, Neutral
  <2>3. k[1] \in Int /\ Rest(k[2]) \in Nat /\ OffSpan(u) \in Nat
    BY <2>2, EntryType, RestType, OffTimes
  <2>4. Kind(c) = "OFF" /\ Core(c)
    BY <1>4, RootNames, CoreCommands
  <2>5. k[1] + Rest(k[2]) + LongestDelay <= Rest(c)
    BY <1>1, <1>2, <1>4, <2>2, <2>3
  <2>6. CoreRest(k[2]) = Rest(k[2]) /\ CoreRest(c) = Rest(c)
    BY <1>2, <2>2, <2>4
  <2> QED
    BY <2>1, <2>2, <2>4, <2>5, <2>6
<1>5. CASE c = Reset(u)
  <2>1. k \in ResetEntries(u)
    BY <1>5, ChildrenOfReset
  <2>2. \/ k[1] = ResetOff(u) /\ k[2] = Off(u)
        \/ k[1] = ResetOn(u) /\ k[2] = On(u)
    BY <2>1 DEF ResetEntries
  <2>3. /\ ResetOff(u) \in Nat /\ ResetOn(u) \in Nat /\ 1 <= ResetOff(u)
        /\ ResetOff(u) < ResetOn(u) /\ OffSpan(u) \in Nat
        /\ ResetOff(u) + LongestDelay + OffSpan(u) < ResetOn(u)
    BY <1>5, OffTimes
  <2>4. OnSpan(u) \in Nat /\ CoreSpan(u) \in Nat
    BY OnTimes
  <2>5. k \in Entry /\ Owner(k[2]) = u
    <3>1. Owner(k[2]) = u
      BY DEF Children
    <3>2. ResetBlock(u) \in Seq(Entry) /\ k \in Elements(ResetBlock(u))
      BY <2>1, ResetOfUnit
    <3> QED
      BY <3>1, <3>2 DEF Elements
  <2>6. Kind(c) = "RESET" /\ Core(c)
    BY <1>5, RootNames, CoreCommands
  <2>7. k[1] >= 1 /\ k[1] + Rest(k[2]) + LongestDelay <= Rest(c)
    <3>1. CASE k[1] = ResetOff(u) /\ k[2] = Off(u)
      BY <1>1, <1>2, <1>5, <2>3, <2>4, <3>1
    <3>2. CASE k[1] = ResetOn(u) /\ k[2] = On(u)
      BY <1>1, <1>2, <1>5, <2>3, <2>4, <3>2
    <3> QED
      BY <2>2, <3>1, <3>2
  <2>8. k[1] + CoreRest(k[2]) + LongestDelay <= CoreRest(c)
    <3>1. CASE k[1] = ResetOff(u) /\ k[2] = Off(u)
      <4>1. CoreRest(k[2]) = LongestDelay + OffSpan(u)
        BY <1>2, <3>1, RootNames
      <4> QED
        BY <1>1, <1>2, <1>5, <2>3, <2>4, <3>1, <4>1
    <3>2. CASE k[1] = ResetOn(u) /\ k[2] = On(u)
      BY <1>1, <1>2, <1>5, <2>3, <2>4, <3>2
    <3> QED
      BY <2>2, <3>1, <3>2
  <2> QED
    BY <2>1, <2>5, <2>6, <2>7, <2>8
<1>6. CASE c = Activate(u) /\ u \in Biasing \cup {"INA260"}
  <2>1. k \in UpLeaves(u) /\ Owner(k[2]) = u
    BY <1>6, ChildrenOfActivate
  <2>2. /\ k \in Entry /\ k[1] >= 1 /\ k[1] <= 12
        /\ k[2][1] \in {"ACTIVATE_RULE", "ENABLE_LOGGING"}
    BY <2>1 DEF UpLeaves, Raises
  <2>3. Kind(k[2]) = "up" /\ ~Core(k[2]) /\ Rest(k[2]) = 0 /\ k[1] \in Int
    BY <2>2, EntryType DEF Kind, Core, Rest
  <2>4. Kind(c) = "up"
    BY <1>6, OwnerAndKind
  <2> QED
    BY <1>1, <1>2, <1>6, <2>1, <2>2, <2>3, <2>4
<1>7. CASE c = Inactivate(u) /\ u \in Biasing
  <2>1. k \in DownLeaves(u) /\ Owner(k[2]) = u
    BY <1>7, ChildrenOfInactivate
  <2>2. /\ k \in Entry /\ k[1] >= 1 /\ k[1] <= 12
        /\ k[2][1] \in {"INACTIVATE_RULE", "DISABLE_LOGGING"}
    BY <2>1 DEF DownLeaves, Lowers
  <2>3. Kind(k[2]) = "down" /\ Rest(k[2]) = 0 /\ k[1] \in Int
    BY <2>2, EntryType DEF Kind, Rest
  <2>4. Kind(c) = "down" /\ Core(c)
    BY <1>7, OwnerAndKind, CoreCommands
  <2>5. CoreRest(k[2]) = 0 /\ CoreRest(c) = LongestDelay + 12
    BY <1>2, <1>7, <2>3, <2>4
  <2> QED
    BY <1>1, <1>2, <1>7, <2>1, <2>2, <2>3, <2>4, <2>5
<1>8. c \notin Leaf(u)
  BY ChildrenOfLeaf
<1> QED
  BY <1>3, <1>4, <1>5, <1>6, <1>7, <1>8, OwnedCommands

\* The entry e leads to nothing more when f comes.
Before(e, f) == e[1] + Rest(e[2]) < f[1]

\* What switches a unit off comes before what switches it on, and the other way round.
InOrder(u, e, f) ==
    /\ Kind(e[2]) = "down" /\ Kind(f[2]) \in {"up", "ON"} => Before(e, f)
    /\ Kind(e[2]) = "OFF" /\ Kind(f[2]) = "ON" => Before(e, f)
    /\ Kind(e[2]) \in {"OFF", "RESET"} /\ Kind(f[2]) = "up" => Before(f, e)
    /\ Kind(e[2]) = "RESET" => Kind(f[2]) \notin {"down", "ON", "OFF"} /\ u \in Magnetic
Ordered(u, S) == \A e, f \in S : InOrder(u, e, f)

\* A reset that is executed was the only one.
OnlyReset(u, e, S2) == e[2] = Reset(u) => \A f \in S2 : f[2] # Reset(u)

\* The next entry is not after any other.
LEMMA NextIsFirst ==
    ASSUME NEW u \in Unit, NEW S, Belongs(u, S), NEW e, NEW S2, Runs(u, S, e, S2), NEW f \in S
    PROVE  ~Before(f, e)
<1>1. f \in Entry /\ e \in Entry /\ e[1] <= f[1]
  BY DEF Belongs, Runs
<1>2. f[1] \in Int /\ e[1] \in Int /\ Rest(f[2]) \in Nat
  BY <1>1, EntryType, RestType
<1> QED
  BY <1>1, <1>2 DEF Before

LEMMA OrderedRuns ==
    ASSUME NEW u \in Unit, NEW S, Belongs(u, S), NEW e, NEW S2, Runs(u, S, e, S2),
           OnlyReset(u, e, S2), Ordered(u, S)
    PROVE  Ordered(u, S2)
<1> DEFINE K == Children(u, e[2])
<1>1. /\ e \in S /\ \A f \in S2 : f \in S \/ f \in K
  BY DEF Runs
<1>2. \A f \in S : /\ f \in Entry /\ Owner(f[2]) = u /\ f[1] \in Int
                   /\ f[2] \in Command /\ Rest(f[2]) \in Nat
                   /\ Kind(f[2]) \in {"up", "down", "ON", "OFF", "RESET"}
  BY EntryType, RestType, KindOfCommands DEF Belongs
<1>3. \A f \in S : ~Before(f, e) /\ InOrder(u, e, f) /\ InOrder(u, f, e)
  BY <1>1, NextIsFirst DEF Ordered
<1>4. e[2] = Reset(u) => u \in Magnetic
  BY <1>3, RootNames, <1>1 DEF InOrder
<1>5. \A k \in K : /\ k \in Entry /\ k[1] >= 1 /\ k[1] \in Int /\ Rest(k[2]) \in Nat
                   /\ k[1] + Rest(k[2]) + LongestDelay <= Rest(e[2])
                   /\ Kind(e[2]) \in {"ON", "up"} => Kind(k[2]) = "up"
                   /\ Kind(e[2]) \in {"OFF", "down"} => Kind(k[2]) = "down"
                   /\ Kind(e[2]) = "RESET" => k \in ResetEntries(u)
  BY <1>1, <1>2, <1>4, ChildEnds, EntryType, RestType
<1>6. ASSUME NEW k \in K, NEW f \in S, Before(e, f)
      PROVE  Before(k, f)
  <2>1. -LongestDelay <= e[1] /\ LongestDelay \in Nat
    BY Times DEF Runs
  <2>2. e[1] \in Int /\ f[1] \in Int /\ Rest(e[2]) \in Nat
    BY <1>1, <1>2
  <2> QED
    BY <1>5, <1>6, <2>1, <2>2 DEF Before
<1>7. CASE Kind(e[2]) \in {"ON", "up"}
  <2>1. \A k \in K : Kind(k[2]) = "up"
    BY <1>5, <1>7
  <2>2. \A f \in S : /\ Kind(f[2]) # "down"
                     /\ Kind(f[2]) \in {"OFF", "RESET"} => Before(e, f) /\ Kind(e[2]) = "up"
    BY <1>3, <1>7 DEF InOrder
  <2>3. ASSUME NEW k \in K, NEW f \in S
        PROVE  InOrder(u, k, f) /\ InOrder(u, f, k)
    <3>1. Kind(f[2]) = "RESET" => u \in Magnetic
      BY DEF Ordered, InOrder
    <3> QED
      BY <1>6, <2>1, <2>2, <3>1 DEF InOrder
  <2>4. \A k, l \in K : InOrder(u, k, l)
    BY <2>1 DEF InOrder
  <2> QED
    BY <1>1, <2>3, <2>4 DEF Ordered
<1>8. CASE Kind(e[2]) \in {"OFF", "down"}
  <2>1. \A k \in K : Kind(k[2]) = "down"
    BY <1>5, <1>8
  <2>2. \A f \in S : /\ Kind(f[2]) # "RESET"
                     /\ Kind(f[2]) \in {"up", "ON"} => Before(e, f)
    BY <1>3, <1>8 DEF InOrder
  <2>3. ASSUME NEW k \in K, NEW f \in S
        PROVE  InOrder(u, k, f) /\ InOrder(u, f, k)
    BY <1>6, <2>1, <2>2 DEF InOrder
  <2>4. \A k, l \in K : InOrder(u, k, l)
    BY <2>1 DEF InOrder
  <2> QED
    BY <1>1, <2>3, <2>4 DEF Ordered
<1>9. CASE Kind(e[2]) = "RESET"
  <2>1. e[2] = Reset(u)
    BY <1>1, <1>2, <1>9, KindOfCommands
  <2>2. \A f \in S : Kind(f[2]) = "RESET"
    BY <1>2, <1>3, <1>9 DEF InOrder
  <2>3. \A f \in S : f[2] = Reset(u)
    BY <1>2, <2>2, KindOfCommands
  <2>4. \A f \in S2 : f \in ResetEntries(u)
    BY <1>1, <1>5, <1>9, <2>1, <2>3 DEF OnlyReset
  <2>5. ASSUME NEW a \in ResetEntries(u), NEW b \in ResetEntries(u)
        PROVE  InOrder(u, a, b)
    <3>1. /\ (a[1] = ResetOff(u) /\ a[2] = Off(u)) \/ (a[1] = ResetOn(u) /\ a[2] = On(u))
          /\ (b[1] = ResetOff(u) /\ b[2] = Off(u)) \/ (b[1] = ResetOn(u) /\ b[2] = On(u))
      BY DEF ResetEntries
    <3>2. ResetOff(u) + (LongestDelay + OffSpan(u)) < ResetOn(u)
      <4>1. ResetOff(u) + LongestDelay + OffSpan(u) < ResetOn(u)
        BY <1>4, <2>1, OffTimes
      <4> QED
        BY <4>1, OffTimes, Times
    <3>3. Rest(Off(u)) = LongestDelay + OffSpan(u)
      BY RestOfCommands
    <3> QED
      BY <3>1, <3>2, <3>3, RootNames DEF InOrder, Before
  <2> QED
    BY <2>4, <2>5 DEF Ordered
<1> QED
  BY <1>1, <1>2, <1>7, <1>8, <1>9

-----------------------------------------------------------------------------
(* The entries of a unit and the end D of the transition in progress. *)

\* They are over by then, but for the watching of three units.
InTransition(u, S, D) ==
    \A e \in S, f \in D :
        /\ Core(e[2]) => e[1] + CoreRest(e[2]) < f[1]
        /\ e[1] + Rest(e[2]) < f[1] + Spill(u)
AfterTransition(u, S) == \A e \in S : ~Core(e[2]) /\ e[1] + Rest(e[2]) < Spill(u)

LEMMA SpillType == \A u \in Unit : Spill(u) \in Nat
BY Times DEF Spill

LEMMA CoreRestType ==
    ASSUME NEW u \in Unit, NEW c \in Command, Owner(c) = u
    PROVE  CoreRest(c) \in Nat
<1>1. LongestDelay \in Nat /\ CoreSpan(u) \in Nat /\ ResetOn(u) \in Nat /\ Rest(c) \in Nat
  BY Times, OnTimes, OffTimes, RestType
<1>2. CASE c = On(u)
  <2>1. CoreRest(c) = LongestDelay + CoreSpan(u)
    BY <1>2, CoreCommands
  <2> QED
    BY <1>1, <2>1
<1>3. CASE c = Reset(u)
  <2>1. CoreRest(c) = LongestDelay + ResetOn(u) + LongestDelay + CoreSpan(u)
    BY <1>3, CoreCommands
  <2> QED
    BY <1>1, <2>1
<1>4. CASE c # On(u) /\ c # Reset(u)
  <2>1. CoreRest(c) = Rest(c)
    BY <1>4, KindOfCommands, CoreCommands
  <2> QED
    BY <1>1, <2>1
<1> QED
  BY <1>2, <1>3, <1>4

\* What is new when an entry is executed ends no later than that entry was to end.
LEMMA RunsEnds ==
    ASSUME NEW u \in Unit, NEW S, Belongs(u, S), NEW e, NEW S2, Runs(u, S, e, S2),
           Ordered(u, S), NEW k \in Children(u, e[2])
    PROVE  /\ k[1] \in Int /\ Rest(k[2]) \in Nat /\ CoreRest(k[2]) \in Nat
           /\ e[1] \in Int /\ Rest(e[2]) \in Nat /\ CoreRest(e[2]) \in Nat
           /\ k[1] + Rest(k[2]) <= e[1] + Rest(e[2])
           /\ Core(k[2]) => Core(e[2]) /\ k[1] + CoreRest(k[2]) <= e[1] + CoreRest(e[2])
<1>1. e \in Entry /\ Owner(e[2]) = u /\ e[1] \in Int /\ e[2] \in Command
  BY EntryType DEF Runs, Belongs
<1>2. e[2] = Reset(u) => u \in Magnetic
  BY RootNames DEF Ordered, InOrder, Runs
<1>3. /\ k \in Entry /\ Owner(k[2]) = u
      /\ k[1] + Rest(k[2]) + LongestDelay <= Rest(e[2])
      /\ Core(k[2]) => Core(e[2]) /\ k[1] + CoreRest(k[2]) + LongestDelay <= CoreRest(e[2])
  BY <1>1, <1>2, ChildEnds
<1>4. k[1] \in Int /\ k[2] \in Command
  BY <1>3, EntryType
<1>5. /\ Rest(k[2]) \in Nat /\ CoreRest(k[2]) \in Nat
      /\ Rest(e[2]) \in Nat /\ CoreRest(e[2]) \in Nat
  BY <1>1, <1>3, <1>4, RestType, CoreRestType
<1>6. LongestDelay \in Nat /\ -LongestDelay <= e[1]
  BY Times DEF Runs
<1> QED
  BY <1>1, <1>3, <1>4, <1>5, <1>6

LEMMA InTransitionRuns ==
    ASSUME NEW u \in Unit, NEW S, Belongs(u, S), NEW e, NEW S2, Runs(u, S, e, S2),
           Ordered(u, S), NEW D, \A f \in D : f \in Entry, InTransition(u, S, D)
    PROVE  InTransition(u, S2, D)
<1> SUFFICES ASSUME NEW k \in Children(u, e[2]), NEW f \in D
             PROVE  /\ Core(k[2]) => k[1] + CoreRest(k[2]) < f[1]
                    /\ k[1] + Rest(k[2]) < f[1] + Spill(u)
  BY DEF InTransition, Runs
<1>1. f[1] \in Int /\ Spill(u) \in Nat
  BY EntryType, SpillType
<1>2. /\ Core(e[2]) => e[1] + CoreRest(e[2]) < f[1]
      /\ e[1] + Rest(e[2]) < f[1] + Spill(u)
  BY DEF InTransition, Runs
<1> QED
  BY <1>1, <1>2, RunsEnds

LEMMA AfterTransitionRuns ==
    ASSUME NEW u \in Unit, NEW S, Belongs(u, S), NEW e, NEW S2, Runs(u, S, e, S2),
           Ordered(u, S), AfterTransition(u, S)
    PROVE  AfterTransition(u, S2)
<1> SUFFICES ASSUME NEW k \in Children(u, e[2])
             PROVE  ~Core(k[2]) /\ k[1] + Rest(k[2]) < Spill(u)
  BY DEF AfterTransition, Runs
<1>1. Spill(u) \in Nat
  BY SpillType
<1>2. ~Core(e[2]) /\ e[1] + Rest(e[2]) < Spill(u)
  BY DEF AfterTransition, Runs
<1> QED
  BY <1>1, <1>2, RunsEnds

\* When the transition is finished, the entries are as they may be after it.
LEMMA FinishedAfter ==
    ASSUME NEW u \in Unit, NEW S, Belongs(u, S), NEW D, InTransition(u, S, D),
           NEW e \in D, e \in Entry, e[1] <= 0, \A f \in S : e[1] <= f[1]
    PROVE  AfterTransition(u, S)
<1> SUFFICES ASSUME NEW f \in S
             PROVE  ~Core(f[2]) /\ f[1] + Rest(f[2]) < Spill(u)
  BY DEF AfterTransition
<1>1. f \in Entry /\ Owner(f[2]) = u
  BY DEF Belongs
<1>2. f[1] \in Int /\ f[2] \in Command /\ e[1] \in Int
  BY <1>1, EntryType
<1>3. Spill(u) \in Nat /\ Rest(f[2]) \in Nat /\ CoreRest(f[2]) \in Nat
  BY <1>1, <1>2, SpillType, RestType, CoreRestType
<1>4. /\ Core(f[2]) => f[1] + CoreRest(f[2]) < e[1]
      /\ f[1] + Rest(f[2]) < e[1] + Spill(u)
  BY DEF InTransition
<1> QED
  BY <1>2, <1>3, <1>4

LEMMA AfterTransitionKinds ==
    ASSUME NEW u \in Unit, NEW S, Belongs(u, S), AfterTransition(u, S)
    PROVE  \A e \in S : Kind(e[2]) = "up" /\ e[2][1] \notin {"ON", "ADD_BIAS", "SELECT_GYRO"}
<1> SUFFICES ASSUME NEW e \in S
             PROVE  Kind(e[2]) = "up" /\ e[2][1] \notin {"ON", "ADD_BIAS", "SELECT_GYRO"}
  OBVIOUS
<1>1. e \in Entry /\ Owner(e[2]) = u /\ ~Core(e[2])
  BY DEF Belongs, AfterTransition
<1>2. Kind(e[2]) \in {"up", "down", "ON", "OFF", "RESET"}
  BY <1>1, EntryType, KindOfCommands
<1> QED
  BY <1>1, <1>2 DEF Core

-----------------------------------------------------------------------------
(* The unit is as the mode m wants it, or a command on the way will make it  *)
(* so; p is the set of powered units.                                        *)

AsMode(u, S, m, p) ==
    /\ u \in UnitsOf[m] =>
           \/ Has(S, PowerOn(u)) \/ Has(S, On(u)) \/ Has(S, Reset(u))
           \/ u \in p /\ ~Has(S, PowerOff(u)) /\ ~Has(S, Off(u))
    /\ u \in UnitsOf[m] /\ Has(S, Off(u)) => Has(S, On(u))
    /\ u \notin UnitsOf[m] \cup SpareOf(m) =>
           /\ ~Has(S, PowerOn(u)) /\ ~Has(S, On(u)) /\ ~Has(S, Reset(u))
           /\ u \notin p \/ Has(S, PowerOff(u)) \/ Has(S, Off(u))

\* What leads to what.
LEMMA NewCommands ==
    ASSUME NEW u \in Unit, NEW c \in Command, Owner(c) = u, NEW k \in Children(u, c)
    PROVE  /\ k[2] = PowerOn(u) => c = On(u)
           /\ k[2] = PowerOff(u) => c = Off(u)
           /\ k[2] \in {On(u), Off(u)} => c = Reset(u)
           /\ k[2] # Reset(u)
<1>1. /\ Kind(PowerOn(u)) = "up" /\ Kind(PowerOff(u)) = "down"
      /\ Kind(On(u)) = "ON" /\ Kind(Off(u)) = "OFF" /\ Kind(Reset(u)) = "RESET"
  BY RootNames, OwnerAndKind
<1>2. CASE c = On(u)
  <2>1. k \in OnEntries(u) /\ Owner(k[2]) = u
    BY <1>2, ChildrenOfOn
  <2>2. Kind(k[2]) = "up"
    BY <2>1, RootNames DEF OnEntries, Neutral
  <2> QED
    BY <1>1, <1>2, <2>2
<1>3. CASE c = Off(u)
  <2>1. k \in OffEntries(u) /\ Owner(k[2]) = u
    BY <1>3, ChildrenOfOff
  <2>2. Kind(k[2]) = "down"
    BY <2>1, RootNames DEF OffEntries, Neutral
  <2> QED
    BY <1>1, <1>3, <2>2
<1>4. CASE c = Reset(u)
  <2>1. k[2] \in {On(u), Off(u)}
    BY <1>4, ChildrenOfReset DEF ResetEntries
  <2> QED
    BY <1>1, <1>4, <2>1
<1>5. CASE c = Activate(u) /\ u \in Biasing \cup {"INA260"}
  <2>1. k[2][1] \in {"ACTIVATE_RULE", "ENABLE_LOGGING"}
    BY <1>5, ChildrenOfActivate DEF UpLeaves, Raises
  <2> QED
    BY <2>1 DEF PowerOn, PowerOff, On, Off, Reset, Deploy
<1>6. CASE c = Inactivate(u) /\ u \in Biasing
  <2>1. k[2][1] \in {"INACTIVATE_RULE", "DISABLE_LOGGING"}
    BY <1>6, ChildrenOfInactivate DEF DownLeaves, Lowers
  <2> QED
    BY <2>1 DEF PowerOn, PowerOff, On, Off, Reset, Deploy
<1>7. c \notin Leaf(u)
  BY ChildrenOfLeaf
<1> QED
  BY <1>2, <1>3, <1>4, <1>5, <1>6, <1>7, OwnedCommands

\* What is not there when a command that switches the unit on is next.
LEMMA NotBefore ==
    ASSUME NEW u \in Unit, NEW S, Belongs(u, S), NEW e, NEW S2, Runs(u, S, e, S2),
           Ordered(u, S)
    PROVE  /\ Kind(e[2]) \in {"up", "ON"} => \A f \in S : Kind(f[2]) # "down"
           /\ Kind(e[2]) = "ON" => \A f \in S : Kind(f[2]) # "OFF"
           /\ Kind(e[2]) \in {"OFF", "RESET"} => \A f \in S : Kind(f[2]) # "up"
<1>1. \A f \in S : ~Before(f, e) /\ InOrder(u, e, f) /\ InOrder(u, f, e)
  BY NextIsFirst DEF Ordered, Runs
<1> QED
  BY <1>1 DEF InOrder

LEMMA AsModeRuns ==
    ASSUME NEW u \in Unit, NEW S, Belongs(u, S), NEW e, NEW S2, Runs(u, S, e, S2),
           Ordered(u, S), NEW p, NEW p2, PoweredBy(u, e[2], p, p2), NEW m, AsMode(u, S, m, p)
    PROVE  AsMode(u, S2, m, p2)
<1> DEFINE K == Children(u, e[2])
           c == e[2]
<1>1. c \in Command /\ Owner(c) = u /\ e \in S
  BY EntryType DEF Runs, Belongs
<1>2. /\ \A d : d # c /\ Has(S, d) => Has(S2, d)
      /\ \A d : Has(K, d) => Has(S2, d)
      /\ \A d : Has(S2, d) => Has(S, d) \/ Has(K, d)
      /\ Has(S, c)
  BY <1>1 DEF Runs, Has
<1>3. /\ Has(K, PowerOn(u)) => c = On(u)
      /\ Has(K, PowerOff(u)) => c = Off(u)
      /\ Has(K, On(u)) => c = Reset(u)
      /\ Has(K, Off(u)) => c = Reset(u)
      /\ ~Has(K, Reset(u))
  BY <1>1, NewCommands DEF Has
<1>4. /\ Kind(PowerOn(u)) = "up" /\ Kind(PowerOff(u)) = "down"
      /\ Kind(On(u)) = "ON" /\ Kind(Off(u)) = "OFF" /\ Kind(Reset(u)) = "RESET"
      /\ PowerOn(u) # PowerOff(u) /\ PowerOn(u) # On(u) /\ PowerOn(u) # Off(u)
      /\ PowerOn(u) # Reset(u) /\ PowerOff(u) # On(u) /\ PowerOff(u) # Off(u)
      /\ PowerOff(u) # Reset(u) /\ On(u) # Off(u) /\ On(u) # Reset(u) /\ Off(u) # Reset(u)
  BY RootNames, OwnerAndKind
<1>5. /\ c = PowerOn(u) => ~Has(S, PowerOff(u))
      /\ c = On(u) => ~Has(S, PowerOff(u)) /\ ~Has(S, Off(u))
  BY <1>4, NotBefore DEF Has
<1>6. /\ c = On(u) => Has(K, PowerOn(u))
      /\ c = Off(u) => Has(K, PowerOff(u))
      /\ c = Reset(u) => Has(K, On(u))
  <2>1. c = On(u) => Has(K, PowerOn(u))
    <3>1. <<OnTime(u), PowerOn(u)>>[2] = PowerOn(u)
      OBVIOUS
    <3> QED
      BY <3>1, ChildrenOfOn DEF Has
  <2>2. c = Off(u) => Has(K, PowerOff(u))
    <3>1. <<OffTime(u), PowerOff(u)>>[2] = PowerOff(u)
      OBVIOUS
    <3> QED
      BY <3>1, ChildrenOfOff DEF Has
  <2>3. c = Reset(u) => Has(K, On(u))
    <3>1. <<ResetOn(u), On(u)>>[2] = On(u) /\ <<ResetOn(u), On(u)>> \in ResetEntries(u)
      BY DEF ResetEntries
    <3> QED
      BY <3>1, ChildrenOfReset DEF Has
  <2> QED
    BY <2>1, <2>2, <2>3
<1>7. u \in p2 <=> c = PowerOn(u) \/ (u \in p /\ c # PowerOff(u))
  BY DEF PoweredBy
<1> HIDE DEF K, c
<1>8. CASE c = PowerOn(u)
  BY <1>2, <1>3, <1>4, <1>5, <1>7, <1>8 DEF AsMode
<1>9. CASE c = PowerOff(u)
  BY <1>2, <1>3, <1>4, <1>7, <1>9 DEF AsMode
<1>10. CASE c = On(u)
  BY <1>2, <1>3, <1>4, <1>5, <1>6, <1>7, <1>10 DEF AsMode
<1>11. CASE c = Off(u)
  BY <1>2, <1>3, <1>4, <1>6, <1>7, <1>11 DEF AsMode
<1>12. CASE c = Reset(u)
  BY <1>2, <1>3, <1>4, <1>6, <1>7, <1>12 DEF AsMode
<1>13. CASE c \notin {PowerOn(u), PowerOff(u), On(u), Off(u), Reset(u)}
  BY <1>2, <1>3, <1>4, <1>7, <1>13 DEF AsMode
<1> QED
  BY <1>8, <1>9, <1>10, <1>11, <1>12, <1>13

-----------------------------------------------------------------------------
(* A unit that is off, or about to be, is watched by nothing, or will not be *)
(* for long.                                                                 *)

\* What switching the unit on leads to waits until it is on.
UpWhenOn(u, S, p) ==
    \A e \in S : Kind(e[2]) = "up" /\ e[2] # PowerOn(u) =>
        \/ u \in p /\ ~Has(S, PowerOff(u))
        \/ \E f \in S : f[2] = PowerOn(u) /\ f[1] < e[1]
UnlitBeforeOff(u, S, lit) ==
    Has(S, PowerOff(u)) => \A x \in Items(u) : x \notin lit \/ HasAny(S, Lowering(u, x))
UnlitWhileOff(u, S, p, lit) ==
    u \notin p =>
        \A x \in Items(u) : x \notin lit \/ HasAny(S, Lowering(u, x)) \/ Has(S, PowerOn(u))
UnwatchedOff(u, S, p, lit) ==
    UpWhenOn(u, S, p) /\ UnlitBeforeOff(u, S, lit) /\ UnlitWhileOff(u, S, p, lit)

\* When something that watches the unit is next, the unit is on to stay.
LEMMA OnWhenNext ==
    ASSUME NEW u \in Unit, NEW S, Belongs(u, S), NEW e, NEW S2, Runs(u, S, e, S2),
           NEW p, UpWhenOn(u, S, p), Kind(e[2]) = "up", e[2] # PowerOn(u)
    PROVE  u \in p /\ ~Has(S, PowerOff(u))
<1>1. e \in S /\ e \in Entry /\ e[1] \in Int
  BY EntryType DEF Runs, Belongs
<1>2. \A f \in S : f[1] \in Int /\ e[1] <= f[1]
  BY EntryType DEF Runs, Belongs
<1> QED
  BY <1>1, <1>2 DEF UpWhenOn

LEMMA UpWhenOnRuns ==
    ASSUME NEW u \in Unit, NEW S, Belongs(u, S), NEW e, NEW S2, Runs(u, S, e, S2),
           Ordered(u, S), NEW p, NEW p2, PoweredBy(u, e[2], p, p2), UpWhenOn(u, S, p)
    PROVE  UpWhenOn(u, S2, p2)
<1> DEFINE K == Children(u, e[2])
<1>1. e[2] \in Command /\ Owner(e[2]) = u /\ e \in S /\ e \in Entry
  BY EntryType DEF Runs, Belongs
<1>2. \A f \in S : f[1] \in Int /\ f \in Entry /\ f[2] \in Command /\ Owner(f[2]) = u
  BY EntryType DEF Belongs
<1>3. /\ \A f \in S : f # e => f \in S2
      /\ \A f \in K : f \in S2
      /\ \A f \in S2 : f \in S \/ f \in K
  BY DEF Runs
<1>4. /\ Kind(PowerOn(u)) = "up" /\ Kind(PowerOff(u)) = "down" /\ Kind(Off(u)) = "OFF"
      /\ Kind(On(u)) = "ON" /\ Kind(Reset(u)) = "RESET"
  BY RootNames, OwnerAndKind
<1>5. u \in p2 <=> e[2] = PowerOn(u) \/ (u \in p /\ e[2] # PowerOff(u))
  BY DEF PoweredBy
<1>6. e[2] # Off(u) => (Has(S2, PowerOff(u)) => Has(S, PowerOff(u)))
  BY <1>1, <1>3, NewCommands DEF Has
<1> SUFFICES ASSUME NEW d \in S2, Kind(d[2]) = "up", d[2] # PowerOn(u)
             PROVE  \/ u \in p2 /\ ~Has(S2, PowerOff(u))
                    \/ \E f \in S2 : f[2] = PowerOn(u) /\ f[1] < d[1]
  BY DEF UpWhenOn
<1>7. CASE e[2] = PowerOn(u)
  <2>1. ~Has(S, PowerOff(u))
    BY <1>4, <1>7, NotBefore DEF Has
  <2> QED
    BY <1>4, <1>5, <1>6, <1>7, <2>1
<1>8. CASE d \in S /\ e[2] # PowerOn(u)
  <2>1. CASE \E f \in S : f[2] = PowerOn(u) /\ f[1] < d[1]
    BY <1>3, <1>8, <2>1
  <2>2. CASE u \in p /\ ~Has(S, PowerOff(u))
    <3>1. e[2] # PowerOff(u)
      BY <1>1, <2>2 DEF Has
    <3>2. e[2] # Off(u)
      BY <1>4, <1>8, NotBefore
    <3> QED
      BY <1>5, <1>6, <2>2, <3>1, <3>2
  <2> QED
    BY <1>8, <2>1, <2>2 DEF UpWhenOn
<1>9. CASE d \in K /\ e[2] # PowerOn(u)
  <2>1. /\ Kind(e[2]) \in {"OFF", "down"} => Kind(d[2]) = "down"
        /\ Kind(e[2]) = "RESET" => d \in ResetEntries(u)
    <3>1. e[2] = Reset(u) => u \in Magnetic
      BY <1>1, <1>4 DEF Ordered, InOrder
    <3> QED
      BY <1>1, <1>9, <3>1, ChildEnds
  <2>2. d \in ResetEntries(u) => Kind(d[2]) # "up"
    BY <1>4 DEF ResetEntries
  <2>3. CASE Kind(e[2]) = "up"
    <3>1. u \in p /\ ~Has(S, PowerOff(u))
      BY <1>9, <2>3, OnWhenNext
    <3>2. e[2] # Off(u) /\ e[2] # PowerOff(u)
      BY <1>4, <2>3
    <3> QED
      BY <1>5, <1>6, <3>1, <3>2
  <2>4. CASE Kind(e[2]) = "ON"
    <3>1. e[2] = On(u)
      BY <1>1, <2>4, KindOfCommands
    <3>2. d \in OnEntries(u) /\ <<OnTime(u), PowerOn(u)>> \in K /\ Owner(d[2]) = u
      BY <1>9, <3>1, ChildrenOfOn
    <3>3. d[1] > OnTime(u)
      BY <3>2, RootNames DEF OnEntries, Neutral
    <3>4. /\ <<OnTime(u), PowerOn(u)>>[1] = OnTime(u)
          /\ <<OnTime(u), PowerOn(u)>>[2] = PowerOn(u)
      OBVIOUS
    <3>5. OnTime(u) \in Int /\ d[1] \in Int
      BY <3>2, OnTimes, EntryType DEF OnEntries
    <3>6. <<OnTime(u), PowerOn(u)>>[1] < d[1]
      BY <3>3, <3>4, <3>5
    <3> QED
      BY <1>3, <3>2, <3>4, <3>6
  <2> QED
    BY <1>1, <2>1, <2>2, <2>3, <2>4, KindOfCommands
<1> QED
  BY <1>3, <1>7, <1>8, <1>9

\* What an item that is lit needs to go out stays, or it goes out.
LEMMA LoweringRuns ==
    ASSUME NEW u \in Unit, NEW S, Belongs(u, S), NEW e, NEW S2, Runs(u, S, e, S2),
           NEW lit, NEW lit2, RaisedBy(u, e[2], lit, lit2), NEW x \in Items(u)
    PROVE  HasAny(S, Lowering(u, x)) => HasAny(S2, Lowering(u, x)) \/ x \notin lit2
<1> SUFFICES ASSUME HasAny(S, Lowering(u, x)), x \in lit2
             PROVE  HasAny(S2, Lowering(u, x))
  OBVIOUS
<1>1. PICK f \in S : f[2] \in Lowering(u, x)
  BY DEF HasAny
<1>2. CASE f # e
  BY <1>1, <1>2 DEF Runs, HasAny
<1>3. CASE f = e
  <2>1. e[2] = Raise(x) \/ e[2] # Lower(x)
    BY DEF RaisedBy
  <2>2. e[2] # Raise(x)
    BY <1>1, <1>3, RaisingOwner, ItemCommands
  <2>3. e[2] = Inactivate(u) /\ u \in Biasing
    BY <1>1, <1>3, <2>1, <2>2 DEF Lowering
  <2>4. Has(Children(u, e[2]), Lower(x))
    BY <1>1, <1>3, <2>3, ChildrenOfInactivate
  <2> QED
    BY <2>4 DEF Has, HasAny, Lowering, Runs
<1> QED
  BY <1>2, <1>3

LEMMA UnwatchedOffRuns ==
    ASSUME NEW u \in Unit, NEW S, Belongs(u, S), NEW e, NEW S2, Runs(u, S, e, S2),
           Ordered(u, S), NEW p, NEW p2, PoweredBy(u, e[2], p, p2),
           NEW lit, NEW lit2, RaisedBy(u, e[2], lit, lit2), UnwatchedOff(u, S, p, lit)
    PROVE  UnwatchedOff(u, S2, p2, lit2)
<1> DEFINE K == Children(u, e[2])
<1>1. e[2] \in Command /\ Owner(e[2]) = u /\ e \in S /\ e \in Entry
  BY EntryType DEF Runs, Belongs
<1>2. /\ \A f \in S : f # e => f \in S2
      /\ \A f \in K : f \in S2
      /\ \A f \in S2 : f \in S \/ f \in K
  BY DEF Runs
<1>3. /\ Kind(PowerOn(u)) = "up" /\ Kind(PowerOff(u)) = "down" /\ PowerOn(u) # PowerOff(u)
  BY RootNames, OwnerAndKind
<1>4. u \in p2 <=> e[2] = PowerOn(u) \/ (u \in p /\ e[2] # PowerOff(u))
  BY DEF PoweredBy
<1>5. UpWhenOn(u, S, p) /\ UnlitBeforeOff(u, S, lit) /\ UnlitWhileOff(u, S, p, lit)
  BY DEF UnwatchedOff
<1>6. UpWhenOn(u, S2, p2)
  BY <1>5, UpWhenOnRuns
\* An item that is raised now belongs to a unit that is on to stay.
<1>7. ASSUME NEW x \in Items(u), x \notin lit, x \in lit2
      PROVE  u \in p2 /\ ~Has(S2, PowerOff(u))
  <2>1. e[2] = Raise(x)
    BY <1>7 DEF RaisedBy
  <2>2. Kind(e[2]) = "up" /\ e[2] \in Leaf(u) /\ e[2] # PowerOn(u) /\ e[2] # PowerOff(u)
    <3>1. Kind(e[2]) = "up" /\ e[2] \in Leaf(u)
      BY <2>1, ItemCommands
    <3>2. e[2] # PowerOn(u)
      BY <2>1 DEF Raise, ActivateRule, EnableLogging, PowerOn
    <3> QED
      BY <1>3, <3>1, <3>2
  <2>3. u \in p /\ ~Has(S, PowerOff(u))
    BY <1>5, <2>2, OnWhenNext
  <2>4. K = {}
    BY <2>2, ChildrenOfLeaf
  <2> QED
    BY <1>2, <1>4, <2>2, <2>3, <2>4 DEF Has
<1>8. \A x \in Items(u) : x \in lit2 /\ HasAny(S, Lowering(u, x)) => HasAny(S2, Lowering(u, x))
  BY LoweringRuns
<1>9. ASSUME Has(S2, PowerOff(u)), NEW x \in Items(u), x \in lit2
      PROVE  HasAny(S2, Lowering(u, x))
  <2>1. x \in lit
    BY <1>7, <1>9
  <2>2. CASE Has(S, PowerOff(u))
    BY <1>5, <1>8, <1>9, <2>1, <2>2 DEF UnlitBeforeOff
  <2>3. CASE ~Has(S, PowerOff(u))
    <3>1. e[2] = Off(u)
      BY <1>1, <1>2, <1>9, <2>3, NewCommands DEF Has
    <3>2. HasAny(K, Lowering(u, x))
      BY <3>1, ChildrenOfOff
    <3> QED
      BY <1>2, <3>2 DEF HasAny
  <2> QED
    BY <2>2, <2>3
<1>10. ASSUME u \notin p2, NEW x \in Items(u), x \in lit2
       PROVE  HasAny(S2, Lowering(u, x)) \/ Has(S2, PowerOn(u))
  <2>1. x \in lit
    BY <1>7, <1>10
  <2>2. CASE e[2] = PowerOff(u)
    <3>1. Has(S, PowerOff(u))
      BY <1>1, <2>2 DEF Has
    <3> QED
      BY <1>5, <1>8, <1>10, <2>1, <3>1 DEF UnlitBeforeOff
  <2>3. CASE e[2] # PowerOff(u)
    <3>1. u \notin p /\ e[2] # PowerOn(u)
      BY <1>4, <1>10, <2>3
    <3>2. HasAny(S, Lowering(u, x)) \/ Has(S, PowerOn(u))
      BY <1>5, <2>1, <3>1 DEF UnlitWhileOff
    <3>3. Has(S, PowerOn(u)) => Has(S2, PowerOn(u))
      BY <1>2, <3>1 DEF Has
    <3> QED
      BY <1>8, <1>10, <3>2, <3>3
  <2> QED
    BY <2>2, <2>3
<1> QED
  BY <1>6, <1>9, <1>10 DEF UnwatchedOff, UnlitBeforeOff, UnlitWhileOff

-----------------------------------------------------------------------------
(* The good gyro is deselected before it is switched off, and it stays on in *)
(* its mode m; g is the gyro that is selected.                               *)

GyroKept(S, p, g) ==
    g = "STIM210" =>
        /\ "STIM210" \in p
        /\ \A e \in S : e[2] = PowerOff("STIM210") =>
               \E f \in S : f[2] = SelectGyro("MPU9250") /\ f[1] < e[1]
GyroTaken(S, m, g) ==
    m = "FINE_THREE_AXIS" =>
        /\ \A e \in S : Kind(e[2]) \in {"up", "ON"}
        /\ g = "STIM210" \/ Has(S, On("STIM210")) \/ Has(S, SelectGyro("STIM210"))

SelectedBy(c, g, g2) ==
    /\ c = SelectGyro("STIM210") => g2 = "STIM210"
    /\ c = SelectGyro("MPU9250") => g2 = "MPU9250"
    /\ c \notin {SelectGyro("STIM210"), SelectGyro("MPU9250")} => g2 = g

LEMMA ExecutedGyro ==
    ASSUME NEW c \in Command, Execute(c)
    PROVE  /\ SelectedBy(c, gyro, gyro')
           /\ Owner(c) # "STIM210" => gyro' = gyro
<1>1. CASE c[1] = "SELECT_GYRO"
  <2>1. c \in {"SELECT_GYRO"} \X {"MPU9250", "STIM210"}
    BY <1>1 DEF Command, FinishTransition, OwnCommand
  <2>2. c = <<"SELECT_GYRO", c[2]>>
    BY <2>1
  <2>3. gyro' = c[2] /\ Owner(c) = "STIM210"
    BY <1>1, <2>2 DEF Owner, Execute, Cmd_APP_PSC_CONTROL_PORT, FinishTransition, OwnCommand,
       Cmd_DI_INA260_INIT, Cmd_DI_INA260_SET_OVER_CURRENT_PROTECTION, Cmd_EL_LOGGING,
       Cmd_EH_ACTIVATE_RULE, Cmd_DI_RM3100_SET_MAG_BIAS_COMPO_NT, Cmd_APP_GYRO_SELECTOR_SET_STATE
  <2>4. c[2] \in {"MPU9250", "STIM210"}
    BY <2>1
  <2> QED
    BY <2>2, <2>3, <2>4 DEF SelectedBy, SelectGyro
<1>2. CASE c[1] # "SELECT_GYRO"
  <2>1. gyro' = gyro
    BY <1>2 DEF Execute, attitude, Cmd_APP_GYRO_SELECTOR_SET_STATE
  <2>2. c \notin {SelectGyro("STIM210"), SelectGyro("MPU9250")}
    BY <1>2 DEF SelectGyro
  <2> QED
    BY <2>1, <2>2 DEF SelectedBy
<1> QED
  BY <1>1, <1>2

LEMMA GyroKeptRuns ==
    ASSUME NEW S, Belongs("STIM210", S), NEW e, NEW S2, Runs("STIM210", S, e, S2),
           NEW p, NEW p2, PoweredBy("STIM210", e[2], p, p2), UpWhenOn("STIM210", S, p),
           NEW g, NEW g2, SelectedBy(e[2], g, g2), GyroKept(S, p, g)
    PROVE  GyroKept(S2, p2, g2)
<1> DEFINE u == "STIM210"
           K == Children(u, e[2])
<1> SUFFICES ASSUME g2 = "STIM210"
             PROVE  /\ u \in p2
                    /\ \A d \in S2 : d[2] = PowerOff(u) =>
                           \E f \in S2 : f[2] = SelectGyro("MPU9250") /\ f[1] < d[1]
  BY DEF GyroKept
<1>1. u \in Unit /\ u \in Biasing
  BY DEF Unit, Biasing
<1>2. e[2] \in Command /\ Owner(e[2]) = u /\ e \in S /\ e \in Entry /\ e[1] \in Int
  BY EntryType DEF Runs, Belongs
<1>3. /\ \A f \in S : f # e => f \in S2
      /\ \A f \in K : f \in S2
      /\ \A f \in S2 : f \in S \/ f \in K
      /\ \A f \in S : e[1] <= f[1] /\ f[1] \in Int
  BY EntryType DEF Runs, Belongs
<1>4. u \in p2 <=> e[2] = PowerOn(u) \/ (u \in p /\ e[2] # PowerOff(u))
  BY DEF PoweredBy
<1>5. /\ SelectGyro("STIM210")[1] = "SELECT_GYRO" /\ SelectGyro("MPU9250")[1] = "SELECT_GYRO"
      /\ SelectGyro("STIM210") # PowerOn(u) /\ SelectGyro("STIM210") # PowerOff(u)
  BY DEF SelectGyro, PowerOn, PowerOff
<1>6. CASE e[2] = SelectGyro("STIM210")
  <2>1. Kind(e[2]) = "up"
    BY <1>6, OwnerAndKind
  <2>2. u \in p /\ ~Has(S, PowerOff(u))
    BY <1>1, <1>5, <1>6, <2>1, OnWhenNext
  <2>3. K = {}
    BY <1>1, <1>2, <1>5, <1>6, ChildrenOfLeaf DEF Leaf
  <2> QED
    BY <1>3, <1>4, <1>5, <1>6, <2>2, <2>3 DEF Has
<1>7. CASE e[2] # SelectGyro("STIM210")
  <2>1. e[2] # SelectGyro("MPU9250") /\ g = "STIM210"
    BY <1>7 DEF SelectedBy
  <2>2. /\ u \in p
        /\ \A d \in S : d[2] = PowerOff(u) =>
               \E f \in S : f[2] = SelectGyro("MPU9250") /\ f[1] < d[1]
    BY <2>1 DEF GyroKept
  <2>3. e[2] # PowerOff(u)
    BY <1>2, <1>3, <2>2
  <2>4. ASSUME NEW d \in S, d[2] = PowerOff(u)
        PROVE  \E f \in S2 : f[2] = SelectGyro("MPU9250") /\ f[1] < d[1]
    BY <1>3, <2>1, <2>2, <2>4
  <2>5. ASSUME NEW d \in K, d[2] = PowerOff(u)
        PROVE  \E f \in S2 : f[2] = SelectGyro("MPU9250") /\ f[1] < d[1]
    <3>1. e[2] = Off(u)
      BY <1>1, <1>2, <2>5, NewCommands
    <3>2. PICK f \in K : f[2] = SelectGyro("MPU9250")
      BY <1>1, <3>1, ChildrenOfOff DEF Has
    <3>3. d \in OffEntries(u) /\ f \in OffEntries(u) /\ Owner(d[2]) = u /\ Owner(f[2]) = u
      BY <1>1, <3>1, ChildrenOfOff
    <3>4. d[1] = OffTime(u)
      BY <1>1, <2>5, <3>3, RootNames DEF OffEntries, Neutral
    <3>5. f[1] < OffTime(u)
      BY <1>1, <1>5, <3>2, <3>3, RootNames DEF OffEntries, Neutral
    <3> QED
      BY <1>3, <3>2, <3>4, <3>5
  <2> QED
    BY <1>3, <1>4, <2>2, <2>3, <2>4, <2>5
<1> QED
  BY <1>6, <1>7

LEMMA GyroTakenRuns ==
    ASSUME NEW S, Belongs("STIM210", S), NEW e, NEW S2, Runs("STIM210", S, e, S2),
           NEW m, NEW g, NEW g2, SelectedBy(e[2], g, g2), GyroTaken(S, m, g)
    PROVE  GyroTaken(S2, m, g2)
<1> DEFINE u == "STIM210"
           K == Children(u, e[2])
<1> SUFFICES ASSUME m = "FINE_THREE_AXIS"
             PROVE  /\ \A d \in S2 : Kind(d[2]) \in {"up", "ON"}
                    /\ \/ g2 = "STIM210"
                       \/ Has(S2, On("STIM210")) \/ Has(S2, SelectGyro("STIM210"))
  BY DEF GyroTaken
<1>1. u \in Unit
  BY DEF Unit, Biasing
<1>2. e[2] \in Command /\ Owner(e[2]) = u /\ e \in S
  BY EntryType DEF Runs, Belongs
<1>3. /\ \A f \in S : f # e => f \in S2
      /\ \A f \in K : f \in S2
      /\ \A f \in S2 : f \in S \/ f \in K
  BY DEF Runs
<1>4. /\ \A d \in S : Kind(d[2]) \in {"up", "ON"}
      /\ g = "STIM210" \/ Has(S, On("STIM210")) \/ Has(S, SelectGyro("STIM210"))
  BY DEF GyroTaken
<1>5. \A k \in K : Kind(k[2]) = "up"
  <2>1. e[2] # Reset(u)
    BY <1>2, <1>4, RootNames
  <2> QED
    BY <1>1, <1>2, <1>4, <2>1, ChildEnds
<1>6. CASE g = "STIM210"
  <2>1. e[2] # SelectGyro("MPU9250")
    BY <1>2, <1>4, OwnerAndKind
  <2> QED
    BY <1>3, <1>4, <1>5, <1>6, <2>1 DEF SelectedBy
<1>7. CASE Has(S, On("STIM210"))
  <2>1. e[2] = On(u) => Has(K, SelectGyro("STIM210"))
    BY <1>1, ChildrenOfOn
  <2>2. Has(S2, On("STIM210")) \/ Has(S2, SelectGyro("STIM210"))
    BY <1>3, <1>7, <2>1 DEF Has
  <2> QED
    BY <1>3, <1>4, <1>5, <2>2
<1>8. CASE Has(S, SelectGyro("STIM210"))
  <2>1. Has(S2, SelectGyro("STIM210")) \/ e[2] = SelectGyro("STIM210")
    BY <1>3, <1>8 DEF Has
  <2> QED
    BY <1>3, <1>4, <1>5, <2>1 DEF SelectedBy
<1> QED
  BY <1>4, <1>6, <1>7, <1>8

-----------------------------------------------------------------------------
(* What a transition deploys, it deploys once. *)

\* The entries come at different times.
Apart(s) == \A i, j \in DOMAIN s : s[i][1] = s[j][1] => i = j

LEMMA TimedApart ==
    ASSUME NEW es, \A i, j \in DOMAIN es : es[i][1] \in Nat /\ (es[i][1] = es[j][1] => i = j)
    PROVE  Apart(Timed(es))
<1>1. PICK C \in Nat : C >= 10 /\ \A k \in Nat : Sec(k) = k * C
  BY Times
<1>2. ASSUME NEW k \in Nat, NEW l \in Nat, Sec(k) = Sec(l)
      PROVE  k = l
  <2>1. ASSUME NEW a \in Nat, NEW b \in Nat, a < b
        PROVE  Sec(a) < Sec(b)
    <3>1. b * C = a * C + (b - a) * C /\ (b - a) * C >= C
      BY <1>1, <2>1
    <3>2. a * C \in Nat /\ b * C \in Nat
      BY <1>1
    <3>3. a * C < b * C
      BY <1>1, <3>1, <3>2
    <3> QED
      BY <1>1, <3>3
  <2>2. Sec(k) \in Nat
    BY <1>1
  <2>3. ~(k < l) /\ ~(l < k)
    BY <1>2, <2>1, <2>2
  <2> QED
    BY <2>3
<1>3. /\ DOMAIN Timed(es) = DOMAIN es
      /\ \A i \in DOMAIN es : Timed(es)[i] = <<Sec(es[i][1]), es[i][2]>>
  BY DEF Timed
<1>4. \A i \in DOMAIN es : Timed(es)[i][1] = Sec(es[i][1])
  BY <1>3
<1> QED
  BY <1>2, <1>3, <1>4 DEF Apart

LEMMA TablesApart ==
    /\ Apart(StartUpToInitial)
    /\ Apart(BdotToInitial)
    /\ Apart(InitialToBdot)
    /\ Apart(AnyToBdot)
    /\ Apart(BdotToRoughSunPointing)
    /\ Apart(RoughSunPointingToRoughThreeAxis)
    /\ Apart(RoughThreeAxisToRoughThreeAxisRw)
    /\ Apart(RoughThreeAxisRwToFineThreeAxis)
    /\ Apart(Nop)
<1>1. Apart(StartUpToInitial)
  BY TimedApart DEF StartUpToInitial
<1>2. Apart(BdotToInitial)
  BY TimedApart DEF BdotToInitial
<1>3. Apart(InitialToBdot)
  BY TimedApart DEF InitialToBdot
<1>4. Apart(AnyToBdot)
  BY TimedApart DEF AnyToBdot
<1>5. Apart(BdotToRoughSunPointing)
  BY TimedApart DEF BdotToRoughSunPointing
<1>6. Apart(RoughSunPointingToRoughThreeAxis)
  BY TimedApart DEF RoughSunPointingToRoughThreeAxis
<1>7. Apart(RoughThreeAxisToRoughThreeAxisRw)
  BY TimedApart DEF RoughThreeAxisToRoughThreeAxisRw
<1>8. Apart(RoughThreeAxisRwToFineThreeAxis)
  BY TimedApart DEF RoughThreeAxisRwToFineThreeAxis
<1>9. Apart(Nop)
  BY TimedApart DEF Nop
<1> QED
  BY <1>1, <1>2, <1>3, <1>4, <1>5, <1>6, <1>7, <1>8, <1>9

LEMMA TransitionSingle ==
    ASSUME NEW m \in Mode, NEW n \in Successors[m],
           NEW c, c = FinishTransition \/ Owner(c) \in Unit
    PROVE  Single(Transition(m, n), c)
<1> DEFINE s == SwitchingTransition(m, n)
           own == OwnCommandsOfTransition(m, n)
           T == Elements(s)
<1>1. Apart(s)
  BY TransitionCases, TablesApart
<1>2. PICK F \in Nat : Fitting(T, F) /\ Alone(T)
  BY SwitchingTransitionFacts
<1>6. ~Idle(c)
  BY OwnerAndKind, RootNames
<1>3. ASSUME NEW e \in T, NEW f \in T, e[2] = c, f[2] = c
      PROVE  e = f
  <2>1. CASE c = FinishTransition
    <3>1. \A k \in T : k[2] = FinishTransition => k = At(F, FinishTransition)
      <4>1. \A u : FinishTransition \notin {On(u), Off(u), Reset(u)}
        BY DEF FinishTransition, On, Off, Reset, Deploy
      <4> QED
        BY <1>2, <1>6, <2>1, <4>1, RootNames DEF Fitting, Fits
    <3> QED
      BY <1>3, <2>1, <3>1
  <2>2. CASE Owner(c) \in Unit
    BY <1>2, <1>3, <2>2 DEF Alone
  <2> QED
    BY <2>1, <2>2
<1>7. /\ n \in Mode /\ s \in Seq(Entry) /\ own \in Seq(Entry) /\ Idling(own)
      /\ Transition(m, n) = s \o own
  <2>1. n \in Mode
    BY TransitionCases
  <2> QED
    BY <2>1, SwitchingTransitionIsProper, OwnCommandsIdle DEF Proper, Idling, Transition
<1> HIDE DEF s, own
<1>4. \A i \in DOMAIN s : s[i] \in T
  BY DEF Elements
<1>5. Single(s, c)
  <2> SUFFICES ASSUME NEW i \in DOMAIN s, NEW j \in DOMAIN s, s[i][2] = c, s[j][2] = c
               PROVE  i = j
    BY DEF Single
  <2>1. s[i] = s[j]
    BY <1>3, <1>4
  <2> QED
    BY <1>1, <2>1 DEF Apart
<1>8. Single(own, c) /\ ~Has(Elements(own), c)
  BY <1>6, <1>7 DEF Single, Has, Elements, Idling
<1>9. Single(s \o own, c)
  BY <1>5, <1>7, <1>8, SingleConcat
<1> QED
  BY <1>7, <1>9

-----------------------------------------------------------------------------
(* A transition is in progress as long as its end is on the timeline. *)

FinishInv ==
    /\ in_progress <=> Has(Pending, FinishTransition)
    /\ Single(timeline, FinishTransition)

\* No block has the end of a transition, a correction or a reset.
LEMMA NewOfCommand ==
    ASSUME NEW c \in Command
    PROVE  /\ ~Has(New(c), FinishTransition) /\ ~Has(New(c), ClearBias("EXTERNAL"))
           /\ \A u \in Unit : ~Has(New(c), Reset(u))
<1>1. c[1] = "DEPLOY" => c[2] \in BlockId
  BY DEF Command, FinishTransition, OwnCommand
<1>2. ~Has(New(c), FinishTransition) /\ ~Has(New(c), ClearBias("EXTERNAL"))
  <2>1. ClearBias("EXTERNAL")[1] = "CLEAR_BIAS"
    BY DEF ClearBias
  <2> QED
    BY <1>1, <2>1, BlockOwners DEF New, Has
<1>3. ASSUME NEW u \in Unit, NEW k \in New(c), k[2] = Reset(u)
      PROVE  FALSE
  <2>1. k \in Children(u, c)
    BY <1>3, RootNames DEF Children, New
  <2>2. Owner(c) = u
    BY <2>1, OthersChildren
  <2> QED
    BY <1>3, <2>1, <2>2, NewCommands
<1> QED
  BY <1>2, <1>3 DEF Has

LEMMA ExecutedProgress ==
    ASSUME NEW c \in Command, Execute(c)
    PROVE  in_progress' = IF c = FinishTransition THEN FALSE ELSE in_progress
<1>1. CASE c = FinishTransition
  <2>1. c[1] = "FINISH_TRANSITION"
    BY <1>1 DEF FinishTransition
  <2>2. c # OwnCommand
    BY <2>1 DEF OwnCommand
  <2> QED
    BY <1>1, <2>1, <2>2 DEF Execute, Cmd_APP_PSC_CONTROL_PORT,
       Cmd_DI_INA260_INIT, Cmd_DI_INA260_SET_OVER_CURRENT_PROTECTION, Cmd_EL_LOGGING,
       Cmd_EH_ACTIVATE_RULE, Cmd_DI_RM3100_SET_MAG_BIAS_COMPO_NT, Cmd_APP_GYRO_SELECTOR_SET_STATE
<1>2. CASE c # FinishTransition
  BY <1>2 DEF Execute
<1> QED
  BY <1>1, <1>2

LEMMA FinishExecuted ==
    ASSUME IInv, FinishInv, NEW e, Executes(e)
    PROVE  FinishInv'
<1>1. e[2] \in Command /\ e \in Pending
  BY EntryType DEF Executes
<1>2. ~Has(New(e[2]), FinishTransition)
  BY <1>1, NewOfCommand
<1>3. /\ Single(timeline', FinishTransition)
      /\ e[2] = FinishTransition => ~Has(Pending', FinishTransition)
  BY <1>2 DEF Executes, FinishInv
<1>4. in_progress' = IF e[2] = FinishTransition THEN FALSE ELSE in_progress
  BY <1>1, ExecutedProgress DEF Executes
<1>5. e[2] # FinishTransition =>
          (Has(Pending', FinishTransition) <=> Has(Pending, FinishTransition))
  BY <1>2 DEF Executes, Has
<1>6. in_progress' <=> Has(Pending', FinishTransition)
  BY <1>3, <1>4, <1>5 DEF FinishInv
<1>7. Single(timeline, FinishTransition)'
  BY <1>3 DEF Single
<1> QED
  BY <1>6, <1>7 DEF FinishInv, Has

\* What the event handler does.
Handles(v, matched, broken) ==
    /\ timeline' = timeline \o Response(v, matched, broken)
    /\ matched \/ broken => v \in blamed'

LEMMA EventHandled ==
    ASSUME IInv, EVENT_UTILITY
    PROVE  /\ \E v \in Monitored, matched \in BOOLEAN, broken \in BOOLEAN :
                  Handles(v, matched, broken)
           /\ blamed \subseteq blamed'
           /\ UNCHANGED <<mode, in_progress, powered, logging, active, gyro>>
<1> DEFINE r == Head(events)
           matched == r \in active /\ Count(r) >= ResetCount
           counted == matched /\ BrokenOf(r) \in active
           broken == counted /\ count[BrokenOf(r)] + 1 >= PowerOffCount
<1>1. r[2] \in Monitored
  <2>1. events \in Seq(OcRule) /\ events # << >>
    BY DEF IInv, TypeOK, EVENT_UTILITY
  <2>2. r \in OcRule
    BY <2>1
  <2> QED
    BY <2>2, RuleType
<1>2. Handles(r[2], matched, broken)
  BY DEF EVENT_UTILITY, Handles
<1>3. blamed \subseteq blamed'
  BY DEF EVENT_UTILITY
<1>4. UNCHANGED <<mode, in_progress, powered, logging, active, gyro>>
  BY DEF EVENT_UTILITY, modes, switching, attitude
<1>5. matched \in BOOLEAN /\ broken \in BOOLEAN
  OBVIOUS
<1> HIDE DEF matched, broken, r
<1> QED
  BY <1>1, <1>2, <1>3, <1>4, <1>5

LEMMA ResponseSingle ==
    ASSUME IInv, NEW v \in Monitored, NEW matched \in BOOLEAN, NEW broken \in BOOLEAN,
           Handles(v, matched, broken),
           NEW c, c = FinishTransition \/ \E u \in Unit : c = Reset(u), Single(timeline, c)
    PROVE  Single(timeline', c) /\ (Has(Pending', c) <=> Has(Pending, c))
<1> DEFINE s == Response(v, matched, broken)
<1>1. s \in Seq(Entry)
  BY Responds, SensorType
<1>2. v \in Unit /\ Off(v) \in Command /\ Reset(v) \in Command
  BY SensorType, CommandType DEF BlockId, Off, Reset
<1>3. ~Has(New(Off(v)), c) /\ ~Has(New(Reset(v)), c)
  BY <1>2, NewOfCommand
<1>4. ~Has(Elements(s), c)
  <2>1. s \in {Block(<<"OFF", v>>), Block(<<"RESET", v>>), << >>}
    BY DEF Response
  <2>2. /\ New(Off(v)) = Elements(Block(<<"OFF", v>>))
        /\ New(Reset(v)) = Elements(Block(<<"RESET", v>>))
    BY DEF New, Off, Reset, Deploy
  <2>3. ~Has(Elements(<< >>), c)
    BY DEF Has, Elements
  <2> HIDE DEF s
  <2> QED
    BY <1>3, <2>1, <2>2, <2>3
<1> HIDE DEF s
<1>5. Single(s, c)
  BY <1>4 DEF Single, Has, Elements
<1>6. timeline' = timeline \o s
  BY DEF Handles, s
<1>7. Single(timeline \o s, c)
  BY <1>1, <1>4, <1>5, SingleConcat DEF IInv, Proper
<1>8. Pending' = Pending \cup Elements(s)
  BY <1>1, <1>6, Deploys
<1> QED
  BY <1>4, <1>6, <1>7, <1>8 DEF Has

LEMMA TickSingle ==
    ASSUME IInv, Tick, NEW c, Single(timeline, c)
    PROVE  Single(timeline', c) /\ (Has(Pending', c) <=> Has(Pending, c))
<1>1. /\ DOMAIN timeline' = DOMAIN timeline
      /\ \A i \in DOMAIN timeline : timeline'[i][2] = timeline[i][2]
  BY DEF Tick
<1>2. Has(Pending', c) <=> Has(Pending, c)
  BY <1>1 DEF Pending, Elements, Has
<1> QED
  BY <1>1, <1>2 DEF Single

LEMMA TransitionAppends ==
    ASSUME IInv, NEW n \in Mode, StartTransition(n),
           NEW c, c = FinishTransition \/ Owner(c) \in Unit,
           Single(timeline, c), ~Has(Pending, c)
    PROVE  Single(timeline', c)
<1> DEFINE s == Transition(mode, n)
<1>1. mode \in Mode /\ n \in Successors[mode]
  BY PowerAssumption DEF StartTransition, IInv, TypeOK
<1>2. s \in Seq(Entry) /\ Single(s, c)
  BY <1>1, TransitionFacts, TransitionSingle
<1>3. timeline' = timeline \o s
  BY DEF StartTransition
<1> HIDE DEF s
<1>4. Single(timeline \o s, c)
  BY <1>2, SingleConcat DEF IInv, Proper, Pending
<1> QED
  BY <1>3, <1>4

LEMMA FinishStep ==
    ASSUME IInv, Timely, FinishInv, [Next]_vars
    PROVE  FinishInv'
<1>1. CASE UNCHANGED <<timeline, in_progress>>
  BY <1>1 DEF FinishInv, Single, Pending, Elements, Has
<1>2. CASE TLC_DISPATCHER_BC
  <2>1. CASE Idles
    BY <1>1, <2>1 DEF Idles
  <2> QED
    BY <1>2, <2>1, Dispatches, FinishExecuted
<1>3. CASE EVENT_UTILITY
  <2>1. PICK v \in Monitored, matched \in BOOLEAN, broken \in BOOLEAN : Handles(v, matched, broken)
    BY <1>3, EventHandled
  <2>2. /\ Single(timeline', FinishTransition)
        /\ Has(Pending', FinishTransition) <=> Has(Pending, FinishTransition)
    BY <2>1, ResponseSingle DEF FinishInv
  <2>3. in_progress' = in_progress
    BY <1>3, EventHandled
  <2> QED
    BY <2>2, <2>3 DEF FinishInv, Single, Has
<1>4. CASE BASIC_SENSOR_UPDATE
  <2>1. Tick /\ in_progress' = in_progress
    BY <1>4 DEF BASIC_SENSOR_UPDATE, modes
  <2>2. /\ Single(timeline', FinishTransition)
        /\ Has(Pending', FinishTransition) <=> Has(Pending, FinishTransition)
    BY <2>1, TickSingle DEF FinishInv
  <2> QED
    BY <2>1, <2>2 DEF FinishInv, Single, Has
<1>5. ASSUME NEW n \in Mode, StartTransition(n)
      PROVE  FinishInv'
  <2>1. mode \in Mode /\ n \in Successors[mode]
    BY <1>5, PowerAssumption DEF StartTransition, IInv, TypeOK
  <2>2. PICK F \in Nat : Fitting(Elements(Transition(mode, n)), F)
    BY <2>1, TransitionFacts
  <2>3. Has(Elements(Transition(mode, n)), FinishTransition)
    BY <2>2, RootNames DEF Fitting, Has
  <2>4. Pending' = Pending \cup Elements(Transition(mode, n))
    <3>1. Transition(mode, n) \in Seq(Entry)
      BY <2>1, TransitionFacts
    <3> QED
      BY <1>5, <3>1, Deploys DEF StartTransition
  <2>5. in_progress' /\ ~in_progress
    BY <1>5 DEF StartTransition
  <2>6. Single(timeline', FinishTransition)
    BY <1>5, <2>5, TransitionAppends DEF FinishInv
  <2>7. Has(Pending', FinishTransition)
    BY <2>3, <2>4 DEF Has
  <2> QED
    BY <2>5, <2>6, <2>7 DEF FinishInv, Single, Has
<1>6. CASE \E kind \in {"short", "overload"}, v \in Monitored : Fault(kind, v)
  BY <1>1, <1>6 DEF Fault, modes
<1>7. CASE UNCHANGED vars
  BY <1>1, <1>7 DEF vars, modes
<1> QED
  BY <1>2, <1>3, <1>4, <1>5, <1>6, <1>7 DEF Next

LEMMA FinishInit == Init => FinishInv
BY DEF Init, FinishInv, Single, Has, Pending, Elements

-----------------------------------------------------------------------------
(* All that is known of a unit whose sequences the event handler has left    *)
(* alone.                                                                    *)

Finishes(P) == {e \in P : e[2] = FinishTransition}
Kept(u, S, D, m, p, lit, g) ==
    /\ Ordered(u, S)
    /\ InTransition(u, S, D)
    /\ D = {} => AfterTransition(u, S)
    /\ AsMode(u, S, m, p)
    /\ UnwatchedOff(u, S, p, lit)
    /\ u = "STIM210" => GyroKept(S, p, g) /\ GyroTaken(S, m, g)

LEMMA KeptRuns ==
    ASSUME NEW u \in Unit, NEW S, Belongs(u, S), NEW e, NEW S2, Runs(u, S, e, S2),
           OnlyReset(u, e, S2), NEW D, \A f \in D : f \in Entry,
           NEW m, NEW p, NEW p2, PoweredBy(u, e[2], p, p2),
           NEW lit, NEW lit2, RaisedBy(u, e[2], lit, lit2),
           NEW g, NEW g2, SelectedBy(e[2], g, g2), Kept(u, S, D, m, p, lit, g)
    PROVE  Kept(u, S2, D, m, p2, lit2, g2)
<1>1. Ordered(u, S) /\ InTransition(u, S, D) /\ AsMode(u, S, m, p) /\ UnwatchedOff(u, S, p, lit)
  BY DEF Kept
<1>2. Ordered(u, S2)
  BY <1>1, OrderedRuns
<1>3. InTransition(u, S2, D)
  BY <1>1, InTransitionRuns
<1>4. D = {} => AfterTransition(u, S2)
  BY <1>1, AfterTransitionRuns DEF Kept
<1>5. AsMode(u, S2, m, p2)
  BY <1>1, AsModeRuns
<1>6. UnwatchedOff(u, S2, p2, lit2)
  BY <1>1, UnwatchedOffRuns
<1>7. ASSUME u = "STIM210"
      PROVE  GyroKept(S2, p2, g2) /\ GyroTaken(S2, m, g2)
  <2>1. GyroKept(S, p, g) /\ GyroTaken(S, m, g) /\ UpWhenOn(u, S, p)
    BY <1>1, <1>7 DEF Kept, UnwatchedOff
  <2>2. /\ Belongs("STIM210", S) /\ Runs("STIM210", S, e, S2)
        /\ PoweredBy("STIM210", e[2], p, p2) /\ UpWhenOn("STIM210", S, p)
    BY <1>7, <2>1
  <2>3. GyroKept(S2, p2, g2)
    BY <2>1, <2>2, GyroKeptRuns
  <2>4. GyroTaken(S2, m, g2)
    BY <2>1, <2>2, GyroTakenRuns
  <2> QED
    BY <2>3, <2>4
<1> QED
  BY <1>2, <1>3, <1>4, <1>5, <1>6, <1>7 DEF Kept

LEMMA KeptSame ==
    ASSUME NEW u \in Unit, NEW S, NEW D, NEW m, NEW p, NEW p2, u \in p2 <=> u \in p,
           NEW lit, NEW lit2, \A x \in Items(u) : x \in lit2 <=> x \in lit,
           NEW g, NEW g2, u = "STIM210" => g2 = g, Kept(u, S, D, m, p, lit, g)
    PROVE  Kept(u, S, D, m, p2, lit2, g2)
<1>1. AsMode(u, S, m, p2)
  BY DEF Kept, AsMode
<1>2. UnwatchedOff(u, S, p2, lit2)
  BY DEF Kept, UnwatchedOff, UpWhenOn, UnlitBeforeOff, UnlitWhileOff
<1>3. u = "STIM210" => GyroKept(S, p2, g2) /\ GyroTaken(S, m, g2)
  BY DEF Kept, GyroKept
<1> QED
  BY <1>1, <1>2, <1>3 DEF Kept

LEMMA KeptFinished ==
    ASSUME NEW u \in Unit, NEW S, Belongs(u, S), NEW D, NEW e \in D, e \in Entry, e[1] <= 0,
           \A f \in S : e[1] <= f[1],
           NEW m, NEW p, NEW lit, NEW g, Kept(u, S, D, m, p, lit, g)
    PROVE  Kept(u, S, {}, m, p, lit, g)
<1>1. AfterTransition(u, S)
  BY FinishedAfter DEF Kept
<1>2. InTransition(u, S, {})
  BY DEF InTransition
<1> QED
  BY <1>1, <1>2 DEF Kept

LEMMA KeptSooner ==
    ASSUME NEW u \in Unit, NEW S, Belongs(u, S), NEW D, \A f \in D : f \in Entry,
           NEW m, NEW p, NEW lit, NEW g, Kept(u, S, D, m, p, lit, g)
    PROVE  Kept(u, Sooner(S), Sooner(D), m, p, lit, g)
<1>1. \A e \in S : /\ e[1] \in Int /\ Rest(e[2]) \in Nat /\ CoreRest(e[2]) \in Nat
  BY EntryType, RestType, CoreRestType DEF Belongs
<1>2. /\ \A e \in S : \E f \in Sooner(S) : f[1] = e[1] - 1 /\ f[2] = e[2]
      /\ \A f \in Sooner(S) : \E e \in S : f[1] = e[1] - 1 /\ f[2] = e[2] /\ f[1] \in Int
  BY <1>1, SoonerEntries
<1>3. \A f \in Sooner(D) : \E e \in D : f[1] = e[1] - 1 /\ e[1] \in Int
  <2>1. \A e \in D : e[1] \in Int
    BY EntryType
  <2> QED
    BY <2>1, SoonerEntries
<1>4. \A C : HasAny(Sooner(S), C) <=> HasAny(S, C)
  BY <1>2 DEF HasAny
<1>5. \A c : Has(Sooner(S), c) <=> Has(S, c)
  BY <1>2 DEF Has
<1>6. Spill(u) \in Nat
  BY SpillType
<1>7. Ordered(u, Sooner(S))
  <2> SUFFICES ASSUME NEW a \in Sooner(S), NEW b \in Sooner(S)
               PROVE  InOrder(u, a, b)
    BY DEF Ordered
  <2>1. PICK e \in S : a[1] = e[1] - 1 /\ a[2] = e[2]
    BY <1>2
  <2>2. PICK f \in S : b[1] = f[1] - 1 /\ b[2] = f[2]
    BY <1>2
  <2>3. (Before(e, f) => Before(a, b)) /\ (Before(f, e) => Before(b, a))
    BY <1>1, <2>1, <2>2 DEF Before
  <2>4. InOrder(u, e, f)
    BY DEF Kept, Ordered
  <2> QED
    BY <2>1, <2>2, <2>3, <2>4 DEF InOrder
<1>8. InTransition(u, Sooner(S), Sooner(D))
  <2> SUFFICES ASSUME NEW a \in Sooner(S), NEW b \in Sooner(D)
               PROVE  /\ Core(a[2]) => a[1] + CoreRest(a[2]) < b[1]
                      /\ a[1] + Rest(a[2]) < b[1] + Spill(u)
    BY DEF InTransition
  <2>1. PICK e \in S : a[1] = e[1] - 1 /\ a[2] = e[2]
    BY <1>2
  <2>2. PICK f \in D : b[1] = f[1] - 1 /\ f[1] \in Int
    BY <1>3
  <2>3. /\ Core(e[2]) => e[1] + CoreRest(e[2]) < f[1]
        /\ e[1] + Rest(e[2]) < f[1] + Spill(u)
    BY DEF Kept, InTransition
  <2> QED
    BY <1>1, <1>6, <2>1, <2>2, <2>3
<1>9. Sooner(D) = {} => AfterTransition(u, Sooner(S))
  <2> SUFFICES ASSUME Sooner(D) = {}, NEW a \in Sooner(S)
               PROVE  ~Core(a[2]) /\ a[1] + Rest(a[2]) < Spill(u)
    BY DEF AfterTransition
  <2>1. PICK e \in S : a[1] = e[1] - 1 /\ a[2] = e[2]
    BY <1>2
  <2>2. D = {}
    BY DEF Sooner
  <2>3. ~Core(e[2]) /\ e[1] + Rest(e[2]) < Spill(u)
    BY <2>2 DEF Kept, AfterTransition
  <2> QED
    BY <1>1, <1>6, <2>1, <2>3
<1>10. AsMode(u, Sooner(S), m, p)
  BY <1>5 DEF Kept, AsMode
<1>11. UpWhenOn(u, Sooner(S), p)
  <2> SUFFICES ASSUME NEW a \in Sooner(S), Kind(a[2]) = "up", a[2] # PowerOn(u)
               PROVE  \/ u \in p /\ ~Has(Sooner(S), PowerOff(u))
                      \/ \E b \in Sooner(S) : b[2] = PowerOn(u) /\ b[1] < a[1]
    BY DEF UpWhenOn
  <2>1. PICK e \in S : a[1] = e[1] - 1 /\ a[2] = e[2]
    BY <1>2
  <2>2. \/ u \in p /\ ~Has(S, PowerOff(u))
        \/ \E f \in S : f[2] = PowerOn(u) /\ f[1] < e[1]
    BY <2>1 DEF Kept, UnwatchedOff, UpWhenOn
  <2>3. ASSUME NEW f \in S, f[2] = PowerOn(u), f[1] < e[1]
        PROVE  \E b \in Sooner(S) : b[2] = PowerOn(u) /\ b[1] < a[1]
    <3>1. PICK b \in Sooner(S) : b[1] = f[1] - 1 /\ b[2] = f[2]
      BY <1>2
    <3>2. b[1] < a[1]
      BY <1>1, <2>1, <2>3, <3>1
    <3> QED
      BY <2>3, <3>1, <3>2
  <2> QED
    BY <1>5, <2>2, <2>3
<1>12. UnwatchedOff(u, Sooner(S), p, lit)
  BY <1>4, <1>5, <1>11 DEF Kept, UnwatchedOff, UnlitBeforeOff, UnlitWhileOff
<1>13. ASSUME u = "STIM210"
       PROVE  GyroKept(Sooner(S), p, g)
  <2>1. GyroKept(S, p, g)
    BY <1>13 DEF Kept
  <2> SUFFICES ASSUME g = "STIM210", NEW a \in Sooner(S), a[2] = PowerOff("STIM210")
               PROVE  \E b \in Sooner(S) : b[2] = SelectGyro("MPU9250") /\ b[1] < a[1]
    BY <2>1 DEF GyroKept
  <2>2. PICK e \in S : a[1] = e[1] - 1 /\ a[2] = e[2]
    BY <1>2
  <2>3. PICK f \in S : f[2] = SelectGyro("MPU9250") /\ f[1] < e[1]
    BY <2>1, <2>2 DEF GyroKept
  <2>4. PICK b \in Sooner(S) : b[1] = f[1] - 1 /\ b[2] = f[2]
    BY <1>2
  <2>5. b[1] < a[1]
    BY <1>1, <2>2, <2>3, <2>4
  <2> QED
    BY <2>3, <2>4, <2>5
<1>14. u = "STIM210" => GyroTaken(Sooner(S), m, g)
  BY <1>2, <1>5 DEF Kept, GyroTaken
<1> QED
  BY <1>7, <1>8, <1>9, <1>10, <1>12, <1>13, <1>14 DEF Kept

LEMMA KeptTransition ==
    ASSUME NEW u \in Unit, NEW S, Belongs(u, S), NEW m \in Mode, NEW n \in Mode,
           NEW p, NEW lit, NEW g, Kept(u, S, {}, m, p, lit, g),
           NEW T, NEW F \in Nat, Fitting(T, F), Alone(T), Switching(T, m, n)
    PROVE  Kept(u, S \cup Owned(u, T), {At(F, FinishTransition)}, n, p, lit, g)
<1> DEFINE K == Owned(u, T)
           D == {At(F, FinishTransition)}
<1>1. /\ \A f \in S : /\ Kind(f[2]) = "up" /\ ~Core(f[2])
                      /\ f[2][1] \notin {"ON", "ADD_BIAS", "SELECT_GYRO"}
                      /\ f[1] + Rest(f[2]) < Spill(u)
                      /\ f[1] \in Int /\ Rest(f[2]) \in Nat
  <2>1. AfterTransition(u, S)
    BY DEF Kept
  <2> QED
    BY <2>1, AfterTransitionKinds, EntryType, RestType DEF AfterTransition, Belongs
<1>2. Sec(F) \in Nat /\ Spill(u) \in Nat
  <2>1. PICK C \in Nat : C >= 10 /\ \A k \in Nat : Sec(k) = k * C
    BY Times
  <2> QED
    BY <2>1, SpillType
<1>3. /\ \A k \in K : /\ k[2] \in {On(u), Off(u), Reset(u)}
                      /\ \E s \in Nat : k[1] = Sec(s) /\ Fits(u, s, k[2], F)
      /\ \A k, l \in K : k = l
  <2>1. ASSUME NEW k \in K
        PROVE  /\ k[2] \in {On(u), Off(u), Reset(u)}
               /\ \E s \in Nat : k[1] = Sec(s) /\ Fits(u, s, k[2], F)
    <3>1. PICK s \in Nat : k = At(s, k[2]) /\ Fits(u, s, k[2], F)
      BY OwnedOfTransition
    <3>2. k[1] = Sec(s)
      BY <3>1, RootNames
    <3> QED
      BY <3>1, <3>2, OwnedOfTransition
  <2>2. \A k, l \in K : k = l
    BY DEF Owned, Alone
  <2> QED
    BY <2>1, <2>2
<1>4. \A c \in {On(u), Off(u), Reset(u)} : Has(K, c) <=> Has(T, c)
  BY RootNames DEF Has, Owned
<1>5. D # {} /\ \A f \in D : f[1] = Sec(F)
  BY RootNames
<1> HIDE DEF K, D
<1>6. /\ Kind(PowerOn(u)) = "up" /\ Kind(PowerOff(u)) = "down"
      /\ Kind(On(u)) = "ON" /\ Kind(Off(u)) = "OFF" /\ Kind(Reset(u)) = "RESET"
      /\ PowerOn(u)[1] = "ON"
  BY RootNames, OwnerAndKind DEF PowerOn
<1>7. /\ \A c \in {PowerOn(u), PowerOff(u), On(u), Off(u), Reset(u)} : ~Has(S, c)
      /\ ~Has(K, PowerOn(u)) /\ ~Has(K, PowerOff(u))
      /\ \A c : Has(S \cup K, c) <=> Has(S, c) \/ Has(K, c)
  BY <1>1, <1>3, <1>6 DEF Has
<1>8. Ordered(u, S \cup K)
  <2>1. \A e, f \in S : InOrder(u, e, f)
    BY <1>1 DEF InOrder
  <2>2. ASSUME NEW f \in S, NEW k \in K
        PROVE  InOrder(u, f, k) /\ InOrder(u, k, f)
    <3>1. PICK s \in Nat : k[1] = Sec(s) /\ Fits(u, s, k[2], F)
      BY <1>3
    <3>2. Kind(k[2]) \in {"OFF", "RESET"} => Before(f, k)
      <4>1. Kind(k[2]) \in {"OFF", "RESET"} => Spill(u) <= k[1]
        BY <1>3, <1>6, <3>1 DEF Fits
      <4>2. k[1] \in Int
        <5>1. PICK C \in Nat : C >= 10 /\ \A l \in Nat : Sec(l) = l * C
          BY Times
        <5> QED
          BY <3>1, <5>1
      <4> QED
        BY <1>1, <1>2, <4>1, <4>2 DEF Before
    <3>3. k[2] = Reset(u) => u \in Magnetic
      BY <3>1 DEF Fits
    <3>4. Kind(k[2]) \in {"ON", "OFF", "RESET"} /\ (Kind(k[2]) = "RESET" => k[2] = Reset(u))
      BY <1>3, <1>6
    <3> QED
      BY <1>1, <3>2, <3>3, <3>4 DEF InOrder
  <2>3. ASSUME NEW k \in K
        PROVE  InOrder(u, k, k)
    <3>1. Kind(k[2]) \in {"ON", "OFF", "RESET"} /\ (Kind(k[2]) = "RESET" => k[2] = Reset(u))
      BY <1>3, <1>6
    <3>2. k[2] = Reset(u) => u \in Magnetic
      BY <1>3 DEF Fits
    <3> QED
      BY <3>1, <3>2 DEF InOrder
  <2> QED
    BY <1>3, <2>1, <2>2, <2>3 DEF Ordered
<1>9. InTransition(u, S \cup K, D)
  <2> SUFFICES ASSUME NEW e \in S \cup K
               PROVE  /\ Core(e[2]) => e[1] + CoreRest(e[2]) < Sec(F)
                      /\ e[1] + Rest(e[2]) < Sec(F) + Spill(u)
    BY <1>5 DEF InTransition
  <2>1. CASE e \in S
    BY <1>1, <1>2, <2>1
  <2>2. CASE e \in K
    BY <1>3, <2>2 DEF Fits
  <2> QED
    BY <2>1, <2>2
<1>10. AsMode(u, S \cup K, n, p)
  <2>1. /\ u \in UnitsOf[m] => u \in p
        /\ u \notin UnitsOf[m] \cup SpareOf(m) => u \notin p
    BY <1>7 DEF Kept, AsMode
  <2>2. /\ Has(T, On(u)) \/ Has(T, Reset(u)) => u \in UnitsOf[n] \cup SpareOf(n)
        /\ Has(T, Off(u)) => u \notin UnitsOf[n]
        /\ u \in UnitsOf[n] => Has(T, On(u)) \/ Has(T, Reset(u)) \/ u \in UnitsOf[m]
        /\ u \notin UnitsOf[n] \cup SpareOf(n) =>
               Has(T, Off(u)) \/ u \notin UnitsOf[m] \cup SpareOf(m)
    BY DEF Switching
  <2> QED
    BY <1>4, <1>7, <2>1, <2>2 DEF AsMode
<1>11. UnwatchedOff(u, S \cup K, p, lit)
  <2>1. UpWhenOn(u, S, p) /\ UnlitBeforeOff(u, S, lit) /\ UnlitWhileOff(u, S, p, lit)
    BY DEF Kept, UnwatchedOff
  <2>2. \A k \in K : Kind(k[2]) # "up"
    BY <1>3, <1>6
  <2>3. UpWhenOn(u, S \cup K, p)
    BY <1>7, <2>1, <2>2 DEF UpWhenOn
  <2>4. UnlitBeforeOff(u, S \cup K, lit)
    BY <1>7 DEF UnlitBeforeOff
  <2>5. UnlitWhileOff(u, S \cup K, p, lit)
    BY <1>7, <2>1 DEF UnlitWhileOff, HasAny
  <2> QED
    BY <2>3, <2>4, <2>5 DEF UnwatchedOff
<1>12. ASSUME u = "STIM210"
       PROVE  GyroKept(S \cup K, p, g)
  <2>1. GyroKept(S, p, g)
    BY <1>12 DEF Kept
  <2>2. \A e \in S \cup K : e[2] # PowerOff("STIM210")
    BY <1>7, <1>12 DEF Has
  <2> QED
    BY <2>1, <2>2 DEF GyroKept
<1>13. ASSUME u = "STIM210"
       PROVE  GyroTaken(S \cup K, n, g)
  <2> SUFFICES ASSUME n = "FINE_THREE_AXIS"
               PROVE  /\ \A e \in S \cup K : Kind(e[2]) \in {"up", "ON"}
                      /\ \/ g = "STIM210" \/ Has(S \cup K, On("STIM210"))
                         \/ Has(S \cup K, SelectGyro("STIM210"))
    BY DEF GyroTaken
  <2>1. u \in UnitsOf[n] /\ u \notin Magnetic
    BY <1>13, ModeUnits DEF Magnetic
  <2>2. u \in UnitsOf[m] => m = "FINE_THREE_AXIS"
    BY <1>13, ModeUnits DEF Mode, Magnetic, Wheel
  <2>3. ~Has(K, Reset(u))
    BY <1>3, <1>6, <2>1 DEF Has, Fits
  <2>4. ~Has(K, Off(u)) /\ (Has(K, On(u)) \/ m = "FINE_THREE_AXIS")
    BY <1>4, <2>1, <2>2, <2>3 DEF Switching
  <2>5. \A k \in K : k[2] = On(u)
    BY <1>3, <2>3, <2>4 DEF Has
  <2>6. \A e \in S \cup K : Kind(e[2]) \in {"up", "ON"}
    BY <1>1, <1>6, <2>5
  <2>7. m = "FINE_THREE_AXIS" =>
            g = "STIM210" \/ Has(S, On("STIM210")) \/ Has(S, SelectGyro("STIM210"))
    BY <1>13 DEF Kept, GyroTaken
  <2> QED
    BY <1>7, <1>13, <2>4, <2>6, <2>7
<1> QED
  BY <1>5, <1>8, <1>9, <1>10, <1>11, <1>12, <1>13 DEF Kept, K, D

Undisturbed(u) ==
    /\ Kept(u, Owned(u, Pending), Finishes(Pending), mode, powered, Lit, gyro)
    /\ Single(timeline, Reset(u))
SequenceInv == FinishInv /\ \A u \in Unit \ blamed : Undisturbed(u)

LEMMA FinishesFacts ==
    ASSUME IInv
    PROVE  /\ \A f \in Finishes(Pending) : f \in Entry
           /\ Finishes(Pending) = {} <=> ~Has(Pending, FinishTransition)
BY OwnedBelongs DEF IInv, Proper, Finishes, Has

LEMMA UndisturbedSame ==
    ASSUME NEW u \in Unit, Undisturbed(u),
           Owned(u, Pending)' = Owned(u, Pending), Finishes(Pending)' = Finishes(Pending),
           mode' = mode, u \in powered' <=> u \in powered,
           \A x \in Items(u) : x \in Lit' <=> x \in Lit, u = "STIM210" => gyro' = gyro,
           Single(timeline', Reset(u))
    PROVE  Undisturbed(u)'
<1>1. Kept(u, Owned(u, Pending), Finishes(Pending), mode, powered, Lit, gyro)
  BY DEF Undisturbed
<1>2. Kept(u, Owned(u, Pending), Finishes(Pending), mode, powered', Lit', gyro')
  BY <1>1, KeptSame
<1>3. Kept(u, Owned(u, Pending)', Finishes(Pending)', mode', powered', Lit', gyro')
  BY <1>2
<1>4. Single(timeline, Reset(u))'
  BY DEF Single
<1> QED
  BY <1>3, <1>4 DEF Undisturbed, Kept, Owned, Finishes

LEMMA UndisturbedExecuted ==
    ASSUME IInv, FinishInv, NEW u \in Unit, Undisturbed(u), NEW e, Executes(e), mode' = mode
    PROVE  Undisturbed(u)'
<1> DEFINE S == Owned(u, Pending)
           D == Finishes(Pending)
<1>1. e[2] \in Command /\ e \in Pending /\ e \in Entry /\ e[1] <= 0
  BY EntryType DEF Executes
<1>2. ~Has(New(e[2]), FinishTransition) /\ ~Has(New(e[2]), Reset(u))
  BY <1>1, NewOfCommand
<1>3. /\ Single(timeline', Reset(u))
      /\ e[2] = Reset(u) => ~Has(Pending', Reset(u))
  BY <1>2 DEF Executes, Undisturbed
<1>4. e[2] # FinishTransition => Finishes(Pending)' = Finishes(Pending)
  <2> SUFFICES ASSUME e[2] # FinishTransition
               PROVE  \A f : f \in Finishes(Pending') <=> f \in Finishes(Pending)
    BY DEF Finishes
  <2> QED
    BY <1>2 DEF Finishes, Has, Executes
<1>5. SelectedBy(e[2], gyro, gyro') /\ (Owner(e[2]) # "STIM210" => gyro' = gyro)
  BY <1>1, ExecutedGyro DEF Executes
<1>6. Belongs(u, S)
  BY OwnedBelongs DEF IInv, Proper
<1>7. CASE Owner(e[2]) = u
  <2>1. e[2] # FinishTransition
    BY <1>7, RootNames
  <2>2. /\ Runs(u, S, e, Owned(u, Pending)')
        /\ PoweredBy(u, e[2], powered, powered')
        /\ RaisedBy(u, e[2], Lit, Lit')
    BY <1>7, ExecutesOwned
  <2>3. OnlyReset(u, e, Owned(u, Pending)')
    BY <1>3 DEF OnlyReset, Owned, Has
  <2>4. \A f \in D : f \in Entry
    BY FinishesFacts
  <2>5. Kept(u, S, D, mode, powered, Lit, gyro)
    BY DEF Undisturbed
  <2> HIDE DEF S, D
  <2>6. Kept(u, Owned(u, Pending)', D, mode, powered', Lit', gyro')
    BY <1>5, <1>6, <2>2, <2>3, <2>4, <2>5, KeptRuns
  <2>7. Finishes(Pending)' = D
    BY <1>4, <2>1 DEF D
  <2>8. Kept(u, Owned(u, Pending)', Finishes(Pending)', mode', powered', Lit', gyro')
    BY <2>6, <2>7
  <2>9. Single(timeline, Reset(u))'
    BY <1>3 DEF Single
  <2> QED
    BY <2>8, <2>9 DEF Undisturbed, Kept, Owned, Finishes
<1>8. CASE Owner(e[2]) # u
  <2>1. Untouched(u)
    BY <1>8, ExecutesOther
  <2>2. u = "STIM210" => gyro' = gyro
    BY <1>5, <1>8
  <2>3. CASE e[2] # FinishTransition
    BY <1>3, <1>4, <2>1, <2>2, <2>3, UndisturbedSame DEF Untouched
  <2>4. CASE e[2] = FinishTransition
    <3>1. Finishes(Pending)' = {}
      <4>1. Single(timeline, FinishTransition)
        BY DEF FinishInv
      <4>2. ~Has(Pending', FinishTransition)
        BY <1>2, <2>4, <4>1 DEF Executes
      <4> QED
        BY <4>2 DEF Has, Finishes
    <3>2. e \in D /\ \A f \in S : e[1] <= f[1]
      BY <1>1, <2>4 DEF Finishes, Owned, Executes
    <3>3. Kept(u, S, D, mode, powered, Lit, gyro)
      BY DEF Undisturbed
    <3> HIDE DEF S, D
    <3>4. Kept(u, S, {}, mode, powered, Lit, gyro)
      BY <1>1, <1>6, <3>2, <3>3, KeptFinished
    <3>5. Kept(u, S, {}, mode, powered', Lit', gyro')
      BY <2>1, <2>2, <3>4, KeptSame DEF Untouched
    <3>6. Owned(u, Pending)' = S
      BY <2>1 DEF Untouched, S
    <3>7. Kept(u, Owned(u, Pending)', Finishes(Pending)', mode', powered', Lit', gyro')
      BY <3>1, <3>5, <3>6
    <3>8. Single(timeline, Reset(u))'
      BY <1>3 DEF Single
    <3> QED
      BY <3>7, <3>8 DEF Undisturbed, Kept, Owned, Finishes
  <2> QED
    BY <2>3, <2>4
<1> QED
  BY <1>7, <1>8

LEMMA UndisturbedHandled ==
    ASSUME IInv, NEW u \in Unit \ blamed', Undisturbed(u), EVENT_UTILITY
    PROVE  Undisturbed(u)'
<1>1. PICK v \in Monitored, matched \in BOOLEAN, broken \in BOOLEAN : Handles(v, matched, broken)
  BY EventHandled
<1> DEFINE s == Response(v, matched, broken)
<1>2. /\ s \in Seq(Entry)
      /\ Owned(u, Elements(s)) # {} => v = u /\ (matched \/ broken)
  BY Responds
<1>3. Owned(u, Elements(s)) = {}
  BY <1>1, <1>2 DEF Handles
<1>4. timeline' = timeline \o s
  BY <1>1 DEF Handles
<1>5. Single(timeline', Reset(u))
  BY <1>1, ResponseSingle DEF Undisturbed
<1>6. ~Has(Elements(s), FinishTransition)
  <2>1. v \in Unit /\ Off(v) \in Command /\ Reset(v) \in Command
    BY SensorType, CommandType DEF BlockId, Off, Reset
  <2>2. ~Has(New(Off(v)), FinishTransition) /\ ~Has(New(Reset(v)), FinishTransition)
    BY <2>1, NewOfCommand
  <2>3. s \in {Block(<<"OFF", v>>), Block(<<"RESET", v>>), << >>}
    BY DEF Response
  <2>4. /\ New(Off(v)) = Elements(Block(<<"OFF", v>>))
        /\ New(Reset(v)) = Elements(Block(<<"RESET", v>>))
    BY DEF New, Off, Reset, Deploy
  <2>5. ~Has(Elements(<< >>), FinishTransition)
    BY DEF Has, Elements
  <2> HIDE DEF s
  <2> QED
    BY <2>2, <2>3, <2>4, <2>5
<1> HIDE DEF s
<1>7. /\ Pending' = Pending \cup Elements(s)
      /\ Owned(u, Pending)' = Owned(u, Pending) \cup Owned(u, Elements(s))
  BY <1>2, <1>4, Deploys
<1>8. Owned(u, Pending)' = Owned(u, Pending)
  BY <1>3, <1>7
<1>9. Finishes(Pending)' = Finishes(Pending)
  BY <1>6, <1>7 DEF Finishes, Has
<1>10. UNCHANGED <<mode, powered, logging, active, gyro>>
  BY EventHandled
<1>11. Lit' = Lit
  BY <1>10 DEF Lit
<1> QED
  BY <1>5, <1>8, <1>9, <1>10, <1>11, UndisturbedSame

LEMMA UndisturbedTick ==
    ASSUME IInv, NEW u \in Unit, Undisturbed(u), BASIC_SENSOR_UPDATE
    PROVE  Undisturbed(u)'
<1> DEFINE S == Owned(u, Pending)
           D == Finishes(Pending)
<1>1. Tick /\ mode' = mode /\ powered' = powered /\ gyro' = gyro
  BY DEF BASIC_SENSOR_UPDATE, modes, switching, attitude
<1>2. Lit' = Lit
  BY DEF BASIC_SENSOR_UPDATE, Lit
<1>3. Single(timeline', Reset(u))
  BY <1>1, TickSingle DEF Undisturbed
<1>4. Pending' = Sooner(Pending) /\ Owned(u, Pending)' = Sooner(S)
  BY <1>1, Ticks
<1>5. Finishes(Pending)' = Sooner(D)
  <2>1. \A e : <<e[1] - 1, e[2]>>[2] = e[2]
    OBVIOUS
  <2>2. Finishes(Sooner(Pending)) = Sooner(Finishes(Pending))
    BY <2>1 DEF Finishes, Sooner
  <2> QED
    BY <1>4, <2>2 DEF Finishes
<1>6. Belongs(u, S)
  BY OwnedBelongs DEF IInv, Proper
<1>7. \A f \in D : f \in Entry
  BY FinishesFacts
<1>8. Kept(u, S, D, mode, powered, Lit, gyro)
  BY DEF Undisturbed
<1> HIDE DEF S, D
<1>9. Kept(u, Sooner(S), Sooner(D), mode, powered, Lit, gyro)
  BY <1>6, <1>7, <1>8, KeptSooner
<1>10. Kept(u, Owned(u, Pending)', Finishes(Pending)', mode', powered', Lit', gyro')
  BY <1>1, <1>2, <1>4, <1>5, <1>9
<1>11. Single(timeline, Reset(u))'
  BY <1>3 DEF Single
<1> QED
  BY <1>10, <1>11 DEF Undisturbed, Kept, Owned, Finishes

LEMMA UndisturbedTransition ==
    ASSUME IInv, FinishInv, NEW u \in Unit, Undisturbed(u), NEW n \in Mode, StartTransition(n)
    PROVE  Undisturbed(u)'
<1> DEFINE T == Elements(Transition(mode, n))
           S == Owned(u, Pending)
<1>1. mode \in Mode /\ n \in Successors[mode]
  BY PowerAssumption DEF StartTransition, IInv, TypeOK
<1>2. Transition(mode, n) \in Seq(Entry) /\ Alone(T) /\ Switching(T, mode, n)
  BY <1>1, TransitionFacts
<1>3. PICK F \in Nat : Fitting(T, F)
  BY <1>1, TransitionFacts
<1>4. /\ timeline' = timeline \o Transition(mode, n) /\ mode' = n
      /\ ~in_progress /\ powered' = powered /\ Lit' = Lit /\ gyro' = gyro
  BY DEF StartTransition, switching, handling, attitude, Lit
<1>5. /\ Pending' = Pending \cup T
      /\ Owned(u, Pending)' = S \cup Owned(u, T)
  BY <1>2, <1>4, Deploys
<1>6. Finishes(Pending) = {}
  BY <1>4 DEF FinishInv, Finishes, Has
<1>7. Finishes(T) = {At(F, FinishTransition)}
  <2>1. \A v : FinishTransition \notin {On(v), Off(v), Reset(v)}
    BY DEF FinishTransition, On, Off, Reset, Deploy
  <2>2. \A k \in T : k[2] = FinishTransition => k = At(F, FinishTransition)
    <3>1. ~Idle(FinishTransition)
      BY OwnerAndKind
    <3> QED
      BY <1>3, <2>1, <3>1, RootNames DEF Fitting, Fits
  <2>3. At(F, FinishTransition) \in T /\ At(F, FinishTransition)[2] = FinishTransition
    BY <1>3, RootNames DEF Fitting
  <2> HIDE DEF T
  <2> QED
    BY <2>2, <2>3 DEF Finishes
<1>8. Belongs(u, S)
  BY OwnedBelongs DEF IInv, Proper
<1>9. Kept(u, S, {}, mode, powered, Lit, gyro)
  BY <1>6 DEF Undisturbed
<1>10. Single(timeline', Reset(u))
  <2>1. AfterTransition(u, S)
    BY <1>9 DEF Kept
  <2>2. \A e \in S : Kind(e[2]) = "up"
    BY <1>8, <2>1, AfterTransitionKinds
  <2>3. ~Has(Pending, Reset(u))
    BY <2>2, RootNames DEF Has, Owned
  <2> QED
    BY <2>3, RootNames, TransitionAppends DEF Undisturbed
<1>11. n \in Mode
  OBVIOUS
<1> HIDE DEF S, T
<1>12. Finishes(Pending)' = {At(F, FinishTransition)}
  BY <1>5, <1>6, <1>7 DEF Finishes
<1>13. Kept(u, S \cup Owned(u, T), {At(F, FinishTransition)}, n, powered, Lit, gyro)
  BY <1>1, <1>2, <1>3, <1>8, <1>9, KeptTransition
<1>14. Kept(u, Owned(u, Pending)', Finishes(Pending)', mode', powered', Lit', gyro')
  BY <1>4, <1>5, <1>12, <1>13
<1>15. Single(timeline, Reset(u))'
  BY <1>10 DEF Single
<1> QED
  BY <1>14, <1>15 DEF Undisturbed, Kept, Owned, Finishes

LEMMA SequenceStep ==
    ASSUME IInv, Timely, SequenceInv, [Next]_vars
    PROVE  SequenceInv'
<1>1. FinishInv /\ FinishInv'
  BY FinishStep DEF SequenceInv
<1>2. blamed \subseteq blamed'
  <2>1. EVENT_UTILITY => blamed \subseteq blamed'
    BY EventHandled
  <2>2. ~EVENT_UTILITY => blamed' = blamed
    BY DEF Next, vars, TLC_DISPATCHER_BC, BASIC_SENSOR_UPDATE, Fault, StartTransition, history
  <2> QED
    BY <2>1, <2>2
<1> SUFFICES ASSUME NEW u \in Unit \ blamed'
             PROVE  Undisturbed(u)'
  BY <1>1 DEF SequenceInv, Undisturbed
<1>3. Undisturbed(u)
  BY <1>2 DEF SequenceInv
<1>4. CASE UNCHANGED <<timeline, mode, powered, active, logging, gyro>>
  <2>1. /\ Owned(u, Pending)' = Owned(u, Pending) /\ Finishes(Pending)' = Finishes(Pending)
        /\ Lit' = Lit
    BY <1>4 DEF Owned, Finishes, Pending, Elements, Lit
  <2>2. Single(timeline', Reset(u))
    BY <1>3, <1>4 DEF Undisturbed
  <2> QED
    BY <1>3, <1>4, <2>1, <2>2, UndisturbedSame
<1>5. CASE TLC_DISPATCHER_BC
  <2>1. mode' = mode
    BY <1>5 DEF TLC_DISPATCHER_BC
  <2>2. CASE Idles
    BY <1>4, <2>1, <2>2 DEF Idles, switching, handling, attitude
  <2> QED
    BY <1>1, <1>3, <1>5, <2>1, <2>2, Dispatches, UndisturbedExecuted
<1>6. CASE \E kind \in {"short", "overload"}, v \in Monitored : Fault(kind, v)
  BY <1>4, <1>6 DEF Fault, modes, handling, attitude
<1>7. CASE UNCHANGED vars
  BY <1>4, <1>7 DEF vars, modes, switching, handling, attitude
<1> QED
  BY <1>1, <1>3, <1>5, <1>6, <1>7, UndisturbedHandled, UndisturbedTick, UndisturbedTransition
  DEF Next

LEMMA SequenceInit == Init => SequenceInv
<1> SUFFICES ASSUME Init PROVE SequenceInv
  OBVIOUS
<1>1. timeline = << >> /\ powered = {} /\ gyro = "MPU9250" /\ mode = "START_UP"
  BY DEF Init
<1>2. Pending = {} /\ Finishes(Pending) = {} /\ \A u : Owned(u, Pending) = {}
  BY <1>1 DEF Pending, Elements, Finishes, Owned
<1>3. Lit = {}
  BY DEF Init, Lit
<1>4. ASSUME NEW u \in Unit
      PROVE  Kept(u, {}, {}, "START_UP", {}, {}, "MPU9250")
  <2>1. Ordered(u, {}) /\ InTransition(u, {}, {}) /\ AfterTransition(u, {})
    BY DEF Ordered, InTransition, AfterTransition
  <2>2. AsMode(u, {}, "START_UP", {})
    BY ModeUnits DEF AsMode, Has
  <2>3. UnwatchedOff(u, {}, {}, {})
    BY DEF UnwatchedOff, UpWhenOn, UnlitBeforeOff, UnlitWhileOff, Has
  <2>4. GyroKept({}, {}, "MPU9250") /\ GyroTaken({}, "START_UP", "MPU9250")
    BY DEF GyroKept, GyroTaken
  <2> QED
    BY <2>1, <2>2, <2>3, <2>4 DEF Kept
<1>5. \A u : Single(timeline, Reset(u))
  BY <1>1 DEF Single
<1> QED
  BY <1>1, <1>2, <1>3, <1>4, <1>5, FinishInit DEF SequenceInv, Undisturbed

-----------------------------------------------------------------------------
(* Before the first transition nothing is logged: the sensors, which every   *)
(* later mode wants, are the only unit whose sequences enable and disable    *)
(* the over-current reports for good.                                        *)

StartInv ==
    mode = "START_UP" => timeline = << >> /\ events = << >> /\ powered = {} /\ logging = {}

LEMMA StartInit == Init => StartInv
BY DEF Init, StartInv

LEMMA StartStep ==
    ASSUME IInv, StartInv, [Next]_vars
    PROVE  StartInv'
<1> SUFFICES ASSUME mode' = "START_UP"
             PROVE  timeline' = << >> /\ events' = << >> /\ powered' = {} /\ logging' = {}
  BY DEF StartInv
<1>1. ASSUME NEW n \in Mode, StartTransition(n)
      PROVE  FALSE
  <2>1. mode \in Mode /\ n \in Successors[mode] /\ n = "START_UP"
    BY <1>1, PowerAssumption DEF StartTransition, IInv, TypeOK
  <2>2. mode = "START_UP"
    BY <2>1, TransitionCases
  <2> QED
    BY <2>1, <2>2 DEF Successors, Mode
<1>2. CASE mode' = mode
  <2>1. timeline = << >> /\ events = << >> /\ powered = {} /\ logging = {}
    BY <1>2 DEF StartInv
  <2>2. CASE TLC_DISPATCHER_BC
    <3>1. Idles
      BY <2>1, <2>2 DEF TLC_DISPATCHER_BC, Idles
    <3> QED
      BY <2>1, <2>2, <3>1 DEF TLC_DISPATCHER_BC, Idles, switching, handling
  <2>3. CASE EVENT_UTILITY
    BY <2>1, <2>3 DEF EVENT_UTILITY
  <2>4. CASE BASIC_SENSOR_UPDATE
    <3>1. events' = << >>
      <4>1. \A s, sign, kind, seen : Report(s, sign, kind, seen) = << >>
        BY <2>1 DEF Report
      <4>2. << >> \o << >> = << >>
        OBVIOUS
      <4> QED
        BY <2>4, <4>1, <4>2 DEF BASIC_SENSOR_UPDATE, APP_CURRENT_ANOMALY_exec_, Reports
    <3>2. timeline' = << >>
      BY <2>1, <2>4 DEF BASIC_SENSOR_UPDATE, Tick
    <3> QED
      BY <2>1, <2>4, <3>1, <3>2 DEF BASIC_SENSOR_UPDATE, switching
  <2>5. CASE \E kind \in {"short", "overload"}, u \in Monitored : Fault(kind, u)
    BY <2>1, <2>5 DEF Fault, handling
  <2>6. CASE UNCHANGED vars
    BY <2>1, <2>6 DEF vars, switching, handling
  <2> QED
    BY <1>1, <2>2, <2>3, <2>4, <2>5, <2>6 DEF Next
<1>3. mode' = mode \/ \E n \in Mode : StartTransition(n)
  BY DEF Next, vars, modes, TLC_DISPATCHER_BC, EVENT_UTILITY, BASIC_SENSOR_UPDATE, Fault
<1> QED
  BY <1>1, <1>2, <1>3

LEMMA ReportsOfSensors == \A u \in Unit : HwOc \in GroupsOf(u) => u = "INA260"
<1>1. \A v : HwOc # TlmError(v) /\ HwOc # CrcError(v) /\ HwOc # UnitError(v)
  BY DEF HwOc, TlmError, CrcError, UnitError
<1>2. \A a, b, c : \A g \in Elements(<<a, b, c>>) : g \in {a, b, c}
  BY DEF Elements
<1>3. \A a, b : \A g \in Elements(<<a, b>>) : g \in {a, b}
  BY DEF Elements
<1>4. ASSUME NEW u \in Wheel
      PROVE  HwOc \notin GroupsOf(u)
  <2>1. GroupsOf(u) = Elements(<<TlmError(u), CrcError(u), UnitError(u)>>)
    BY RulesAndGroups DEF RwGroups
  <2> QED
    BY <1>1, <1>2, <2>1
<1>5. HwOc \notin GroupsOf("RM3100") /\ HwOc \notin GroupsOf("MPU9250") /\ HwOc \notin GroupsOf("MTQ")
  BY <1>1, <1>3, RulesAndGroups DEF Rm3100Groups, Mpu9250Groups
<1>6. HwOc \notin GroupsOf("NANOSSOC_D60") /\ HwOc \notin GroupsOf("SAGITTA")
  BY <1>1, <1>2, RulesAndGroups DEF SunSensorGroups, SagittaGroups
<1>7. HwOc \notin GroupsOf("OEM7600") /\ HwOc \notin GroupsOf("STIM210")
  BY <1>1, <1>2, <1>3, RulesAndGroups DEF Oem7600Groups, Stim210Groups
<1> QED
  BY <1>4, <1>5, <1>6, <1>7, UnitCases DEF Unit, Biasing, Wheel

-----------------------------------------------------------------------------
(* The bias of the external magnetometer: each block that switches a unit on *)
(* adds its bias once.                                                       *)

Plus(u) == AddBias("EXTERNAL", u, 1)

Never(s, c) == s \in Seq(Entry) /\ ~Has(Elements(s), c)
Once(s, c) == s \in Seq(Entry) /\ Has(Elements(s), c) /\ Single(s, c)

LEMMA OnceJoined ==
    ASSUME NEW s, NEW t, NEW c
    PROVE  /\ Never(s, c) /\ Never(t, c) => Never(s \o t, c)
           /\ Never(s, c) /\ Once(t, c) => Once(s \o t, c)
           /\ Once(s, c) /\ Never(t, c) => Once(s \o t, c)
<1> SUFFICES ASSUME s \in Seq(Entry), t \in Seq(Entry)
             PROVE  /\ Never(s, c) /\ Never(t, c) => Never(s \o t, c)
                    /\ Never(s, c) /\ Once(t, c) => Once(s \o t, c)
                    /\ Once(s, c) /\ Never(t, c) => Once(s \o t, c)
  BY DEF Never, Once
<1>1. Elements(s \o t) = Elements(s) \cup Elements(t)
  BY JoinElements
<1>2. s \o t \in Seq(Entry)
  OBVIOUS
<1>3. Never(s, c) => Single(s, c)
  BY DEF Never, Single, Has, Elements
<1>4. Never(t, c) => Single(t, c)
  BY DEF Never, Single, Has, Elements
<1>5. /\ Never(s, c) => ~Has(Elements(s), c)
      /\ Never(t, c) => ~Has(Elements(t), c)
      /\ Once(s, c) => Has(Elements(s), c) /\ Single(s, c)
      /\ Once(t, c) => Has(Elements(t), c) /\ Single(t, c)
  BY DEF Never, Once
<1>6. Has(Elements(s \o t), c) <=> Has(Elements(s), c) \/ Has(Elements(t), c)
  BY <1>1 DEF Has
<1>7. /\ Never(s, c) /\ Once(t, c) => Single(s \o t, c)
      /\ Once(s, c) /\ Never(t, c) => Single(s \o t, c)
  BY <1>3, <1>4, <1>5, SingleConcat
<1> QED
  BY <1>2, <1>5, <1>6, <1>7 DEF Never, Once

\* The commands that add no bias.
Others == {c \in Command : c[1] # "ADD_BIAS"}

LEMMA NeverPart ==
    ASSUME NEW u \in Biasing, NEW t \in Int, NEW cs \in Seq(Others)
    PROVE  Never(From(t, cs), Plus(u))
<1>1. Others \subseteq Command /\ Plus(u) \notin Others
  BY DEF Others, Plus, AddBias
<1>2. /\ From(t, cs) \in Seq(Entry)
      /\ \A e \in Elements(From(t, cs)) : e[2] \in Others
  BY <1>1, FromElements
<1> QED
  BY <1>1, <1>2 DEF Never, Has

LEMMA BiasOnce ==
    ASSUME NEW u \in Biasing, NEW t \in Int
    PROVE  Once(From(t, BiasBoth(u, 1)), Plus(u))
<1>1. AddBias("ON_AOBC", u, 1) \in Command /\ Plus(u) \in Command
  BY CommandType DEF Mag, Plus
<1>2. AddBias("ON_AOBC", u, 1) # Plus(u)
  BY DEF AddBias, Plus
<1> DEFINE s == << <<t, AddBias("ON_AOBC", u, 1)>>, <<t + 1, Plus(u)>> >>
<1>3. From(t, BiasBoth(u, 1)) = s
  BY DEF From, BiasBoth, Plus
<1>4. /\ From(t, BiasBoth(u, 1)) \in Seq(Entry)
      /\ Elements(From(t, BiasBoth(u, 1))) =
             {<<t, AddBias("ON_AOBC", u, 1)>>, <<t + 1, Plus(u)>>}
  BY <1>1, FromOneOrTwo DEF BiasBoth, Plus
<1>5. /\ DOMAIN s = 1..2 /\ s[1][2] = AddBias("ON_AOBC", u, 1) /\ s[2][2] = Plus(u)
  OBVIOUS
<1> HIDE DEF s
<1>6. Single(s, Plus(u))
  BY <1>2, <1>5 DEF Single
<1>7. <<t + 1, Plus(u)>>[2] = Plus(u)
  OBVIOUS
<1> QED
  BY <1>3, <1>4, <1>6, <1>7 DEF Once, Has

LEMMA OtherCommands ==
    /\ \A u \in Monitored : Protect(u) \in Others
    /\ DisableLogging(HwOc) \in Others
    /\ \A u \in Unit : PowerOn(u) \in Others /\ Raises(u) \subseteq Others
    /\ \A u \in Biasing : Activate(u) \in Others
    /\ SelectGyro("STIM210") \in Others
<1>1. /\ \A u \in Monitored : Protect(u) \in Command
      /\ DisableLogging(HwOc) \in Command
      /\ \A u \in Unit : PowerOn(u) \in Command
      /\ \A u \in Biasing : Activate(u) \in Command
      /\ SelectGyro("STIM210") \in Command
  BY CommandType, GroupsType DEF Activate, BlockId
<1>2. /\ \A u : /\ Protect(u)[1] = "PROTECT" /\ PowerOn(u)[1] = "ON"
                /\ Activate(u)[1] = "DEPLOY" /\ SelectGyro(u)[1] = "SELECT_GYRO"
      /\ DisableLogging(HwOc)[1] = "DISABLE_LOGGING"
  BY DEF Protect, PowerOn, Activate, Deploy, SelectGyro, DisableLogging
<1>3. \A u : Raises(u) \subseteq Others
  BY DEF Raises, Others
<1> QED
  BY <1>1, <1>2, <1>3 DEF Others

\* A list of commands that add no bias, after the bias.
LEMMA BiasThen ==
    ASSUME NEW u \in Biasing, NEW t \in Int, NEW cs \in Seq(Others)
    PROVE  Once(From(t, BiasBoth(u, 1) \o cs), Plus(u))
<1>1. BiasBoth(u, 1) \in Seq(Command) /\ Len(BiasBoth(u, 1)) = 2
  <2>1. AddBias("ON_AOBC", u, 1) \in Command /\ AddBias("EXTERNAL", u, 1) \in Command
    BY CommandType DEF Mag
  <2> QED
    BY <2>1, Lists DEF BiasBoth
<1>2. cs \in Seq(Command)
  <2>1. Others \subseteq Command
    BY DEF Others
  <2>2. \A A, B : A \subseteq B => Seq(A) \subseteq Seq(B)
    OBVIOUS
  <2> QED
    BY <2>1, <2>2
<1>3. From(t, BiasBoth(u, 1) \o cs) = From(t, BiasBoth(u, 1)) \o From(t + 2, cs)
  BY <1>1, <1>2, FromConcat
<1>4. Once(From(t, BiasBoth(u, 1)), Plus(u))
  BY BiasOnce
<1>5. Never(From(t + 2, cs), Plus(u))
  <2>1. t + 2 \in Int
    OBVIOUS
  <2> QED
    BY <2>1, NeverPart
<1> QED
  BY <1>3, <1>4, <1>5, OnceJoined

\* What the blocks begin with.
LEMMA BiasStart ==
    ASSUME NEW u \in Biasing, NEW t \in Int, NEW on \in Int
    PROVE  /\ Never(From(t, <<Protect(u), DisableLogging(HwOc)>>) \o From(on, <<PowerOn(u)>>),
                    Plus(u))
           /\ Never(From(t, <<DisableLogging(HwOc), Protect(u)>>) \o From(on, <<PowerOn(u)>>),
                    Plus(u))
<1>1. Protect(u) \in Others /\ DisableLogging(HwOc) \in Others /\ PowerOn(u) \in Others
  BY UnitsOfBlocks, OtherCommands
<1>2. /\ <<Protect(u), DisableLogging(HwOc)>> \in Seq(Others)
      /\ <<DisableLogging(HwOc), Protect(u)>> \in Seq(Others)
      /\ <<PowerOn(u)>> \in Seq(Others)
  BY <1>1, Lists
<1> QED
  BY <1>2, NeverPart, OnceJoined

LEMMA BiasOfOn ==
    ASSUME NEW u \in Biasing
    PROVE  Once(PowerOnBlock(u), Plus(u))
<1>1. PICK C : C = OBCT_CYCLES_PER_SEC
  OBVIOUS
<1>2. /\ C \in Nat /\ Sec(1) = C /\ Sec(2) = 2 * C /\ Sec(3) = 3 * C /\ Sec(5) = 5 * C
      /\ Sec(6) = 6 * C /\ Sec(11) = 11 * C /\ Sec(12) = 12 * C /\ Sec(15) = 15 * C
      /\ Sec(41) = 41 * C
  BY <1>1, MoreTimes
<1>3. /\ Sec(1) \in Int /\ Sec(1) + 2 \in Int /\ Sec(2) + 1 \in Int /\ Sec(3) + 2 \in Int
      /\ Sec(5) + 1 \in Int /\ Sec(6) + 1 \in Int /\ Sec(11) + 4 \in Int /\ Sec(12) + 4 \in Int
      /\ Sec(15) + 2 \in Int /\ Sec(41) + 3 \in Int /\ 1 \in Int
  BY <1>2
<1>4. u \in Unit /\ Activate(u) \in Others /\ Protect(u) \in Others
  BY UnitsOfBlocks, OtherCommands
<1>5. CASE u = "NANOSSOC_D60"
  <2> DEFINE gs == SunSensorGroups \o <<HwOc>>
             cs == EnableAll(gs) \o <<Activate(u)>>
  <2>1. gs \in Seq(GroupsFor(u))
    <3>1. SunSensorGroups \in Seq(GroupsFor(u))
      BY <1>5, UnitGroups
    <3> QED
      BY <1>4, <3>1, UnitGroups
  <2> HIDE DEF gs
  <2>2. EnableAll(gs) \in Seq(Others)
    <3>1. EnableAll(gs) \in Seq(Raises(u))
      BY <1>4, <2>1, AllCommands
    <3>2. \A A, B : A \subseteq B => Seq(A) \subseteq Seq(B)
      OBVIOUS
    <3> QED
      BY <1>4, <3>1, <3>2, OtherCommands
  <2>3. cs \in Seq(Others)
    BY <1>4, <2>2, Lists, Joined
  <2>4. BiasBoth(u, 1) \o EnableAll(gs) \o <<Activate(u)>> = BiasBoth(u, 1) \o cs
    <3>1. \A a, b, c : a \in Seq(Command) /\ b \in Seq(Command) /\ c \in Seq(Command) =>
              (a \o b) \o c = a \o (b \o c)
      OBVIOUS
    <3>2. /\ BiasBoth(u, 1) \in Seq(Command) /\ <<Activate(u)>> \in Seq(Command)
          /\ EnableAll(gs) \in Seq(Command)
      <4>1. AddBias("ON_AOBC", u, 1) \in Command /\ AddBias("EXTERNAL", u, 1) \in Command
        BY CommandType DEF Mag
      <4>2. \A A, B : A \subseteq B => Seq(A) \subseteq Seq(B)
        OBVIOUS
      <4>3. Others \subseteq Command
        BY DEF Others
      <4> QED
        BY <1>4, <2>2, <4>1, <4>2, <4>3, Lists DEF BiasBoth
    <3> QED
      BY <3>1, <3>2
  <2> HIDE DEF cs
  <2>5. Once(From(Sec(5) + 1, BiasBoth(u, 1) \o cs), Plus(u))
    BY <1>3, <2>3, BiasThen
  <2>6. PowerOnBlock(u) =
            (From(Sec(1), <<Protect(u), DisableLogging(HwOc)>>)
                \o From(Sec(2) + 1, <<PowerOn(u)>>))
                \o From(Sec(5) + 1, BiasBoth(u, 1) \o EnableAll(gs) \o <<Activate(u)>>)
    BY <1>5 DEF PowerOnBlock, PowerOnNanossocD60, Activate, gs, Wheel
  <2> QED
    BY <1>3, <2>4, <2>5, <2>6, BiasStart, OnceJoined
<1>6. CASE u = "OEM7600"
  <2>1. Once(From(Sec(15) + 2, BiasBoth(u, 1) \o <<Activate(u)>>), Plus(u))
    BY <1>3, <1>4, Lists, BiasThen
  <2>2. PowerOnBlock(u) =
            (From(1, <<Protect(u), DisableLogging(HwOc)>>) \o From(Sec(1) + 2, <<PowerOn(u)>>))
                \o From(Sec(15) + 2, BiasBoth(u, 1) \o <<Activate(u)>>)
    BY <1>6 DEF PowerOnBlock, PowerOnOem7600, Activate, Wheel
  <2> QED
    BY <1>3, <2>1, <2>2, BiasStart, OnceJoined
<1>7. CASE u = "SAGITTA"
  <2> DEFINE last == << <<Sec(41) + 3, Protect(u)>>, <<Sec(41) + 3, Activate(u)>> >>
  <2>1. Once(From(Sec(6) + 1, BiasBoth(u, 1)), Plus(u))
    BY <1>3, BiasOnce
  <2>2. Never(last, Plus(u))
    <3>1. <<Sec(41) + 3, Protect(u)>> \in Entry /\ <<Sec(41) + 3, Activate(u)>> \in Entry
      BY <1>3, <1>4 DEF Entry, Others
    <3>2. last \in Seq(Entry) /\ Elements(last) =
              {<<Sec(41) + 3, Protect(u)>>, <<Sec(41) + 3, Activate(u)>>}
      BY <3>1 DEF Elements
    <3>3. /\ <<Sec(41) + 3, Protect(u)>>[2] = Protect(u)
          /\ <<Sec(41) + 3, Activate(u)>>[2] = Activate(u)
      OBVIOUS
    <3>4. Plus(u) # Protect(u) /\ Plus(u) # Activate(u)
      BY DEF Plus, AddBias, Protect, Activate, Deploy
    <3> QED
      BY <3>2, <3>3, <3>4 DEF Never, Has
  <2>3. PowerOnBlock(u) =
            ((From(Sec(1), <<DisableLogging(HwOc), Protect(u)>>)
                 \o From(Sec(2) + 1, <<PowerOn(u)>>))
                 \o From(Sec(6) + 1, BiasBoth(u, 1))) \o last
    BY <1>7 DEF PowerOnBlock, PowerOnSagitta, Activate, Wheel
  <2> HIDE DEF last
  <2> QED
    BY <1>3, <2>1, <2>2, <2>3, BiasStart, OnceJoined
<1>8. CASE u = "STIM210"
  <2>1. Once(From(Sec(3) + 2, BiasBoth(u, 1)), Plus(u))
    BY <1>3, BiasOnce
  <2>2. /\ Never(From(Sec(11) + 4, <<SelectGyro("STIM210")>>), Plus(u))
        /\ Never(From(Sec(12) + 4, <<Activate(u), Protect(u)>>), Plus(u))
    <3>1. <<SelectGyro("STIM210")>> \in Seq(Others) /\ <<Activate(u), Protect(u)>> \in Seq(Others)
      BY <1>4, OtherCommands, Lists
    <3> QED
      BY <1>3, <3>1, NeverPart
  <2>3. PowerOnBlock(u) =
            (((From(1, <<Protect(u), DisableLogging(HwOc)>>)
                  \o From(Sec(1) + 2, <<PowerOn(u)>>))
                  \o From(Sec(3) + 2, BiasBoth(u, 1)))
                  \o From(Sec(11) + 4, <<SelectGyro("STIM210")>>))
                \o From(Sec(12) + 4, <<Activate(u), Protect(u)>>)
    BY <1>8 DEF PowerOnBlock, PowerOnStim210, Activate, Wheel
  <2> QED
    BY <1>3, <2>1, <2>2, <2>3, BiasStart, OnceJoined
<1> QED
  BY <1>5, <1>6, <1>7, <1>8 DEF Biasing

-----------------------------------------------------------------------------
(* The correction that clears it: a transition to B-dot switches off what    *)
(* has a bias before that.                                                   *)

Clears(P) == {e \in P : e[2] = ClearBias("EXTERNAL")}

\* A transition corrects the bias before it is finished, and in B-dot only.
ClearInv ==
    /\ Clears(Pending) # {} => in_progress /\ mode = "BDOT"
    /\ \A c \in Clears(Pending), f \in Finishes(Pending) : c[1] < f[1]

LEMMA ClearingTransition ==
    LET T == Elements(AnyToBdot)
        c == At(93, ClearBias("EXTERNAL"))
    IN  /\ Clears(T) = {c}
        /\ \A f \in Finishes(T) : c[1] < f[1]
        /\ \A u \in Biasing : \A e \in Owned(u, T) : e[2] = Off(u) /\ Before(e, c)
<1> DEFINE T == Elements(AnyToBdot)
           c == At(93, ClearBias("EXTERNAL"))
<1>1. PICK C : C = OBCT_CYCLES_PER_SEC
  OBVIOUS
<1>2. C \in Nat /\ C >= 10 /\ LongestDelay \in Nat /\ LongestDelay <= C + 3
  BY <1>1, Times
<1>3. /\ Sec(3) = 3 * C /\ Sec(5) = 5 * C
      /\ Sec(14) = 14 * C /\ Sec(18) = 18 * C /\ Sec(22) = 22 * C /\ Sec(26) = 26 * C
      /\ Sec(93) = 93 * C /\ Sec(95) = 95 * C
  BY <1>1, Times
<1>4. /\ \A u : /\ On(u) # FinishTransition /\ Off(u) # FinishTransition
                /\ Reset(u) # FinishTransition /\ On(u) # ClearBias("EXTERNAL")
                /\ Off(u) # ClearBias("EXTERNAL") /\ Reset(u) # ClearBias("EXTERNAL")
      /\ \A s, d : At(s, d)[1] = Sec(s) /\ At(s, d)[2] = d
      /\ ClearBias("EXTERNAL") # FinishTransition
  BY RootNames DEF On, Off, Reset, Deploy, FinishTransition, ClearBias
<1>5. \A e \in T : \/ e = c
                   \/ e = At(95, FinishTransition)
                   \/ \E u \in Unit : e[2] = Reset(u) /\ u \notin Biasing
                   \/ \E u \in Unit : e[2] = Off(u) /\ u \notin Biasing
                   \/ e = At(14, Off("OEM7600")) \/ e = At(18, Off("STIM210"))
                   \/ e = At(22, Off("SAGITTA")) \/ e = At(26, Off("NANOSSOC_D60"))
  BY <1>4, Tables DEF Unit, Biasing, Wheel
<1>6. c \in T
  BY Tables
<1>7. Clears(T) = {c}
  <2> HIDE DEF T
  <2> QED
    BY <1>4, <1>5, <1>6 DEF Clears
<1>8. ASSUME NEW f \in Finishes(T)
      PROVE  c[1] < f[1]
  <2>1. f = At(95, FinishTransition)
    BY <1>4, <1>5 DEF Finishes
  <2> QED
    BY <1>2, <1>3, <1>4, <2>1
<1>9. ASSUME NEW u \in Biasing, NEW e \in Owned(u, T)
      PROVE  e[2] = Off(u) /\ Before(e, c)
  <2>1. /\ e \in T /\ Owner(e[2]) = u /\ u # "none" /\ u \in Unit
        /\ \A v : Owner(Off(v)) = v /\ Owner(Reset(v)) = v
        /\ Owner(FinishTransition) = "none" /\ Owner(ClearBias("EXTERNAL")) = "none"
    BY RootNames, UnitsOfBlocks DEF Owned
  <2>2. \E s \in {14, 18, 22, 26} : e = At(s, Off(u))
    <3> HIDE DEF T
    <3> QED
      BY <1>4, <1>5, <2>1
  <2>3. Rest(Off(u)) = LongestDelay + OffSpan(u)
    BY RestOfCommands
  <2>4. OffSpan(u) \in Nat /\ OffSpan(u) <= 5 * C + 5
    BY <1>2, <1>3 DEF OffSpan, Biasing, Wheel
  <2>5. e[2] = Off(u) /\ e[1] \in Int /\ e[1] <= 26 * C
    BY <1>2, <1>3, <1>4, <2>2
  <2>6. e[1] + (LongestDelay + OffSpan(u)) < 93 * C
    BY <1>2, <2>4, <2>5
  <2> QED
    BY <1>3, <1>4, <2>3, <2>5, <2>6 DEF Before
<1> QED
  BY <1>7, <1>8, <1>9

\* The other transitions only switch such units on, those that the mode before has not.
LEMMA OtherTransitions ==
    ASSUME NEW m \in Mode, NEW n \in Successors[m],
           ~(n = "BDOT" /\ SwitchingTransition(m, n) = AnyToBdot)
    PROVE  LET T == Elements(SwitchingTransition(m, n))
           IN  /\ Clears(T) = {}
               /\ \A u \in Biasing : \A e \in Owned(u, T) :
                      e[2] = On(u) /\ u \notin UnitsOf[m] \cup SpareOf(m)
<1> DEFINE T == Elements(SwitchingTransition(m, n))
<1>1. /\ \A u : /\ On(u) # ClearBias("EXTERNAL")
                /\ Off(u) # ClearBias("EXTERNAL") /\ Reset(u) # ClearBias("EXTERNAL")
      /\ \A s, d : At(s, d)[1] = Sec(s) /\ At(s, d)[2] = d
      /\ ClearBias("EXTERNAL") # FinishTransition /\ ClearBias("EXTERNAL") # Limit
  BY RootNames DEF On, Off, Reset, Deploy, ClearBias
<1>2. \A e \in T : \/ e[2] = FinishTransition \/ e[2] = Limit
                   \/ \E u \in Unit : e[2] \in {On(u), Off(u), Reset(u)} /\ u \notin Biasing
                   \/ /\ e[2] = On("NANOSSOC_D60")
                      /\ "NANOSSOC_D60" \notin UnitsOf[m] \cup SpareOf(m)
                   \/ /\ e[2] \in {On("STIM210"), On("SAGITTA")}
                      /\ {"STIM210", "SAGITTA"} \cap (UnitsOf[m] \cup SpareOf(m)) = {}
  <2>1. /\ {"INA260", "MTQ", "MPU9250", "RM3100", "RWX", "RWY", "RWZ"} \subseteq Unit
        /\ {"INA260", "MTQ", "MPU9250", "RM3100", "RWX", "RWY", "RWZ"} \cap Biasing = {}
    BY DEF Unit, Wheel, Biasing
  <2>2. CASE SwitchingTransition(m, n) \in {Nop, RoughSunPointingToRoughThreeAxis}
    BY <1>1, <2>2, Tables
  <2>3. CASE SwitchingTransition(m, n) \in {StartUpToInitial, BdotToInitial, InitialToBdot}
    BY <1>1, <2>1, <2>3, Tables
  <2>4. CASE SwitchingTransition(m, n) = RoughThreeAxisToRoughThreeAxisRw
    BY <1>1, <2>1, <2>4, Tables
  <2>5. CASE SwitchingTransition(m, n) = BdotToRoughSunPointing /\ m = "BDOT"
    <3>1. "NANOSSOC_D60" \notin UnitsOf[m] \cup SpareOf(m)
      BY <2>5, ModeUnits DEF Magnetic
    <3> QED
      BY <1>1, <2>5, <3>1, Tables
  <2>6. CASE SwitchingTransition(m, n) = RoughThreeAxisRwToFineThreeAxis /\ m = "ROUGH_THREE_AXIS_RW"
    <3>1. {"STIM210", "SAGITTA"} \cap (UnitsOf[m] \cup SpareOf(m)) = {}
      BY <2>6, ModeUnits DEF Magnetic, Wheel
    <3> QED
      BY <1>1, <2>6, <3>1, Tables
  <2> QED
    BY <2>2, <2>3, <2>4, <2>5, <2>6, TransitionCases
<1> HIDE DEF T
<1>3. Clears(T) = {}
  BY <1>1, <1>2 DEF Clears
<1>4. ASSUME NEW u \in Biasing, NEW e \in Owned(u, T)
      PROVE  e[2] = On(u) /\ u \notin UnitsOf[m] \cup SpareOf(m)
  <2>1. /\ e \in T /\ Owner(e[2]) = u /\ u # "none"
        /\ \A v : Owner(On(v)) = v /\ Owner(Off(v)) = v /\ Owner(Reset(v)) = v
        /\ Owner(FinishTransition) = "none" /\ Owner(Limit) = "none"
    BY RootNames, UnitsOfBlocks DEF Owned
  <2>2. PICK v : e[2] \in {On(v), Off(v), Reset(v)} \/ e[2] \in {FinishTransition, Limit}
    BY <1>2, <2>1
  <2> QED
    BY <1>2, <2>1
<1> QED
  BY <1>3, <1>4 DEF T

\* What a transition holds besides makes no difference to this.
LEMMA SameOfTransition ==
    ASSUME NEW m \in Mode, NEW n \in Successors[m]
    PROVE  LET S == Elements(SwitchingTransition(m, n))
               T == Elements(Transition(m, n))
           IN  /\ Clears(T) = Clears(S) /\ Finishes(T) = Finishes(S)
               /\ \A u \in Unit : Owned(u, T) = Owned(u, S)
<1> DEFINE S == Elements(SwitchingTransition(m, n))
           T == Elements(Transition(m, n))
<1>1. n \in Mode
  BY TransitionCases
<1>2. S \subseteq T /\ \A e \in T : e \in S \/ Idle(e[2])
  BY <1>1, TransitionElements
<1> HIDE DEF S, T
<1>3. ClearBias("EXTERNAL")[1] = "CLEAR_BIAS"
  BY DEF ClearBias
<1>4. Clears(T) = Clears(S) /\ Finishes(T) = Finishes(S)
  BY <1>2, <1>3, OwnerAndKind DEF Clears, Finishes
<1>5. ASSUME NEW u \in Unit
      PROVE  Owned(u, T) = Owned(u, S)
  BY <1>2, OwnerAndKind, RootNames DEF Owned
<1> QED
  BY <1>4, <1>5 DEF S, T

-----------------------------------------------------------------------------
(* The bias v that is added for a unit.  When no correction is on its way it *)
(* is the bias of the unit as it is, or the command that adds it is waiting  *)
(* and comes after the unit is on.  Otherwise nothing of the unit is left    *)
(* when the correction comes.                                                *)

BiasKept(u, S, p, v) ==
    /\ \A e \in S : Kind(e[2]) \in {"up", "ON"}
    /\ v = IF u \in p /\ ~Has(S, Plus(u)) THEN 1 ELSE 0
    /\ Has(S, On(u)) => u \notin p /\ ~Has(S, PowerOn(u)) /\ ~Has(S, Plus(u))
    /\ Has(S, PowerOn(u)) => Has(S, Plus(u)) \/ u \in p

BiasToClear(u, S, C) == \A e \in S : e[2] # On(u) /\ \A c \in C : Before(e, c)

LEMMA PlusIsUp ==
    ASSUME NEW u \in Biasing
    PROVE  /\ Owner(Plus(u)) = u /\ Kind(Plus(u)) = "up"
           /\ Plus(u) # PowerOn(u) /\ Plus(u) # On(u) /\ Plus(u)[1] = "ADD_BIAS"
<1>1. Owner(Plus(u)) = u /\ Kind(Plus(u)) = "up"
  BY DEF Owner, Kind, Plus, AddBias
<1> QED
  BY <1>1 DEF Plus, AddBias, PowerOn, On, Deploy

LEMMA BiasOfOnBlock ==
    ASSUME NEW u \in Biasing
    PROVE  Once(Block(<<"ON", u>>), Plus(u))
<1>1. <<"ON", u>> \in BlockId
  BY DEF BlockId, Biasing, Unit
<1>2. Once(SwitchingBlock(<<"ON", u>>), Plus(u))
  BY BiasOfOn DEF SwitchingBlock
<1>3. ~Idle(Plus(u))
  BY PlusIsUp, OwnerAndKind
<1>4. Never(OwnCommands(<<"ON", u>>), Plus(u))
  BY <1>1, <1>3, BlockElements DEF Never, Has
<1> QED
  BY <1>2, <1>4, OnceJoined DEF Block

\* Only switching a unit on adds its bias.
LEMMA NewBias ==
    ASSUME NEW u \in Biasing, NEW c \in Command, NEW k \in New(c)
    PROVE  /\ k[2] = Plus(u) => c = On(u)
           /\ k[2] = On(u) => c = Reset(u)
           /\ k[2] \in {On(u), Plus(u)} => Owner(c) = u
<1>1. u \in Unit
  BY UnitsOfBlocks
<1> SUFFICES ASSUME k[2] \in {On(u), Plus(u)}
             PROVE  /\ k[2] = Plus(u) => c = On(u)
                    /\ k[2] = On(u) => c = Reset(u)
                    /\ Owner(c) = u
  OBVIOUS
<1>2. k \in Children(u, c)
  BY PlusIsUp, RootNames DEF Children, New
<1>3. Owner(c) = u
  BY <1>1, <1>2, OthersChildren
<1>4. k[2] = On(u) => c = Reset(u)
  BY <1>1, <1>2, <1>3, NewCommands
<1>5. ASSUME k[2] = Plus(u)
      PROVE  c = On(u)
  <2>1. /\ \A v : On(v)[1] = "DEPLOY" /\ Off(v)[1] = "DEPLOY" /\ Plus(v)[1] = "ADD_BIAS"
        /\ Kind(Plus(u)) = "up"
    BY PlusIsUp DEF On, Off, Deploy, Plus, AddBias
  <2>2. c # Off(u)
    <3> SUFFICES ASSUME c = Off(u) PROVE FALSE
      OBVIOUS
    <3>1. k \in OffEntries(u) /\ Owner(k[2]) = u
      BY <1>1, <1>2, ChildrenOfOff
    <3>2. Kind(k[2]) = "down"
      BY <1>1, <3>1, RootNames DEF OffEntries, Neutral
    <3> QED
      BY <1>5, <2>1, <3>2
  <2>3. c # Reset(u)
    BY <1>1, <1>2, <1>5, <2>1, ChildrenOfReset DEF ResetEntries
  <2>4. c # Activate(u)
    <3> SUFFICES ASSUME c = Activate(u) PROVE FALSE
      OBVIOUS
    <3>1. k[2][1] \in {"ACTIVATE_RULE", "ENABLE_LOGGING"}
      BY <1>2, ChildrenOfActivate DEF UpLeaves, Raises
    <3> QED
      BY <1>5, <2>1, <3>1
  <2>5. c # Inactivate(u)
    <3> SUFFICES ASSUME c = Inactivate(u) PROVE FALSE
      OBVIOUS
    <3>1. k[2][1] \in {"INACTIVATE_RULE", "DISABLE_LOGGING"}
      BY <1>2, ChildrenOfInactivate DEF DownLeaves, Lowers
    <3> QED
      BY <1>5, <2>1, <3>1
  <2>6. c \notin Leaf(u)
    BY <1>1, <1>2, ChildrenOfLeaf
  <2> QED
    BY <1>1, <1>3, <2>2, <2>3, <2>4, <2>5, <2>6, OwnedCommands
<1> QED
  BY <1>3, <1>4, <1>5

\* A unit with a bias is not reset, but by the event handler.
LEMMA NeverReset ==
    ASSUME NEW u \in Biasing, NEW S, Ordered(u, S), NEW e \in S
    PROVE  e[2] # Reset(u)
<1>1. u \notin Magnetic
  BY DEF Biasing, Magnetic
<1> QED
  BY <1>1, RootNames DEF Ordered, InOrder

LEMMA BiasKeptRuns ==
    ASSUME NEW u \in Biasing, NEW S, Belongs(u, S), NEW e, NEW S2, Runs(u, S, e, S2),
           Ordered(u, S), NEW p, NEW p2, PoweredBy(u, e[2], p, p2), UpWhenOn(u, S, p),
           NEW v, NEW v2, v2 = IF e[2] = Plus(u) THEN 1 ELSE v,
           e[2] \in {On(u), Plus(u)} => ~Has(S2, e[2]), BiasKept(u, S, p, v)
    PROVE  BiasKept(u, S2, p2, v2)
<1>1. u \in Unit
  BY UnitsOfBlocks
<1>2. /\ e \in S /\ e \in Entry /\ Owner(e[2]) = u /\ e[2] \in Command
      /\ Kind(e[2]) \in {"up", "ON"} /\ e[2] # Reset(u)
  BY EntryType, NeverReset DEF Runs, Belongs, BiasKept
<1>3. /\ Kind(PowerOff(u)) = "down" /\ Kind(On(u)) = "ON" /\ Kind(PowerOn(u)) = "up"
      /\ PowerOn(u) # On(u)
  BY RootNames, OwnerAndKind
<1>4. e[2] # PowerOff(u)
  BY <1>2, <1>3
<1>5. \A k \in Children(u, e[2]) : /\ Kind(k[2]) = "up" /\ k[2] # On(u)
                                   /\ k[2] = PowerOn(u) => e[2] = On(u)
                                   /\ k[2] = Plus(u) => e[2] = On(u)
  <2> SUFFICES ASSUME NEW k \in Children(u, e[2])
               PROVE  /\ Kind(k[2]) = "up" /\ k[2] # On(u)
                      /\ k[2] = PowerOn(u) => e[2] = On(u)
                      /\ k[2] = Plus(u) => e[2] = On(u)
    OBVIOUS
  <2>1. Kind(k[2]) = "up"
    BY <1>1, <1>2, ChildEnds
  <2>2. k[2] = PowerOn(u) => e[2] = On(u)
    BY <1>1, <1>2, NewCommands
  <2>3. k \in New(e[2])
    BY DEF Children, New
  <2>4. k[2] = Plus(u) => e[2] = On(u)
    BY <1>2, <2>3, NewBias
  <2> QED
    BY <1>3, <2>1, <2>2, <2>4
<1>6. \A f \in S2 : Kind(f[2]) \in {"up", "ON"}
  BY <1>5 DEF Runs, BiasKept
<1>7. \A c : c # e[2] /\ ~Has(Children(u, e[2]), c) => (Has(S2, c) <=> Has(S, c))
  BY DEF Runs, Has
<1>8. Has(S2, On(u)) => Has(S, On(u)) /\ e[2] # On(u)
  BY <1>5 DEF Runs, Has
<1>9. Has(S, e[2])
  BY <1>2 DEF Has
<1>10. CASE e[2] = On(u)
  <2>1. u \notin p /\ ~Has(S, Plus(u)) /\ v = 0
    BY <1>9, <1>10 DEF BiasKept
  <2>2. Has(S2, Plus(u))
    <3>1. Has(Elements(PowerOnBlock(u)), Plus(u))
      BY BiasOfOn DEF Once
    <3>2. Children(u, On(u)) = {k \in Elements(PowerOnBlock(u)) : Owner(k[2]) = u}
      <4>1. u \in Unit /\ <<"ON", u>> \in BlockId
        BY DEF BlockId, Biasing, Unit
      <4>2. SwitchingBlock(<<"ON", u>>) = PowerOnBlock(u)
        BY DEF SwitchingBlock
      <4> QED
        BY <4>1, <4>2, OwnedOfBlock DEF Children, On, Deploy
    <3> QED
      BY <1>10, <3>1, <3>2, PlusIsUp DEF Has, Runs
  <2>3. u \notin p2 /\ v2 = 0
    BY <1>3, <1>10, <2>1, PlusIsUp DEF PoweredBy
  <2> QED
    BY <1>6, <1>8, <1>10, <2>2, <2>3 DEF BiasKept
<1>11. CASE e[2] = PowerOn(u)
  <2>1. u \in p2 /\ v2 = v
    BY <1>11, PlusIsUp DEF PoweredBy
  <2>2. Has(S, Plus(u)) \/ u \in p
    BY <1>9, <1>11 DEF BiasKept
  <2>3. ~Has(S, On(u))
    BY <1>9, <1>11 DEF BiasKept
  <2>4. Has(S2, Plus(u)) <=> Has(S, Plus(u))
    <3>1. Plus(u) # e[2] /\ ~Has(Children(u, e[2]), Plus(u))
      BY <1>3, <1>5, <1>11, PlusIsUp DEF Has
    <3> QED
      BY <1>7, <3>1
  <2>5. v2 = IF u \in p2 /\ ~Has(S2, Plus(u)) THEN 1 ELSE 0
    BY <2>1, <2>2, <2>4 DEF BiasKept
  <2> QED
    BY <1>6, <1>8, <2>1, <2>3, <2>5 DEF BiasKept
<1>12. CASE e[2] = Plus(u)
  <2>1. u \in p
    BY <1>1, <1>12, OnWhenNext, PlusIsUp
  <2>2. u \in p2 /\ v2 = 1 /\ ~Has(S2, Plus(u))
    BY <1>4, <1>12, <2>1 DEF PoweredBy
  <2>3. ~Has(S2, On(u))
    BY <1>8, <2>1 DEF BiasKept
  <2> QED
    BY <1>6, <2>2, <2>3 DEF BiasKept
<1>13. CASE e[2] \notin {On(u), PowerOn(u), Plus(u)}
  <2>1. v2 = v /\ (u \in p2 <=> u \in p)
    BY <1>4, <1>13 DEF PoweredBy
  <2>2. \A c \in {On(u), PowerOn(u), Plus(u)} : Has(S2, c) <=> Has(S, c)
    <3>1. \A c \in {On(u), PowerOn(u), Plus(u)} : c # e[2] /\ ~Has(Children(u, e[2]), c)
      BY <1>5, <1>13 DEF Has
    <3> QED
      BY <1>7, <3>1
  <2>3. v2 = IF u \in p2 /\ ~Has(S2, Plus(u)) THEN 1 ELSE 0
    BY <2>1, <2>2 DEF BiasKept
  <2>4. Has(S2, On(u)) => u \notin p2 /\ ~Has(S2, PowerOn(u)) /\ ~Has(S2, Plus(u))
    BY <2>1, <2>2 DEF BiasKept
  <2>5. Has(S2, PowerOn(u)) => Has(S2, Plus(u)) \/ u \in p2
    BY <2>1, <2>2 DEF BiasKept
  <2> QED
    BY <1>6, <2>3, <2>4, <2>5 DEF BiasKept
<1> QED
  BY <1>10, <1>11, <1>12, <1>13

LEMMA BiasToClearRuns ==
    ASSUME NEW u \in Biasing, NEW S, Belongs(u, S), NEW e, NEW S2, Runs(u, S, e, S2),
           Ordered(u, S), NEW C, \A c \in C : c \in Entry, BiasToClear(u, S, C)
    PROVE  BiasToClear(u, S2, C)
<1>1. u \in Unit
  BY UnitsOfBlocks
<1>2. e \in S /\ e[2] \in Command /\ e[2] # Reset(u)
  BY EntryType, NeverReset DEF Runs, Belongs
<1> SUFFICES ASSUME NEW k \in Children(u, e[2])
             PROVE  k[2] # On(u) /\ \A c \in C : Before(k, c)
  BY DEF BiasToClear, Runs
<1>3. k[2] # On(u)
  <2>1. k \in New(e[2])
    BY DEF Children, New
  <2> QED
    BY <1>2, <2>1, NewBias
<1>4. ASSUME NEW c \in C
      PROVE  Before(k, c)
  <2>1. e[1] + Rest(e[2]) < c[1] /\ c[1] \in Int
    BY <1>2, EntryType DEF BiasToClear, Before
  <2> QED
    BY <1>1, <2>1, RunsEnds DEF Before
<1> QED
  BY <1>3, <1>4

LEMMA BiasSame ==
    ASSUME NEW u, NEW S, NEW p, NEW p2, u \in p2 <=> u \in p, NEW v, BiasKept(u, S, p, v)
    PROVE  BiasKept(u, S, p2, v)
BY DEF BiasKept

LEMMA BiasSooner ==
    ASSUME NEW u \in Unit, NEW S, Belongs(u, S), NEW C, \A c \in C : c[1] \in Int
    PROVE  /\ \A p, v : BiasKept(u, S, p, v) => BiasKept(u, Sooner(S), p, v)
           /\ BiasToClear(u, S, C) => BiasToClear(u, Sooner(S), Sooner(C))
<1>1. \A e \in S : e[1] \in Int /\ Rest(e[2]) \in Nat
  BY EntryType, RestType DEF Belongs
<1>2. /\ \A e \in S : \E f \in Sooner(S) : f[1] = e[1] - 1 /\ f[2] = e[2]
      /\ \A f \in Sooner(S) : \E e \in S : f[1] = e[1] - 1 /\ f[2] = e[2] /\ f[1] \in Int
  BY <1>1, SoonerEntries
<1>3. \A c \in Sooner(C) : \E d \in C : c[1] = d[1] - 1 /\ c[2] = d[2] /\ c[1] \in Int
  BY SoonerEntries
<1>4. \A c : Has(Sooner(S), c) <=> Has(S, c)
  BY <1>2 DEF Has
<1>5. \A p, v : BiasKept(u, S, p, v) => BiasKept(u, Sooner(S), p, v)
  BY <1>2, <1>4 DEF BiasKept
<1>6. ASSUME BiasToClear(u, S, C)
      PROVE  BiasToClear(u, Sooner(S), Sooner(C))
  <2> SUFFICES ASSUME NEW f \in Sooner(S)
               PROVE  f[2] # On(u) /\ \A c \in Sooner(C) : Before(f, c)
    BY DEF BiasToClear
  <2>1. PICK e \in S : f[1] = e[1] - 1 /\ f[2] = e[2]
    BY <1>2
  <2>2. f[2] # On(u)
    BY <1>6, <2>1 DEF BiasToClear
  <2>3. ASSUME NEW c \in Sooner(C)
        PROVE  Before(f, c)
    <3>1. PICK d \in C : c[1] = d[1] - 1
      BY <1>3
    <3>2. e[1] + Rest(e[2]) < d[1] /\ d[1] \in Int
      BY <1>6 DEF BiasToClear, Before
    <3> QED
      BY <1>1, <2>1, <3>1, <3>2 DEF Before
  <2> QED
    BY <2>2, <2>3
<1> QED
  BY <1>5, <1>6

\* Until the event handler interferes, each bias is on its way to what it should be, and the
\* entries that decide it are on the timeline once.
BiasInv ==
    blamed = {} =>
        \A u \in Biasing :
            /\ Single(timeline, On(u)) /\ Single(timeline, Plus(u))
            /\ IF Clears(Pending) = {}
                 THEN BiasKept(u, Owned(u, Pending), powered, bias["EXTERNAL"][u])
                 ELSE BiasToClear(u, Owned(u, Pending), Clears(Pending))

LEMMA ClearsFacts ==
    ASSUME IInv
    PROVE  \A c \in Clears(Pending) : c \in Entry /\ c[1] \in Int
BY OwnedBelongs, EntryType DEF IInv, Proper, Clears

LEMMA ClearExecuted ==
    ASSUME IInv, FinishInv, FinishInv', ClearInv, NEW e, Executes(e), mode' = mode
    PROVE  ClearInv'
<1>1. e[2] \in Command /\ e \in Pending /\ e[1] \in Int /\ \A f \in Pending : e[1] <= f[1]
  BY EntryType DEF Executes
<1>2. /\ \A c \in Clears(Pending') : c \in Clears(Pending)
      /\ \A f \in Finishes(Pending') : f \in Finishes(Pending)
  BY <1>1, NewOfCommand DEF Executes, Clears, Finishes, Has
<1>3. CASE e[2] = FinishTransition
  <2>1. ASSUME NEW c \in Clears(Pending)
        PROVE  FALSE
    <3>1. c[1] < e[1]
      BY <1>1, <1>3, <2>1 DEF ClearInv, Finishes
    <3>2. e[1] <= c[1] /\ c[1] \in Int
      BY <1>1, <2>1, ClearsFacts DEF Clears
    <3> QED
      BY <1>1, <3>1, <3>2
  <2> QED
    BY <1>2, <2>1 DEF ClearInv, Clears, Finishes
<1>4. CASE e[2] # FinishTransition
  <2>1. in_progress' = in_progress
    BY <1>1, <1>4, ExecutedProgress DEF Executes
  <2>2. Clears(Pending') # {} => in_progress' /\ mode' = "BDOT"
    BY <1>2, <2>1 DEF ClearInv
  <2>3. \A c \in Clears(Pending'), f \in Finishes(Pending') : c[1] < f[1]
    BY <1>2 DEF ClearInv
  <2> QED
    BY <2>2, <2>3 DEF ClearInv, Clears, Finishes
<1> QED
  BY <1>3, <1>4

LEMMA ClearTransition ==
    ASSUME IInv, FinishInv, ClearInv, NEW n \in Mode, StartTransition(n)
    PROVE  /\ ClearInv'
           /\ Clears(Pending) = {}
           /\ Clears(Pending)' = Clears(Elements(Transition(mode, n)))
           /\ \A u : Owned(u, Pending)' =
                         Owned(u, Pending) \cup Owned(u, Elements(Transition(mode, n)))
<1> DEFINE T == Elements(Transition(mode, n))
<1>1. mode \in Mode /\ n \in Successors[mode]
  BY PowerAssumption DEF StartTransition, IInv, TypeOK
<1>2. /\ timeline' = timeline \o Transition(mode, n) /\ mode' = n
      /\ ~in_progress /\ in_progress'
  BY DEF StartTransition
<1>3. Transition(mode, n) \in Seq(Entry)
  BY <1>1, TransitionFacts
<1>4. /\ Pending' = Pending \cup T
      /\ \A u : Owned(u, Pending)' = Owned(u, Pending) \cup Owned(u, T)
  BY <1>2, <1>3, Deploys
<1>5. Clears(Pending) = {} /\ Finishes(Pending) = {}
  BY <1>2 DEF ClearInv, FinishInv, Finishes, Has
<1> HIDE DEF T
<1>6. Clears(Pending') = Clears(T) /\ Finishes(Pending') = Finishes(T)
  BY <1>4, <1>5 DEF Clears, Finishes
<1>7. CASE n = "BDOT" /\ SwitchingTransition(mode, n) = AnyToBdot
  <2>1. \A c \in Clears(T), f \in Finishes(T) : c[1] < f[1]
    BY <1>1, <1>7, ClearingTransition, SameOfTransition DEF T
  <2> QED
    BY <1>2, <1>4, <1>5, <1>6, <1>7, <2>1 DEF ClearInv, Clears, Finishes, T
<1>8. CASE ~(n = "BDOT" /\ SwitchingTransition(mode, n) = AnyToBdot)
  <2>1. Clears(T) = {}
    BY <1>1, <1>8, OtherTransitions, SameOfTransition DEF T
  <2> QED
    BY <1>2, <1>4, <1>5, <1>6, <2>1 DEF ClearInv, Clears, Finishes, T
<1> QED
  BY <1>7, <1>8

LEMMA ClearStep ==
    ASSUME IInv, Timely, FinishInv, ClearInv, [Next]_vars
    PROVE  ClearInv'
<1>1. FinishInv'
  BY FinishStep
<1>2. CASE UNCHANGED <<timeline, mode, in_progress>>
  BY <1>2 DEF ClearInv, Clears, Finishes, Pending, Elements
<1>3. CASE TLC_DISPATCHER_BC
  <2>1. mode' = mode
    BY <1>3 DEF TLC_DISPATCHER_BC
  <2>2. CASE Idles
    BY <1>2, <2>1, <2>2 DEF Idles
  <2> QED
    BY <1>1, <1>3, <2>1, <2>2, Dispatches, ClearExecuted
<1>4. CASE EVENT_UTILITY
  <2>1. PICK v \in Monitored, matched \in BOOLEAN, broken \in BOOLEAN : Handles(v, matched, broken)
    BY <1>4, EventHandled
  <2> DEFINE s == Response(v, matched, broken)
  <2>2. mode' = mode /\ in_progress' = in_progress
    BY <1>4, EventHandled
  <2>3. v \in Unit
    BY SensorType
  <2>4. s \in Seq(Entry)
    BY <2>3, Responds
  <2>5. timeline' = timeline \o s
    BY <2>1 DEF Handles
  <2>6. \A k \in Elements(s) : k[2] # FinishTransition /\ k[2] # ClearBias("EXTERNAL")
    <3>1. s \in {Block(<<"OFF", v>>), Block(<<"RESET", v>>), << >>}
      BY DEF Response
    <3>2. <<"OFF", v>> \in BlockId /\ <<"RESET", v>> \in BlockId
      BY <2>3 DEF BlockId
    <3>3. Elements(<< >>) = {} /\ ClearBias("EXTERNAL")[1] = "CLEAR_BIAS"
      BY DEF Elements, ClearBias
    <3> HIDE DEF s
    <3> QED
      BY <3>1, <3>2, <3>3, BlockOwners
  <2> HIDE DEF s
  <2>7. Pending' = Pending \cup Elements(s)
    BY <2>4, <2>5, Deploys
  <2>8. Clears(Pending') = Clears(Pending) /\ Finishes(Pending') = Finishes(Pending)
    BY <2>6, <2>7 DEF Clears, Finishes
  <2> QED
    BY <2>2, <2>8 DEF ClearInv, Clears, Finishes
<1>5. CASE BASIC_SENSOR_UPDATE
  <2>1. Tick /\ mode' = mode /\ in_progress' = in_progress
    BY <1>5 DEF BASIC_SENSOR_UPDATE, modes
  <2>2. Pending' = Sooner(Pending)
    BY <2>1, Ticks
  <2>3. \A e \in Pending : e[1] \in Int
    BY OwnedBelongs, EntryType DEF IInv, Proper
  <2>4. /\ \A c \in Clears(Pending') : \E d \in Clears(Pending) : c[1] = d[1] - 1 /\ d[1] \in Int
        /\ \A c \in Finishes(Pending') : \E d \in Finishes(Pending) : c[1] = d[1] - 1 /\ d[1] \in Int
    BY <2>2, <2>3, SoonerEntries DEF Clears, Finishes
  <2>5. \A c \in Clears(Pending'), f \in Finishes(Pending') : c[1] < f[1]
    <3> SUFFICES ASSUME NEW c \in Clears(Pending'), NEW f \in Finishes(Pending')
                 PROVE  c[1] < f[1]
      OBVIOUS
    <3>1. PICK d \in Clears(Pending) : c[1] = d[1] - 1 /\ d[1] \in Int
      BY <2>4
    <3>2. PICK g \in Finishes(Pending) : f[1] = g[1] - 1 /\ g[1] \in Int
      BY <2>4
    <3>3. d[1] < g[1]
      BY DEF ClearInv
    <3> QED
      BY <3>1, <3>2, <3>3
  <2>6. Clears(Pending') # {} => Clears(Pending) # {}
    BY <2>4
  <2>7. Clears(Pending') # {} => in_progress' /\ mode' = "BDOT"
    BY <2>1, <2>6 DEF ClearInv
  <2> QED
    BY <2>5, <2>7 DEF ClearInv, Clears, Finishes
<1>6. CASE \E n \in Mode : StartTransition(n)
  BY <1>6, ClearTransition
<1>7. CASE \E kind \in {"short", "overload"}, v \in Monitored : Fault(kind, v)
  BY <1>2, <1>7 DEF Fault, modes
<1>8. CASE UNCHANGED vars
  BY <1>2, <1>8 DEF vars, modes
<1> QED
  BY <1>3, <1>4, <1>5, <1>6, <1>7, <1>8 DEF Next

-----------------------------------------------------------------------------
(* The dispatcher keeps the biases. *)

LEMMA ExecutedBias ==
    ASSUME IInv, NEW c \in Command, Execute(c)
    PROVE  LET b == bias["EXTERNAL"]
               b2 == bias'["EXTERNAL"]
           IN  /\ c = ClearBias("EXTERNAL") => \A u \in Biasing : b2[u] = 0
               /\ \A w \in Biasing :
                      c = Plus(w) /\ b[w] = 0 =>
                          \A u \in Biasing : b2[u] = IF u = w THEN 1 ELSE b[u]
               /\ c # ClearBias("EXTERNAL") /\ c[1] # "ADD_BIAS" => b2 = b
               /\ c[1] = "ADD_BIAS" /\ c[2] # "EXTERNAL" => b2 = b
<1> DEFINE b == bias["EXTERNAL"]
           b2 == bias'["EXTERNAL"]
<1>1. /\ bias \in [Mag -> [Biasing -> (-BiasSpan)..BiasSpan]]
      /\ "EXTERNAL" \in Mag /\ BiasSpan \in Nat \ {0}
  BY PowerAssumption DEF IInv, TypeOK, Mag
<1>2. ASSUME c = ClearBias("EXTERNAL")
      PROVE  \A u \in Biasing : b2[u] = 0
  <2>1. c[1] = "CLEAR_BIAS" /\ c[2] = "EXTERNAL"
    BY <1>2 DEF ClearBias
  <2>2. Cmd_DI_RM3100_SET_MAG_BIAS_COMPO_NT(c)
    BY <1>2, <2>1 DEF Execute, Cmd_APP_PSC_CONTROL_PORT, Cmd_DI_INA260_INIT,
       Cmd_DI_INA260_SET_OVER_CURRENT_PROTECTION, Cmd_EL_LOGGING, Cmd_EH_ACTIVATE_RULE,
       Cmd_APP_GYRO_SELECTOR_SET_STATE, FinishTransition, OwnCommand, ClearBias
  <2>3. bias' = [bias EXCEPT !["EXTERNAL"] = [u \in Biasing |-> 0]]
    BY <2>1, <2>2 DEF Cmd_DI_RM3100_SET_MAG_BIAS_COMPO_NT
  <2>4. b2 = [u \in Biasing |-> 0]
    BY <1>1, <2>3
  <2> QED
    BY <2>4
<1>3. ASSUME c[1] = "ADD_BIAS"
      PROVE  LET sum == bias[c[2]][c[3]] + c[4]
             IN bias' = IF sum \in (-BiasSpan)..BiasSpan
                          THEN [bias EXCEPT ![c[2]][c[3]] = sum]
                          ELSE [bias EXCEPT ![c[2]] = [u \in Biasing |-> 0]]
  <2>1. c # FinishTransition /\ c # OwnCommand
    BY <1>3 DEF FinishTransition, OwnCommand
  <2>2. Cmd_DI_RM3100_SET_MAG_BIAS_COMPO_NT(c)
    BY <1>3, <2>1 DEF Execute, Cmd_APP_PSC_CONTROL_PORT, Cmd_DI_INA260_INIT,
       Cmd_DI_INA260_SET_OVER_CURRENT_PROTECTION, Cmd_EL_LOGGING, Cmd_EH_ACTIVATE_RULE,
       Cmd_APP_GYRO_SELECTOR_SET_STATE
  <2> QED
    BY <1>3, <2>2 DEF Cmd_DI_RM3100_SET_MAG_BIAS_COMPO_NT
<1>4. ASSUME NEW w \in Biasing, c = Plus(w), b[w] = 0
      PROVE  \A u \in Biasing : b2[u] = IF u = w THEN 1 ELSE b[u]
  <2>1. c[1] = "ADD_BIAS" /\ c[2] = "EXTERNAL" /\ c[3] = w /\ c[4] = 1
    BY <1>4 DEF Plus, AddBias
  <2>2. bias[c[2]][c[3]] + c[4] = 1 /\ 1 \in (-BiasSpan)..BiasSpan
    BY <1>1, <1>4, <2>1
  <2>3. bias' = [bias EXCEPT !["EXTERNAL"][w] = 1]
    BY <1>3, <2>1, <2>2
  <2>4. b2 = [b EXCEPT ![w] = 1]
    BY <1>1, <2>3
  <2>5. b \in [Biasing -> (-BiasSpan)..BiasSpan]
    BY <1>1
  <2> HIDE DEF b, b2
  <2> QED
    BY <2>4, <2>5
<1>5. ASSUME c # ClearBias("EXTERNAL"), c[1] # "ADD_BIAS"
      PROVE  b2 = b
  <2>1. CASE c[1] = "CLEAR_BIAS"
    <3>1. c \in {"CLEAR_BIAS"} \X Mag
      BY <2>1 DEF Command, FinishTransition, OwnCommand
    <3>2. c = <<"CLEAR_BIAS", c[2]>> /\ c[2] \in Mag
      BY <3>1
    <3>3. c[2] # "EXTERNAL"
      BY <1>5, <3>2 DEF ClearBias
    <3>4. bias' = [bias EXCEPT ![c[2]] = [u \in Biasing |-> 0]] \/ bias' = bias
      BY <1>5 DEF Execute, Cmd_DI_RM3100_SET_MAG_BIAS_COMPO_NT, attitude
    <3> QED
      BY <1>1, <3>2, <3>3, <3>4
  <2>2. CASE c[1] # "CLEAR_BIAS"
    BY <1>5, <2>2 DEF Execute, Cmd_DI_RM3100_SET_MAG_BIAS_COMPO_NT, attitude
  <2> QED
    BY <2>1, <2>2
<1>6. ASSUME c[1] = "ADD_BIAS", c[2] # "EXTERNAL"
      PROVE  b2 = b
  <2>1. \/ bias' = [bias EXCEPT ![c[2]] = [u \in Biasing |-> 0]]
        \/ \E sum : bias' = [bias EXCEPT ![c[2]][c[3]] = sum]
    BY <1>3, <1>6
  <2> QED
    BY <1>1, <1>6, <2>1
<1> QED
  BY <1>2, <1>4, <1>5, <1>6

\* The commands that add a bias, by the unit.
LEMMA BiasCommands ==
    ASSUME NEW c \in Command, c[1] = "ADD_BIAS", c[2] = "EXTERNAL"
    PROVE  \E w \in Biasing : /\ Owner(c) = w
                              /\ c = Plus(w) \/ Kind(c) = "down"
<1>1. c \in {"ADD_BIAS"} \X Mag \X Biasing \X {-1, 1}
  BY DEF Command, FinishTransition, OwnCommand
<1>2. c = <<c[1], c[2], c[3], c[4]>> /\ c[3] \in Biasing /\ c[4] \in {-1, 1}
  BY <1>1
<1>3. Owner(c) = c[3] /\ (c[4] # 1 => Kind(c) = "down")
  BY DEF Owner, Kind
<1> QED
  BY <1>2, <1>3 DEF Plus, AddBias

LEMMA BiasExecuted ==
    ASSUME IInv, SequenceInv, ClearInv, BiasInv, NEW e, Executes(e), blamed = {}, blamed' = {}
    PROVE  BiasInv'
<1>1. e[2] \in Command /\ e \in Pending /\ e \in Entry /\ e[1] \in Int
  BY EntryType DEF Executes
<1>2. /\ ~Has(New(e[2]), ClearBias("EXTERNAL"))
      /\ \A c \in Clears(Pending') : c \in Clears(Pending)
      /\ e[2] # ClearBias("EXTERNAL") => Clears(Pending') = Clears(Pending)
  <2>1. ~Has(New(e[2]), ClearBias("EXTERNAL"))
    BY <1>1, NewOfCommand
  <2>2. \A c \in Clears(Pending') : c \in Clears(Pending)
    BY <2>1 DEF Executes, Clears, Has
  <2>3. e[2] # ClearBias("EXTERNAL") => \A c \in Clears(Pending) : c \in Clears(Pending')
    BY DEF Executes, Clears
  <2> QED
    BY <2>1, <2>2, <2>3
<1>3. ASSUME NEW u \in Biasing
      PROVE  /\ u \in Unit /\ Undisturbed(u)
             /\ Single(timeline, On(u)) /\ Single(timeline, Plus(u))
             /\ Belongs(u, Owned(u, Pending)) /\ Ordered(u, Owned(u, Pending))
             /\ UpWhenOn(u, Owned(u, Pending), powered)
             /\ AsMode(u, Owned(u, Pending), mode, powered)
             /\ Clears(Pending) = {} =>
                    BiasKept(u, Owned(u, Pending), powered, bias["EXTERNAL"][u])
             /\ Clears(Pending) # {} => BiasToClear(u, Owned(u, Pending), Clears(Pending))
             /\ Owner(e[2]) = u => e \in Owned(u, Pending)
  <2>1. u \in Unit
    BY UnitsOfBlocks
  <2>2. Undisturbed(u)
    BY <2>1 DEF SequenceInv
  <2>3. Belongs(u, Owned(u, Pending))
    BY <2>1, OwnedBelongs DEF IInv, Proper
  <2>4. /\ Ordered(u, Owned(u, Pending))
        /\ UpWhenOn(u, Owned(u, Pending), powered)
        /\ AsMode(u, Owned(u, Pending), mode, powered)
    BY <2>2 DEF Undisturbed, Kept, UnwatchedOff
  <2>5. Owner(e[2]) = u => e \in Owned(u, Pending)
    BY <1>1 DEF Owned
  <2> QED
    BY <2>1, <2>2, <2>3, <2>4, <2>5 DEF BiasInv
<1>4. ASSUME NEW u \in Biasing
      PROVE  /\ Single(timeline', On(u)) /\ Single(timeline', Plus(u))
             /\ e[2] \in {On(u), Plus(u)} => ~Has(Pending', e[2])
  <2>1. e[2] # Reset(u)
    <3>1. Owner(Reset(u)) = u
      BY RootNames
    <3> QED
      BY <1>3, <3>1, NeverReset
  <2>2. ~Has(New(e[2]), On(u))
    BY <1>1, <2>1, NewBias DEF Has
  <2>3. Single(timeline', On(u)) /\ (e[2] = On(u) => ~Has(Pending', On(u)))
    BY <1>3, <2>2 DEF Executes
  <2>4. CASE e[2] # On(u)
    <3>1. ~Has(New(e[2]), Plus(u))
      BY <1>1, <2>4, NewBias DEF Has
    <3>2. Single(timeline', Plus(u)) /\ (e[2] = Plus(u) => ~Has(Pending', Plus(u)))
      BY <1>3, <3>1 DEF Executes
    <3> QED
      BY <2>3, <2>4, <3>2
  <2>5. CASE e[2] = On(u)
    <3>1. Owner(e[2]) = u
      BY <2>5, RootNames
    <3>2. Clears(Pending) = {}
      BY <1>3, <2>5, <3>1 DEF BiasToClear
    <3>3. ~Has(Owned(u, Pending), Plus(u))
      BY <1>3, <2>5, <3>1, <3>2 DEF BiasKept, Has
    <3>4. ~Has(Pending, Plus(u))
      BY <3>3, PlusIsUp DEF Has, Owned
    <3>5. e[2][1] = "DEPLOY" /\ Once(Block(e[2][2]), Plus(u))
      BY <2>5, BiasOfOnBlock DEF On, Deploy
    <3>6. Single(timeline', Plus(u))
      BY <3>4, <3>5 DEF Executes, Once
    <3> QED
      BY <2>3, <2>5, <3>6, PlusIsUp
  <2> QED
    BY <2>4, <2>5
<1>5. CASE e[2] = ClearBias("EXTERNAL")
  <2>1. Clears(Pending) # {} /\ e \in Clears(Pending) /\ mode = "BDOT"
    BY <1>1, <1>5 DEF Clears, ClearInv
  <2>2. ASSUME NEW u \in Biasing
        PROVE  Owned(u, Pending)' = {} /\ u \notin powered' /\ bias'["EXTERNAL"][u] = 0
    <3>1. Owned(u, Pending) = {}
      <4> SUFFICES ASSUME NEW f \in Owned(u, Pending) PROVE FALSE
        OBVIOUS
      <4>1. f[1] + Rest(f[2]) < e[1]
        BY <1>3, <2>1 DEF BiasToClear, Before
      <4>2. f[1] \in Int /\ Rest(f[2]) \in Nat /\ e[1] <= f[1]
        BY <1>3, EntryType, RestType DEF Belongs, Owned, Executes
      <4> QED
        BY <1>1, <4>1, <4>2
    <3>2. u \notin powered
      <4>1. u \notin UnitsOf["BDOT"] \cup SpareOf("BDOT")
        BY ModeUnits DEF Magnetic, Biasing
      <4> QED
        BY <1>3, <2>1, <3>1, <4>1 DEF AsMode, Has
    <3>3. Untouched(u)
      <4>1. Owner(e[2]) # u
        BY <1>3, <1>5, RootNames
      <4> QED
        BY <1>3, <4>1, ExecutesOther
    <3>4. bias'["EXTERNAL"][u] = 0
      BY <1>1, <1>5, ExecutedBias DEF Executes
    <3> QED
      BY <3>1, <3>2, <3>3, <3>4 DEF Untouched
  <2>3. \A u \in Biasing : /\ BiasKept(u, Owned(u, Pending)', powered', bias'["EXTERNAL"][u])
                           /\ BiasToClear(u, Owned(u, Pending)', Clears(Pending)')
    BY <2>2 DEF BiasKept, BiasToClear, Has
  <2> QED
    BY <1>4, <2>3 DEF BiasInv, Single, BiasKept, BiasToClear, Owned, Clears
<1>6. CASE e[2] # ClearBias("EXTERNAL") /\ Clears(Pending) = {}
  <2>1. ASSUME NEW u \in Biasing
        PROVE  bias'["EXTERNAL"][u] = IF e[2] = Plus(u) THEN 1 ELSE bias["EXTERNAL"][u]
    <3>1. CASE e[2][1] = "ADD_BIAS" /\ e[2][2] = "EXTERNAL"
      <4>1. PICK w \in Biasing : Owner(e[2]) = w /\ (e[2] = Plus(w) \/ Kind(e[2]) = "down")
        BY <1>1, <3>1, BiasCommands
      <4>2. e \in Owned(w, Pending)
        BY <1>3, <4>1
      <4>3. BiasKept(w, Owned(w, Pending), powered, bias["EXTERNAL"][w])
        BY <1>3, <1>6
      <4>4. e[2] = Plus(w)
        BY <4>1, <4>2, <4>3 DEF BiasKept
      <4>5. bias["EXTERNAL"][w] = 0
        BY <4>2, <4>3, <4>4 DEF BiasKept, Has
      <4>6. bias'["EXTERNAL"][u] = IF u = w THEN 1 ELSE bias["EXTERNAL"][u]
        BY <1>1, <4>4, <4>5, ExecutedBias DEF Executes
      <4>7. e[2] = Plus(u) <=> u = w
        BY <4>1, <4>4, PlusIsUp
      <4> QED
        BY <4>6, <4>7
    <3>2. CASE e[2][1] # "ADD_BIAS" \/ e[2][2] # "EXTERNAL"
      <4>1. e[2] # Plus(u)
        BY <3>2 DEF Plus, AddBias
      <4>2. bias'["EXTERNAL"] = bias["EXTERNAL"]
        BY <1>1, <1>6, <3>2, ExecutedBias DEF Executes
      <4> QED
        BY <4>1, <4>2
    <3> QED
      BY <3>1, <3>2
  <2>2. ASSUME NEW u \in Biasing
        PROVE  BiasKept(u, Owned(u, Pending)', powered', bias'["EXTERNAL"][u])
    <3>1. BiasKept(u, Owned(u, Pending), powered, bias["EXTERNAL"][u])
      BY <1>3, <1>6
    <3>2. CASE Owner(e[2]) = u
      <4> DEFINE S == Owned(u, Pending)
                 S2 == Owned(u, Pending)'
      <4>1. Runs(u, S, e, S2) /\ PoweredBy(u, e[2], powered, powered')
        BY <1>3, <3>2, ExecutesOwned
      <4>2. e[2] \in {On(u), Plus(u)} => ~Has(S2, e[2])
        BY <1>4 DEF Has, Owned
      <4>3. Belongs(u, S) /\ Ordered(u, S) /\ UpWhenOn(u, S, powered)
        BY <1>3
      <4>4. BiasKept(u, S, powered, bias["EXTERNAL"][u])
        BY <3>1
      <4> HIDE DEF S, S2
      <4>5. BiasKept(u, S2, powered', bias'["EXTERNAL"][u])
        BY <2>1, <4>1, <4>2, <4>3, <4>4, BiasKeptRuns
      <4> QED
        BY <4>5 DEF S2
    <3>3. CASE Owner(e[2]) # u
      <4>1. Untouched(u)
        BY <1>3, <3>3, ExecutesOther
      <4>2. bias'["EXTERNAL"][u] = bias["EXTERNAL"][u]
        BY <2>1, <3>3, PlusIsUp
      <4>3. BiasKept(u, Owned(u, Pending), powered', bias["EXTERNAL"][u])
        BY <3>1, <4>1, BiasSame DEF Untouched
      <4> QED
        BY <4>1, <4>2, <4>3 DEF Untouched
    <3> QED
      BY <3>2, <3>3
  <2>3. Clears(Pending)' = {}
    BY <1>2, <1>6 DEF Clears
  <2> QED
    BY <1>4, <2>2, <2>3 DEF BiasInv, Single, BiasKept, BiasToClear, Owned, Clears
<1>7. CASE e[2] # ClearBias("EXTERNAL") /\ Clears(Pending) # {}
  <2>1. ASSUME NEW u \in Biasing
        PROVE  BiasToClear(u, Owned(u, Pending)', Clears(Pending))
    <3>1. BiasToClear(u, Owned(u, Pending), Clears(Pending))
      BY <1>3, <1>7
    <3>2. CASE Owner(e[2]) = u
      <4>1. Runs(u, Owned(u, Pending), e, Owned(u, Pending)')
        BY <1>3, <3>2, ExecutesOwned
      <4>2. \A c \in Clears(Pending) : c \in Entry
        BY ClearsFacts
      <4> QED
        BY <1>3, <3>1, <4>1, <4>2, BiasToClearRuns
    <3>3. CASE Owner(e[2]) # u
      <4>1. Untouched(u)
        BY <1>3, <3>3, ExecutesOther
      <4> QED
        BY <3>1, <4>1 DEF Untouched
    <3> QED
      BY <3>2, <3>3
  <2>2. Clears(Pending)' = Clears(Pending)
    BY <1>2, <1>7 DEF Clears
  <2>3. \A u \in Biasing : BiasToClear(u, Owned(u, Pending)', Clears(Pending)')
    BY <2>1, <2>2
  <2>4. Clears(Pending)' # {}
    BY <1>7, <2>2
  <2> QED
    BY <1>4, <2>3, <2>4 DEF BiasInv, Single, BiasKept, BiasToClear, Owned, Clears
<1> QED
  BY <1>5, <1>6, <1>7

-----------------------------------------------------------------------------
(* The invariant and what follows from it. *)

PowerInv == WatchInv /\ SequenceInv /\ StartInv

LEMMA PowerInit == Init => PowerInv
BY WatchInit, SequenceInit, StartInit DEF PowerInv

LEMMA PowerStep == IInv /\ Timely /\ PowerInv /\ [Next]_vars => PowerInv'
<1> SUFFICES ASSUME IInv, Timely, PowerInv, [Next]_vars
             PROVE  PowerInv'
  OBVIOUS
<1>1. WatchInv /\ SequenceInv /\ StartInv
  BY DEF PowerInv
<1>2. WatchInv' /\ SequenceInv' /\ StartInv'
  BY <1>1, WatchStep, SequenceStep, StartStep
<1> QED
  BY <1>2 DEF PowerInv

LEMMA SettledIsEmpty ==
    ASSUME Settled
    PROVE  /\ \A u \in Unit : Owned(u, Pending) = {}
           /\ Clears(Pending) = {} /\ ~Has(Pending, FinishTransition)
<1>1. \A e \in Pending : Idle(e[2])
  BY IdleCommand DEF Settled, Pending, Elements
<1>2. ClearBias("EXTERNAL")[1] = "CLEAR_BIAS"
  BY DEF ClearBias
<1> QED
  BY <1>1, <1>2, OwnerAndKind, RootNames DEF Owned, Clears, Has

LEMMA ItemsLit ==
    ASSUME NEW u \in Unit
    PROVE  /\ \A r \in RulesOf(u) : <<"RULE", r>> \in Items(u)
           /\ \A g \in GroupsOf(u) : g # HwOc => <<"GROUP", g>> \in Items(u)
           /\ \A r : <<"RULE", r>> \in Lit <=> r \in active
           /\ \A g : <<"GROUP", g>> \in Lit <=> g \in logging
BY DEF Items, Lit

LEMMA PoweredIsWatched ==
    ASSUME IInv, PowerInv, Settled, NEW u \in powered
    PROVE  RulesOf(u) \subseteq active /\ GroupsOf(u) \subseteq logging
<1>1. u \in Unit
  BY DEF IInv, TypeOK
<1>2. \A x \in Items(u) : x \in Lit
  <2>1. WatchedOn(u, {}, powered, Lit)
    BY <1>1, SettledIsEmpty DEF PowerInv, WatchInv
  <2> QED
    BY <2>1 DEF WatchedOn, RaisedWhileOn, HasAny, Has
<1>3. HwOc \in GroupsOf(u) => HwOc \in logging
  <2> SUFFICES ASSUME HwOc \in GroupsOf(u), HwOc \notin logging
               PROVE  FALSE
    OBVIOUS
  <2>1. "INA260" \in powered
    BY <1>1, ReportsOfSensors
  <2>2. ~EndsMasking(OwnCommand)
    BY DEF EndsMasking, Ends1, Ends0, DeploysAny, OwnCommand, EnableLogging, PowerOff
  <2> QED
    BY <2>1, <2>2 DEF IInv, MaskingEnds, Settled
<1> QED
  BY <1>1, <1>2, <1>3, ItemsLit

\* No transition is under way when nothing is waiting.
LEMMA SettledIsFinished ==
    ASSUME PowerInv, Settled
    PROVE  ~in_progress
BY SettledIsEmpty DEF PowerInv, SequenceInv, FinishInv, Has

LEMMA FinishedUnits ==
    ASSUME IInv, PowerInv, ~in_progress, NEW u \in Unit \ blamed
    PROVE  /\ AfterTransition(u, Owned(u, Pending))
           /\ AsMode(u, Owned(u, Pending), mode, powered)
           /\ u = "STIM210" => GyroTaken(Owned(u, Pending), mode, gyro)
<1>1. Undisturbed(u) /\ FinishInv
  BY DEF PowerInv, SequenceInv
<1>2. Finishes(Pending) = {}
  BY <1>1, FinishesFacts DEF FinishInv
<1> QED
  BY <1>1, <1>2 DEF Undisturbed, Kept

\* A finished transition leaves nothing that would switch the unit.
LEMMA NothingToSwitch ==
    ASSUME IInv, NEW u \in Unit, AfterTransition(u, Owned(u, Pending))
    PROVE  \A e \in Owned(u, Pending) :
               /\ e[2] \notin {PowerOn(u), PowerOff(u), On(u), Off(u), Reset(u)}
               /\ u = "STIM210" => e[2] # SelectGyro("STIM210")
<1>1. Belongs(u, Owned(u, Pending))
  BY OwnedBelongs DEF IInv, Proper
<1>2. \A e \in Owned(u, Pending) :
          Kind(e[2]) = "up" /\ e[2][1] \notin {"ON", "ADD_BIAS", "SELECT_GYRO"}
  BY <1>1, AfterTransitionKinds
<1>3. /\ Kind(PowerOff(u)) = "down" /\ Kind(On(u)) = "ON" /\ Kind(Off(u)) = "OFF"
      /\ Kind(Reset(u)) = "RESET"
  BY RootNames, OwnerAndKind
<1>4. PowerOn(u)[1] = "ON" /\ SelectGyro("STIM210")[1] = "SELECT_GYRO"
  BY DEF PowerOn, SelectGyro
<1> QED
  BY <1>2, <1>3, <1>4

LEMMA FinishedIsAsMode ==
    ASSUME IInv, PowerInv, ~in_progress, NEW u \in Unit \ blamed
    PROVE  /\ u \in UnitsOf[mode] => u \in powered
           /\ u \in powered => u \in UnitsOf[mode] \cup SpareOf(mode)
<1>1. AsMode(u, Owned(u, Pending), mode, powered)
  BY FinishedUnits
<1>2. \A e \in Owned(u, Pending) :
          e[2] \notin {PowerOn(u), PowerOff(u), On(u), Off(u), Reset(u)}
  BY FinishedUnits, NothingToSwitch
<1> QED
  BY <1>1, <1>2 DEF AsMode, Has

LEMMA UnpoweredIsUnwatched ==
    ASSUME IInv, PowerInv, Settled, NEW u \in Unit \ (powered \cup blamed)
    PROVE  RulesOf(u) \cap active = {} /\ GroupsOf(u) \cap logging = {}
<1>1. Undisturbed(u)
  BY DEF PowerInv, SequenceInv
<1>2. \A x \in Items(u) : x \notin Lit
  <2>1. UnlitWhileOff(u, {}, powered, Lit)
    BY <1>1, SettledIsEmpty DEF Undisturbed, Kept, UnwatchedOff
  <2> QED
    BY <2>1 DEF UnlitWhileOff, HasAny, Has
<1>3. HwOc \in GroupsOf(u) => HwOc \notin logging
  <2> SUFFICES ASSUME HwOc \in GroupsOf(u)
               PROVE  logging = {}
    OBVIOUS
  <2>1. u = "INA260"
    BY ReportsOfSensors
  <2>2. u \notin UnitsOf[mode]
    BY SettledIsFinished, FinishedIsAsMode
  <2>3. mode = "START_UP"
    <3>1. mode \in Mode
      BY DEF IInv, TypeOK
    <3> QED
      BY <2>1, <2>2, <3>1, ModeUnits DEF Mode, Magnetic
  <2> QED
    BY <2>3 DEF PowerInv, StartInv
<1> QED
  BY <1>2, <1>3, ItemsLit

-----------------------------------------------------------------------------
(* So does every other step. *)

LEMMA BiasOfUnit ==
    ASSUME IInv, BiasInv, blamed = {}, NEW u \in Biasing
    PROVE  /\ u \in Unit /\ Belongs(u, Owned(u, Pending))
           /\ Single(timeline, On(u)) /\ Single(timeline, Plus(u))
           /\ Clears(Pending) = {} =>
                  BiasKept(u, Owned(u, Pending), powered, bias["EXTERNAL"][u])
           /\ Clears(Pending) # {} => BiasToClear(u, Owned(u, Pending), Clears(Pending))
<1>1. u \in Unit
  BY UnitsOfBlocks
<1>2. Belongs(u, Owned(u, Pending))
  BY <1>1, OwnedBelongs DEF IInv, Proper
<1> QED
  BY <1>1, <1>2 DEF BiasInv

LEMMA BiasUnchanged ==
    ASSUME IInv, BiasInv, blamed = {}, UNCHANGED <<timeline, powered, bias>>
    PROVE  BiasInv'
BY DEF BiasInv, Single, Clears, Owned, Pending, Elements, BiasKept, BiasToClear, Has

LEMMA BiasTick ==
    ASSUME IInv, BiasInv, blamed = {}, BASIC_SENSOR_UPDATE
    PROVE  BiasInv'
<1>1. Tick /\ powered' = powered /\ bias' = bias
  BY DEF BASIC_SENSOR_UPDATE, switching, attitude
<1>2. /\ Pending' = Sooner(Pending)
      /\ \A u : Owned(u, Pending)' = Sooner(Owned(u, Pending))
  BY <1>1, Ticks
<1>3. Clears(Pending)' = Sooner(Clears(Pending))
  <2>1. \A e : <<e[1] - 1, e[2]>>[2] = e[2]
    OBVIOUS
  <2>2. Clears(Sooner(Pending)) = Sooner(Clears(Pending))
    BY <2>1 DEF Clears, Sooner
  <2> QED
    BY <1>2, <2>2 DEF Clears
<1>4. /\ Sooner(Clears(Pending)) = {} <=> Clears(Pending) = {}
      /\ \A c \in Clears(Pending) : c[1] \in Int
  BY ClearsFacts DEF Sooner
<1>5. ASSUME NEW u \in Biasing
      PROVE  /\ Single(timeline', On(u)) /\ Single(timeline', Plus(u))
             /\ IF Clears(Pending)' = {}
                  THEN BiasKept(u, Owned(u, Pending)', powered', bias'["EXTERNAL"][u])
                  ELSE BiasToClear(u, Owned(u, Pending)', Clears(Pending)')
  <2>1. /\ u \in Unit /\ Belongs(u, Owned(u, Pending))
        /\ Single(timeline, On(u)) /\ Single(timeline, Plus(u))
        /\ Clears(Pending) = {} =>
               BiasKept(u, Owned(u, Pending), powered, bias["EXTERNAL"][u])
        /\ Clears(Pending) # {} => BiasToClear(u, Owned(u, Pending), Clears(Pending))
    BY BiasOfUnit
  <2>2. Single(timeline', On(u)) /\ Single(timeline', Plus(u))
    BY <1>1, <2>1, TickSingle
  <2>3. CASE Clears(Pending) = {}
    <3>1. BiasKept(u, Sooner(Owned(u, Pending)), powered, bias["EXTERNAL"][u])
      BY <1>4, <2>1, <2>3, BiasSooner
    <3>2. BiasKept(u, Owned(u, Pending)', powered', bias'["EXTERNAL"][u])
      BY <1>1, <1>2, <3>1
    <3> QED
      BY <1>3, <1>4, <2>2, <2>3, <3>2
  <2>4. CASE Clears(Pending) # {}
    <3>1. BiasToClear(u, Sooner(Owned(u, Pending)), Sooner(Clears(Pending)))
      BY <1>4, <2>1, <2>4, BiasSooner
    <3>2. BiasToClear(u, Owned(u, Pending)', Clears(Pending)')
      BY <1>2, <1>3, <3>1
    <3> QED
      BY <1>3, <1>4, <2>2, <2>4, <3>2
  <2> QED
    BY <2>3, <2>4
<1> QED
  BY <1>5 DEF BiasInv, Single, BiasKept, BiasToClear, Owned, Clears

\* A transition begins when nothing is left that would change a bias, and it switches on
\* only units that are off.
LEMMA BiasTransition ==
    ASSUME IInv, PowerInv, ClearInv, BiasInv, blamed = {}, NEW n \in Mode, StartTransition(n)
    PROVE  BiasInv'
<1> DEFINE T == Elements(Transition(mode, n))
<1>1. /\ mode \in Mode /\ n \in Successors[mode]
      /\ ~in_progress /\ powered' = powered /\ bias' = bias
  BY PowerAssumption DEF StartTransition, IInv, TypeOK, switching, attitude
<1>2. /\ Clears(Pending) = {} /\ Clears(Pending)' = Clears(T)
      /\ \A u : Owned(u, Pending)' = Owned(u, Pending) \cup Owned(u, T)
  BY ClearTransition DEF PowerInv, SequenceInv
<1>3. ASSUME NEW u \in Biasing
      PROVE  /\ u \in Unit /\ Single(timeline', On(u)) /\ Single(timeline', Plus(u))
             /\ BiasKept(u, Owned(u, Pending), powered, bias["EXTERNAL"][u])
             /\ \A e \in Owned(u, Pending) :
                    /\ e[2] \notin {PowerOn(u), On(u), Plus(u)} /\ Kind(e[2]) = "up"
                    /\ e[1] \in Int /\ Rest(e[2]) \in Nat /\ e[1] + Rest(e[2]) < Spill(u)
             /\ u \in powered => u \in UnitsOf[mode] \cup SpareOf(mode)
  <2>1. /\ u \in Unit \ blamed /\ Belongs(u, Owned(u, Pending))
        /\ Single(timeline, On(u)) /\ Single(timeline, Plus(u))
        /\ BiasKept(u, Owned(u, Pending), powered, bias["EXTERNAL"][u])
    BY <1>2, BiasOfUnit
  <2>2. AfterTransition(u, Owned(u, Pending))
    BY <1>1, <2>1, FinishedUnits
  <2>3. \A e \in Owned(u, Pending) : Kind(e[2]) = "up" /\ e[2][1] # "ADD_BIAS"
    BY <2>1, <2>2, AfterTransitionKinds
  <2>4. \A e \in Owned(u, Pending) : e[2] \notin {PowerOn(u), On(u)}
    BY <2>1, <2>2, NothingToSwitch
  <2>5. \A e \in Owned(u, Pending) :
            /\ e[1] \in Int /\ Rest(e[2]) \in Nat /\ e[1] + Rest(e[2]) < Spill(u)
    BY <2>1, <2>2, EntryType, RestType DEF Belongs, AfterTransition
  <2>6. u \in powered => u \in UnitsOf[mode] \cup SpareOf(mode)
    BY <1>1, <2>1, FinishedIsAsMode
  <2>7. \A e \in Owned(u, Pending) : e[2] # Plus(u)
    BY <2>3, PlusIsUp
  <2>8. ~Has(Pending, On(u)) /\ ~Has(Pending, Plus(u))
    <3>1. Owner(On(u)) = u /\ Owner(Plus(u)) = u
      BY RootNames, PlusIsUp
    <3> QED
      BY <2>4, <2>7, <3>1 DEF Has, Owned
  <2>9. Single(timeline', On(u)) /\ Single(timeline', Plus(u))
    BY <2>1, <2>8, RootNames, PlusIsUp, TransitionAppends
  <2> QED
    BY <2>1, <2>3, <2>4, <2>5, <2>6, <2>7, <2>9
<1>4. CASE n = "BDOT" /\ SwitchingTransition(mode, n) = AnyToBdot
  <2> DEFINE c == At(93, ClearBias("EXTERNAL"))
  <2>1. /\ Clears(T) = {c}
        /\ \A u \in Biasing : \A e \in Owned(u, T) : e[2] = Off(u) /\ Before(e, c)
    BY <1>1, <1>4, ClearingTransition, SameOfTransition, UnitsOfBlocks
  <2>2. ASSUME NEW u \in Biasing
        PROVE  BiasToClear(u, Owned(u, Pending) \cup Owned(u, T), {c})
    <3>1. Kind(On(u)) = "ON" /\ Kind(Off(u)) = "OFF"
      BY RootNames, OwnerAndKind
    <3>2. c[1] = Sec(93)
      BY RootNames
    <3>3. Spill(u) <= 22 /\ 22 < Sec(93) /\ Sec(93) \in Int /\ Spill(u) \in Nat
      <4>1. PICK C : C = OBCT_CYCLES_PER_SEC
        OBVIOUS
      <4>2. C \in Nat /\ C >= 10 /\ Sec(93) = 93 * C
        BY <4>1, Times
      <4>3. Spill(u) \in {0, 22}
        BY DEF Spill, Biasing
      <4> QED
        BY <4>2, <4>3
    <3> HIDE DEF c, T
    <3>4. ASSUME NEW e \in Owned(u, Pending)
          PROVE  e[2] # On(u) /\ Before(e, c)
      <4>1. e[1] + Rest(e[2]) < Spill(u) /\ e[1] \in Int /\ Rest(e[2]) \in Nat /\ e[2] # On(u)
        BY <1>3
      <4> QED
        BY <3>2, <3>3, <4>1 DEF Before
    <3>5. ASSUME NEW e \in Owned(u, T)
          PROVE  e[2] # On(u) /\ Before(e, c)
      BY <2>1, <3>1
    <3> QED
      BY <3>4, <3>5 DEF BiasToClear
  <2> HIDE DEF c, T
  <2>3. Clears(Pending)' = {c}
    BY <1>2, <2>1
  <2>4. \A u \in Biasing : BiasToClear(u, Owned(u, Pending)', Clears(Pending)')
    BY <1>2, <2>2, <2>3
  <2>5. Clears(Pending)' # {}
    BY <2>3
  <2> QED
    BY <1>3, <2>4, <2>5 DEF BiasInv, Single, BiasKept, BiasToClear, Owned, Clears
<1>5. CASE ~(n = "BDOT" /\ SwitchingTransition(mode, n) = AnyToBdot)
  <2>1. /\ Clears(T) = {}
        /\ \A u \in Biasing : \A e \in Owned(u, T) :
               e[2] = On(u) /\ u \notin UnitsOf[mode] \cup SpareOf(mode)
    BY <1>1, <1>5, OtherTransitions, SameOfTransition, UnitsOfBlocks
  <2>2. ASSUME NEW u \in Biasing
        PROVE  BiasKept(u, Owned(u, Pending) \cup Owned(u, T), powered, bias["EXTERNAL"][u])
    <3> DEFINE S == Owned(u, Pending)
               S2 == S \cup Owned(u, T)
    <3>1. /\ Kind(On(u)) = "ON" /\ On(u) # Plus(u) /\ On(u) # PowerOn(u)
      <4>1. Kind(On(u)) = "ON"
        BY RootNames, OwnerAndKind
      <4> QED
        BY <4>1, PlusIsUp DEF On, Deploy, PowerOn
    <3>2. /\ \A e \in S : /\ e[2] \notin {PowerOn(u), On(u), Plus(u)} /\ Kind(e[2]) = "up"
          /\ BiasKept(u, S, powered, bias["EXTERNAL"][u])
          /\ u \in powered => u \in UnitsOf[mode] \cup SpareOf(mode)
      BY <1>3
    <3>3. \A e \in Owned(u, T) : e[2] = On(u) /\ u \notin powered
      BY <2>1, <3>2
    <3> HIDE DEF S, T
    <3>4. ~Has(S2, Plus(u)) /\ ~Has(S2, PowerOn(u)) /\ ~Has(S, Plus(u))
      BY <3>1, <3>2, <3>3 DEF Has
    <3>5. Has(S2, On(u)) => u \notin powered
      BY <3>2, <3>3 DEF Has
    <3>6. \A e \in S2 : Kind(e[2]) \in {"up", "ON"}
      BY <3>1, <3>2, <3>3
    <3>7. bias["EXTERNAL"][u] = IF u \in powered THEN 1 ELSE 0
      BY <3>2, <3>4 DEF BiasKept
    <3> HIDE DEF S2
    <3>8. BiasKept(u, S2, powered, bias["EXTERNAL"][u])
      BY <3>4, <3>5, <3>6, <3>7 DEF BiasKept
    <3> QED
      BY <3>8 DEF S, S2
  <2> HIDE DEF T
  <2>3. Clears(Pending)' = {}
    BY <1>2, <2>1
  <2>4. \A u \in Biasing :
            BiasKept(u, Owned(u, Pending)', powered', bias'["EXTERNAL"][u])
    BY <1>1, <1>2, <2>2
  <2> QED
    BY <1>3, <2>3, <2>4 DEF BiasInv, Single, BiasKept, BiasToClear, Owned, Clears
<1> QED
  BY <1>4, <1>5

LEMMA BiasStep ==
    ASSUME IInv, Timely, PowerInv, ClearInv, BiasInv, [Next]_vars
    PROVE  BiasInv'
<1>1. SequenceInv /\ FinishInv
  BY DEF PowerInv, SequenceInv
<1>2. blamed \subseteq blamed'
  <2>1. EVENT_UTILITY => blamed \subseteq blamed'
    BY EventHandled
  <2>2. ~EVENT_UTILITY => blamed' = blamed
    BY DEF Next, vars, TLC_DISPATCHER_BC, BASIC_SENSOR_UPDATE, Fault, StartTransition, history
  <2> QED
    BY <2>1, <2>2
<1>3. CASE blamed' # {}
  BY <1>3 DEF BiasInv
<1>4. CASE blamed' = {}
  <2>1. blamed = {}
    BY <1>2, <1>4
  <2>2. CASE TLC_DISPATCHER_BC
    <3>1. CASE Idles
      BY <2>1, <3>1, BiasUnchanged DEF Idles, switching, attitude
    <3> QED
      BY <1>1, <1>4, <2>1, <2>2, <3>1, Dispatches, BiasExecuted
  <2>3. CASE EVENT_UTILITY
    <3>1. PICK v \in Monitored, matched \in BOOLEAN, broken \in BOOLEAN :
              Handles(v, matched, broken)
      BY <2>3, EventHandled
    <3>2. ~matched /\ ~broken
      BY <1>4, <3>1 DEF Handles
    <3>3. timeline' = timeline \o << >> /\ timeline \in Seq(Entry)
      BY <3>1, <3>2 DEF Handles, Response, IInv, Proper
    <3>4. timeline' = timeline
      BY <3>3
    <3>5. powered' = powered /\ bias' = bias
      BY <2>3 DEF EVENT_UTILITY, switching, attitude
    <3> QED
      BY <2>1, <3>4, <3>5, BiasUnchanged
  <2>4. CASE BASIC_SENSOR_UPDATE
    BY <2>1, <2>4, BiasTick
  <2>5. CASE \E n \in Mode : StartTransition(n)
    BY <2>1, <2>5, BiasTransition
  <2>6. CASE \E kind \in {"short", "overload"}, v \in Monitored : Fault(kind, v)
    BY <2>1, <2>6, BiasUnchanged DEF Fault, attitude
  <2>7. CASE UNCHANGED vars
    BY <2>1, <2>7, BiasUnchanged DEF vars, switching, attitude
  <2> QED
    BY <2>2, <2>3, <2>4, <2>5, <2>6, <2>7 DEF Next
<1> QED
  BY <1>3, <1>4

LEMMA BiasInit == Init => ClearInv /\ BiasInv
<1> SUFFICES ASSUME Init
             PROVE  ClearInv /\ BiasInv
  OBVIOUS
<1>1. timeline = << >> /\ powered = {} /\ bias = [m \in Mag |-> [u \in Biasing |-> 0]]
  BY DEF Init
<1>2. Pending = {}
  BY <1>1 DEF Pending, Elements
<1>3. Clears(Pending) = {} /\ \A u : Owned(u, Pending) = {}
  BY <1>2 DEF Clears, Owned
<1>4. \A c : Single(timeline, c)
  BY <1>1 DEF Single
<1>5. "EXTERNAL" \in Mag
  BY DEF Mag
<1>6. \A u \in Biasing : bias["EXTERNAL"][u] = 0
  BY <1>1, <1>5
<1> QED
  BY <1>1, <1>3, <1>4, <1>6 DEF ClearInv, BiasInv, BiasKept, Has

-----------------------------------------------------------------------------
(* The theorems. *)

\* When no sequence runs, a unit that is on is watched by all of its rules and event groups,
\* however transitions, resets and faults have interleaved, and one that is off by none of
\* them, unless the event handler has interfered with it.
THEOREM WatchedWheneverPowered == Spec /\ []Timely => []WatchedAsPowered
<1>1. IInv /\ PowerInv => WatchedAsPowered
  BY PoweredIsWatched, UnpoweredIsUnwatched DEF WatchedAsPowered
<1> QED
  BY <1>1, InitIInv, NextIInv, PowerInit, PowerStep, PTL DEF Spec

\* A finished transition has switched on what its mode works with and off everything else,
\* but for the units that the event handler has reset: the waits of the transitions are long
\* enough for the sequences they deploy.
THEOREM TransitionsSwitchUnits == Spec /\ []Timely => []PoweredAsMode
<1>1. IInv /\ PowerInv => PoweredAsMode
  <2> SUFFICES ASSUME IInv, PowerInv, ~in_progress
               PROVE  /\ UnitsOf[mode] \ blamed \subseteq powered
                      /\ powered \subseteq UnitsOf[mode] \cup SpareOf(mode) \cup blamed
    BY DEF PoweredAsMode
  <2>1. UnitsOf[mode] \subseteq Unit
    <3>1. mode \in Mode
      BY DEF IInv, TypeOK
    <3> QED
      BY <3>1, ModeUnits DEF Mode, Magnetic, Unit, Biasing
  <2>2. powered \subseteq Unit
    BY DEF IInv, TypeOK
  <2> QED
    BY <2>1, <2>2, FinishedIsAsMode
<1> QED
  BY <1>1, InitIInv, NextIInv, PowerInit, PowerStep, PTL DEF Spec

\* The good gyro is selected only while it is on, also when its sequences run beside those of
\* other units, and the fine control works with it.
THEOREM GoodGyroIsOn == Spec /\ []Timely => []SelectedGyroIsOn
<1>1. IInv /\ PowerInv => SelectedGyroIsOn
  <2> SUFFICES ASSUME IInv, PowerInv, "STIM210" \notin blamed
               PROVE  /\ gyro = "STIM210" => "STIM210" \in powered
                      /\ ~in_progress /\ mode = "FINE_THREE_AXIS" => gyro = "STIM210"
    BY DEF SelectedGyroIsOn
  <2>1. "STIM210" \in Unit
    BY DEF Unit, Biasing
  <2>2. Undisturbed("STIM210")
    BY <2>1 DEF PowerInv, SequenceInv
  <2>3. gyro = "STIM210" => "STIM210" \in powered
    BY <2>2 DEF Undisturbed, Kept, GyroKept
  <2>4. ASSUME ~in_progress, mode = "FINE_THREE_AXIS"
        PROVE  gyro = "STIM210"
    <3>1. /\ GyroTaken(Owned("STIM210", Pending), mode, gyro)
          /\ AfterTransition("STIM210", Owned("STIM210", Pending))
      BY <2>1, <2>4, FinishedUnits
    <3>2. \A e \in Owned("STIM210", Pending) :
              e[2] # On("STIM210") /\ e[2] # SelectGyro("STIM210")
      BY <2>1, <3>1, NothingToSwitch
    <3> QED
      BY <2>4, <3>1, <3>2 DEF GyroTaken, Has
  <2> QED
    BY <2>3, <2>4
<1> QED
  BY <1>1, InitIInv, NextIInv, PowerInit, PowerStep, PTL DEF Spec

\* The external magnetometer is corrected for exactly the units that are on, in whatever
\* order transitions have switched them on and off, until the event handler first interferes.
THEOREM ExternalBiasIsRight == Spec /\ []Timely => []ExternalBiasMatches
<1> DEFINE BInv == ClearInv /\ BiasInv
<1>1. Init => BInv
  BY BiasInit
<1>2. IInv /\ Timely /\ PowerInv /\ BInv /\ [Next]_vars => BInv'
  <2> SUFFICES ASSUME IInv, Timely, PowerInv, BInv, [Next]_vars
               PROVE  BInv'
    OBVIOUS
  <2>1. FinishInv
    BY DEF PowerInv, SequenceInv
  <2>2. ClearInv' /\ BiasInv'
    BY <2>1, ClearStep, BiasStep
  <2> QED
    BY <2>2
<1>3. IInv /\ PowerInv /\ BInv => ExternalBiasMatches
  <2> SUFFICES ASSUME BInv, Settled, blamed = {}, NEW u \in Biasing
               PROVE  bias["EXTERNAL"][u] = IF u \in powered THEN 1 ELSE 0
    BY DEF ExternalBiasMatches
  <2>1. Owned(u, Pending) = {} /\ Clears(Pending) = {}
    BY SettledIsEmpty, UnitsOfBlocks
  <2> QED
    BY <2>1 DEF BiasInv, BiasKept, Has
<1> HIDE DEF BInv
<1> QED
  BY <1>1, <1>2, <1>3, InitIInv, NextIInv, PowerInit, PowerStep, PTL DEF Spec

==============================================================================
