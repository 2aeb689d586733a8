------------------------ MODULE AocsModeTransitions ------------------------
(***************************************************************************)
(* The transition table of the AOCS modes and the timed commands that each *)
(* transition deploys, as far as they concern the mode manager: switching  *)
(* the automatic transitions off and on, setting the limits of the three   *)
(* axis modes and finishing the transition.  Commands that switch          *)
(* components on and off are left out; they only take time.                *)
(***************************************************************************)
EXTENDS Integers

CONSTANTS
    OneSecond,  \* in cycles
    NopTime,    \* the length of a transition that changes nothing
    SetupTime,  \* [mode -> the length of the transitions to it]
    StartTime   \* [mode -> how long its control converges after the transition]

Mode == {"INITIAL", "BDOT", "ROUGH_SUN_POINTING", "ROUGH_THREE_AXIS", "ROUGH_THREE_AXIS_RW",
         "FINE_THREE_AXIS"}

RoughModes == {"ROUGH_THREE_AXIS", "ROUGH_THREE_AXIS_RW"}
PointingModes == RoughModes \cup {"ROUGH_SUN_POINTING", "FINE_THREE_AXIS"}

Limit == {"MTQ", "RW", "FINE"}
Command == {"AUTO_OFF", "AUTO_ON", "FINISH"} \cup Limit

ASSUME TimeAssumption ==
    /\ OneSecond \in Nat \ {0}
    /\ NopTime \in Nat \ {0}
    /\ SetupTime \in [Mode -> Nat]
    /\ \A m \in Mode : SetupTime[m] > 2 * OneSecond
    /\ StartTime \in [Mode -> Nat \ {0}]

\* MD_load_transition_table.
Successors ==
    [m \in Mode |->
        CASE m = "INITIAL" -> {"BDOT"}
          [] m = "BDOT" -> {"INITIAL", "BDOT", "ROUGH_SUN_POINTING"}
          [] m = "ROUGH_SUN_POINTING" -> {"BDOT", m, "ROUGH_THREE_AXIS"}
          [] m = "ROUGH_THREE_AXIS" -> {"BDOT", m, "ROUGH_THREE_AXIS_RW"}
          [] m = "ROUGH_THREE_AXIS_RW" -> {"BDOT", m, "FINE_THREE_AXIS"}
          [] m = "FINE_THREE_AXIS" -> {"BDOT", m}]

\* The limits of a three axis mode.
LimitOf ==
    [m \in RoughModes \cup {"FINE_THREE_AXIS"} |->
        CASE m = "ROUGH_THREE_AXIS" -> "MTQ"
          [] m = "ROUGH_THREE_AXIS_RW" -> "RW"
          [] m = "FINE_THREE_AXIS" -> "FINE"]

\* Variant: the limits are set too late.
SetsLimit_Late(m) ==
    IF m \in DOMAIN LimitOf THEN {<<SetupTime[m] + 1, LimitOf[m]>>} ELSE {}

SetsLimit(m) == IF m \in DOMAIN LimitOf THEN {<<2 * OneSecond, LimitOf[m]>>} ELSE {}

\* Variant: the last command of the transition to BDOT does not fit into its block.
AutoOn_Dropped(m) == IF m = "BDOT" THEN {} ELSE {<<SetupTime[m] + StartTime[m], "AUTO_ON">>}

AutoOn(m) == {<<SetupTime[m] + StartTime[m], "AUTO_ON">>}

\* The timed commands <<cycles to go, command>> of the transition from m to n.
Block(m, n) ==
    CASE m = n -> {<<NopTime, "FINISH">>}
      [] m # n /\ {m, n} = {"INITIAL", "BDOT"} -> {<<SetupTime[n], "FINISH">>}
      [] OTHER -> {<<OneSecond, "AUTO_OFF">>}
                    \cup SetsLimit(n)
                    \cup {<<SetupTime[n], "FINISH">>}
                    \cup AutoOn(n)
=============================================================================
