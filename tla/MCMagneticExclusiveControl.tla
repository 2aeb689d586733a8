--------------------- MODULE MCMagneticExclusiveControl ---------------------
(* Instances of MagneticExclusiveControl on the AOCS task lists. *)
EXTENDS MagneticExclusiveControl, AocsTaskLists

\* The durations are in ms: observe, control, standby.
Conf(o, c, s) ==
    [w \in Window |-> CASE w = "OBSERVE" -> o [] w = "CONTROL" -> c [] w = "STANDBY" -> s]

\* The values the timer is initialised with, and a shorter control window with the
\* same exclusion windows.
FlightConfig == Conf(100, 800, 100)
ShortConfig == Conf(60, 100, 60)

\* Two modes whose lists run the timer at different times, and the changes between them.
TwoModeLists == [m \in {"INITIAL", "BDOT"} |-> ModeList[m]]
TwoModeTable == [m \in {"INITIAL", "BDOT"} |-> TransitionTable[m] \cap {"INITIAL", "BDOT"}]

\* Commanded durations: the shortest ones, one that makes the windows shorter than a
\* cycle, and two that are refused (too short, too long).
SomeDurations == { Conf(10, 150, 10), Conf(60, 9, 60), Conf(60, 100, 10001) }

\* Half the maximum in one direction, and beyond it in the other.
TwoMoments == {-500, 20000}

Nothing == {}
Switches == {0, 1, 2}
Ratios == {-101, 0, 50}
Polarities == {-1, 0, 2}
ShortBoot == {55}
BootGapSet == {55, 2000}
=============================================================================
