-------------------------- MODULE MCPowerSwitching --------------------------
(* Instances of PowerSwitching for TLC. *)
EXTENDS PowerSwitching

\* Every transition that changes the mode.
EveryChange == [m \in Mode |-> Successors[m] \ {m}]

\* The supply of a wheel is cut off, once or twice; or the star tracker draws too much.
WheelOrTracker ==
    { << <<"short", "RWZ">>, <<"short", "RWZ">> >>, << <<"overload", "SAGITTA">> >> }

\* Automatic transitions are allowed again soon: by default it is after minutes.
Soon == [m \in Mode |-> 3]
=============================================================================
