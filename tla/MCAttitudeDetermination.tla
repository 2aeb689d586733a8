----------------------- MODULE MCAttitudeDetermination -----------------------
(* Instances of AttitudeDetermination for TLC. *)
EXTENDS AttitudeDetermination

\* The lengths of the transitions to the modes.  That to BDOT is longer than the longest
\* time step that is not skipped.
Lengths == [m \in Mode |-> 3]

\* Far enough from an attitude that is right, or behind by one, to be a spike.
Behind == {-5}

\* The settings at the start, and the other two together.
TwoWays == {[method |-> "TRIAD", propagation |-> "QUATERNION"],
            [method |-> "Q_METHOD", propagation |-> "SUN_VECTOR"]}

\* Solutions that turn their sign, and the commands of the Kalman filter, in different
\* behaviours.
Apart == {{"TURN"}, {"EKF"}}

\* The values are on the boundary of what the theorems about the filter assume.
ASSUME BoundaryAssumption == SlowTurn /\ WrongIsFar
=============================================================================
