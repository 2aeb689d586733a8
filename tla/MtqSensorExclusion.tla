------------------------- MODULE MtqSensorExclusion -------------------------
(***************************************************************************)
(* What the exclusive control of magnetorquers and magnetometers promises, *)
(* with no timers, task lists or commands: the magnetorquers (MTQ) are     *)
(* driven only in the CONTROL phase, a STANDBY phase with all of them off  *)
(* lies between driving and observing, and the magnetometers are only      *)
(* used in the OBSERVE phase.  MagneticExclusiveControl implements it.     *)
(***************************************************************************)

CONSTANT Mtq   \* the magnetorquers

VARIABLES
    phase,     \* "OBSERVE", "CONTROL" or "STANDBY"
    driving    \* the magnetorquers that the control loop energises

vars == <<phase, driving>>

Init == phase = "STANDBY" /\ driving = {}

\* The demagnetisation time is over: the field may be observed.
Observe ==
    /\ phase = "STANDBY"
    /\ driving = {}
    /\ phase' = "OBSERVE"
    /\ driving' = {}

\* The control loop drives some magnetorquers.  It gets here from OBSERVE, and
\* from any phase when the exclusive control is disabled.
Drive ==
    /\ phase' = "CONTROL"
    /\ driving' \in SUBSET Mtq

\* The control time is over: everything is switched off.
Demagnetise ==
    /\ phase = "CONTROL"
    /\ phase' = "STANDBY"
    /\ driving' = {}

\* A ground command takes a magnetorquer out of the control loop's hands.
Release ==
    /\ phase' = phase
    /\ driving' \in SUBSET driving

Next == Observe \/ Drive \/ Demagnetise \/ Release

Spec == Init /\ [][Next]_vars
=============================================================================
