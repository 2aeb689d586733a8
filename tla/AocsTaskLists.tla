---------------------------- MODULE AocsTaskLists ----------------------------
(***************************************************************************)
(* The task lists of the AOCS modes and the mode transition table.  A task *)
(* list is what one 100 ms cycle of the on-board computer executes, in the *)
(* order of the step (1 ms) each entry is registered for.  The entries     *)
(* that neither drive a magnetorquer, nor read, filter or use the magnetic *)
(* field, nor dispatch commands, are left out.                             *)
(*                                                                         *)
(* TL_..._Variant is a task list with a plausible mistake, see             *)
(* MagneticExclusiveControl.                                               *)
(***************************************************************************)
EXTENDS Naturals, Sequences

\* One cycle is 100 steps of 1 ms.
CycleLength_ms == 100

\* What an entry of a task list does.
Ops == { "CDH",           \* command dispatchers
         "MPU9250",       \* MPU9250 driver instance, then its filter
         "RM3100",        \* RM3100 driver instance, filter, magnetometer selector
         "MTQ_UPDATE",    \* exclusive control timer, then MTQ controller
         "MTQ_CONTROLLER",\* MTQ controller alone
         "BDOT",          \* B-dot law, reads the field
         "TORQUE" }       \* a torque law that sets a cross product moment

Entry(at, op) == [at |-> at, op |-> op]

\* BCL_load_initial_mode
TL_INITIAL ==
    << Entry(0, "CDH"), Entry(25, "MPU9250"), Entry(36, "RM3100"),
       Entry(45, "MTQ_UPDATE"), Entry(95, "MTQ_UPDATE") >>

\* Variant: without the second run of the controller.
TL_BDOT_WithoutExtraController ==
    << Entry(0, "CDH"), Entry(25, "MPU9250"), Entry(40, "MTQ_UPDATE"),
       Entry(45, "MPU9250"), Entry(55, "RM3100"), Entry(80, "BDOT"),
       Entry(90, "MTQ_UPDATE") >>

\* Variant: the magnetometers are read before the first run of the timer only.
TL_BDOT_SensorsFirst ==
    << Entry(0, "CDH"), Entry(25, "MPU9250"), Entry(36, "RM3100"),
       Entry(40, "MTQ_UPDATE"), Entry(80, "BDOT"), Entry(85, "MTQ_CONTROLLER"),
       Entry(90, "MTQ_UPDATE") >>

\* BCL_load_bdot_mode
TL_BDOT ==
    << Entry(0, "CDH"), Entry(25, "MPU9250"), Entry(40, "MTQ_UPDATE"),
       Entry(45, "MPU9250"), Entry(55, "RM3100"), Entry(80, "BDOT"),
       Entry(85, "MTQ_CONTROLLER"), Entry(90, "MTQ_UPDATE") >>

\* BCL_load_rough_sun_pointing_mode
TL_ROUGH_SUN_POINTING ==
    << Entry(0, "CDH"), Entry(25, "MPU9250"), Entry(40, "MTQ_UPDATE"),
       Entry(45, "RM3100"), Entry(85, "TORQUE"), Entry(90, "MTQ_UPDATE") >>

\* BCL_load_rough_three_axis_mode
TL_ROUGH_THREE_AXIS ==
    << Entry(0, "CDH"), Entry(25, "MPU9250"), Entry(40, "MTQ_UPDATE"),
       Entry(45, "RM3100"), Entry(80, "TORQUE"), Entry(90, "MTQ_UPDATE") >>

\* BCL_load_rough_three_axis_rw_mode
TL_ROUGH_THREE_AXIS_RW ==
    << Entry(0, "CDH"), Entry(25, "MPU9250"), Entry(40, "MTQ_UPDATE"),
       Entry(45, "RM3100"), Entry(78, "TORQUE"), Entry(90, "MTQ_UPDATE") >>

\* BCL_load_fine_three_axis_mode
TL_FINE_THREE_AXIS ==
    << Entry(0, "CDH"), Entry(25, "MPU9250"), Entry(36, "RM3100"),
       Entry(45, "MTQ_UPDATE"), Entry(84, "TORQUE"), Entry(95, "MTQ_UPDATE") >>

\* MD_load_mode_list: the task list of each mode.  START_UP, whose list is the
\* framework's, only runs before INITIAL and is left out.
ModeList ==
    [ INITIAL             |-> TL_INITIAL,
      BDOT                |-> TL_BDOT,
      ROUGH_SUN_POINTING  |-> TL_ROUGH_SUN_POINTING,
      ROUGH_THREE_AXIS    |-> TL_ROUGH_THREE_AXIS,
      ROUGH_THREE_AXIS_RW |-> TL_ROUGH_THREE_AXIS_RW,
      FINE_THREE_AXIS     |-> TL_FINE_THREE_AXIS ]

\* MD_load_transition_table: the modes reachable by one transition.
TransitionTable ==
    [ INITIAL             |-> {"BDOT"},
      BDOT                |-> {"INITIAL", "BDOT", "ROUGH_SUN_POINTING"},
      ROUGH_SUN_POINTING  |-> {"BDOT", "ROUGH_SUN_POINTING", "ROUGH_THREE_AXIS"},
      ROUGH_THREE_AXIS    |-> {"BDOT", "ROUGH_THREE_AXIS", "ROUGH_THREE_AXIS_RW"},
      ROUGH_THREE_AXIS_RW |-> {"BDOT", "ROUGH_THREE_AXIS_RW", "FINE_THREE_AXIS"},
      FINE_THREE_AXIS     |-> {"BDOT", "FINE_THREE_AXIS"} ]
=============================================================================
