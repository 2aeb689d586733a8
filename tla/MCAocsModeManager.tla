------------------------- MODULE MCAocsModeManager -------------------------
(* AocsModeManager with times of a few cycles, for TLC. *)
EXTENDS AocsModeManager

MCSetupTime == [m \in Mode |-> 5]
MCStartTime == [m \in Mode |-> IF m = "ROUGH_THREE_AXIS" THEN 4 ELSE 1]
MCDivTime == [l \in Limit |-> IF l = "MTQ" THEN 2 ELSE 1]
=============================================================================
