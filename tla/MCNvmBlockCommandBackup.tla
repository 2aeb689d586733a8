---------------------- MODULE MCNvmBlockCommandBackup ----------------------
(* Instances of NvmBlockCommandBackup. *)
EXTENDS NvmBlockCommandBackup

CONSTANTS c1, c2

\* The first block is the one that is edited, the second one is inactive after a boot.
Registered == [b \in Block |-> IF b = 0 THEN <<c1>> ELSE << >>]
BootActive == Block \ {1}

\* A block that gets longer and whose commands all change.
LongerBlock == {<<0, <<c2, c2>>>>}

\* A block of one command that is replaced.
OtherBlock == {<<0, <<c2>>>>}

Cmds == {c1, c2}
Numbers == {1, 2}
NumbersAndZero == {0, 2}
Identifiers == {0, 1}
=============================================================================
