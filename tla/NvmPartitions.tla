--------------------------- MODULE NvmPartitions ---------------------------
(***************************************************************************)
(* The partitions of the non-volatile memory: where each one lies in the   *)
(* row of global addresses, and which accesses fall into it.               *)
(***************************************************************************)
EXTENDS Integers

CONSTANTS
    PartitionId,
    Elements      \* [partition -> [start_address, size_byte]]

ASSUME PartitionAssumption ==
    Elements \in [PartitionId -> [start_address : Nat, size_byte : Nat]]

\* The global addresses of a partition.
Extent(id) ==
    Elements[id].start_address .. Elements[id].start_address + Elements[id].size_byte - 1

\* Variant: only the start is looked at.
APP_NVM_PARTITION_check_StartOnly(id, a, n) ==
    IF a > Elements[id].size_byte THEN "NG_ADDRESS" ELSE "OK"

APP_NVM_PARTITION_check(id, a, n) ==
    IF a > Elements[id].size_byte THEN "NG_ADDRESS"
    ELSE IF a + n > Elements[id].size_byte THEN "NG_LENGTH"
    ELSE "OK"
=============================================================================
