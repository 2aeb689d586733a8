-------------------------- MODULE AocsDataRecorder --------------------------
(***************************************************************************)
(* The application that records the algorithm telemetry in a partition of  *)
(* the non-volatile memory, one record a cycle, and reads records back for *)
(* the ground.  Addresses are pointers times the size of a record, in      *)
(* unsigned integers that wrap around.                                     *)
(*                                                                         *)
(* The bytes themselves are left to NvmStorage: a record is the place it   *)
(* was written to and its counter, a read the place it was read from.      *)
(***************************************************************************)
EXTENDS NvmPartitions, Sequences

CONSTANTS
    APP_AOCS_DR_ALGORITHM_TLM_SIZE,  \* bytes of a record
    UINT32,                          \* number of values of an unsigned integer
    DrPartition,                     \* DR_1 .. DR_3
    DefaultPartition,                \* DR_3
    AccessMayFail,                   \* whether accesses to the memory can fail
    PointerParams                    \* inputs: pointers in commands

Size(p) == Elements[p].size_byte

\* A partition holds a record, and its addresses are far from wrapping around.
ASSUME RecorderAssumption ==
    /\ APP_AOCS_DR_ALGORITHM_TLM_SIZE \in Nat \ {0}
    /\ UINT32 \in Nat \ {0}
    /\ DrPartition \subseteq PartitionId
    /\ DefaultPartition \in DrPartition
    /\ \A p \in DrPartition :
        /\ APP_AOCS_DR_ALGORITHM_TLM_SIZE <= Size(p)
        /\ Size(p) + APP_AOCS_DR_ALGORITHM_TLM_SIZE < UINT32
    /\ AccessMayFail \in BOOLEAN
    /\ PointerParams \subseteq 0 .. UINT32 - 1

VARIABLES
    record_permission, overwrite_mode,  \* BOOLEAN: ENABLE
    write_partition_id, write_end_address, write_pointer,
    counter,                            \* write_tlm_algorithm.counter
    read_partition_id, read_end_address, read_pointer,
    shown,                              \* read_tlm_algorithm: the place it was read from
    lap                                 \* history: the records since the pointer was set

writing == <<record_permission, overwrite_mode, write_partition_id, write_end_address,
             write_pointer, counter, lap>>
reading == <<read_partition_id, read_end_address, read_pointer, shown>>
vars == <<writing, reading>>

\* Whatever the stack held: data of no record.
Garbage == [partition |-> "none", address |-> 0]

\* Products and sums of uint32_t.
AddressOf(pointer) == (pointer * APP_AOCS_DR_ALGORITHM_TLM_SIZE) % UINT32
Succ(n) == (n + 1) % UINT32

-----------------------------------------------------------------------------
(* Recording. *)

\* APP_NVM_PARTITION_write_bytes and APP_NVM_PARTITION_read_bytes end well.
MaySucceed(p, address) ==
    APP_NVM_PARTITION_check(p, address, APP_AOCS_DR_ALGORITHM_TLM_SIZE) = "OK"

MayFail(p, address) == AccessMayFail \/ ~MaySucceed(p, address)

\* Variant: only the start of the record is looked at.
NoRoom_StartOnly ==
    AddressOf(write_pointer) > write_end_address

\* The end of the next record lies beyond the partition.
NoRoom ==
    AddressOf(Succ(write_pointer)) > write_end_address

\* Variant: only records that were written are counted.
RecordAt_CountsStored(pointer, before) ==
    /\ \E stored \in BOOLEAN :
        /\ stored => MaySucceed(write_partition_id, AddressOf(pointer))
        /\ ~stored => MayFail(write_partition_id, AddressOf(pointer))
        /\ lap' = Append(before, [partition |-> write_partition_id, address |-> AddressOf(pointer),
                                  counter |-> counter, stored |-> stored])
        /\ counter' = IF stored THEN Succ(counter) ELSE counter
    /\ write_pointer' = Succ(pointer)
    /\ UNCHANGED <<record_permission, overwrite_mode, write_partition_id, write_end_address, reading>>

\* APP_AOCS_DR_record_data_ at a pointer; the records before it belong to the lap or not.
\* A write that fails is an event in the log and nothing else.
RecordAt(pointer, before) ==
    /\ \E stored \in BOOLEAN :
        /\ stored => MaySucceed(write_partition_id, AddressOf(pointer))
        /\ ~stored => MayFail(write_partition_id, AddressOf(pointer))
        /\ lap' = Append(before, [partition |-> write_partition_id, address |-> AddressOf(pointer),
                                  counter |-> counter, stored |-> stored])
    /\ counter' = Succ(counter)
    /\ write_pointer' = Succ(pointer)
    /\ UNCHANGED <<record_permission, overwrite_mode, write_partition_id, write_end_address, reading>>

Record ==
    /\ record_permission
    /\ ~NoRoom
    /\ RecordAt(write_pointer, lap)

\* The partition is full: go on from its start.
Rewind ==
    /\ record_permission
    /\ NoRoom
    /\ overwrite_mode
    /\ RecordAt(0, << >>)

\* The partition is full: stop.
Stop ==
    /\ record_permission
    /\ NoRoom
    /\ ~overwrite_mode
    /\ record_permission' = FALSE
    /\ UNCHANGED <<overwrite_mode, write_partition_id, write_end_address, write_pointer,
                   counter, lap, reading>>

APP_AOCS_DR_exec_ == Record \/ Rewind \/ Stop

-----------------------------------------------------------------------------
(* Commands. *)

SetDisable(overwrite) ==
    /\ record_permission' = FALSE
    /\ overwrite_mode' = overwrite
    /\ counter' = 0
    /\ lap' = << >>
    /\ UNCHANGED <<write_partition_id, write_end_address, write_pointer, reading>>

\* The pointer is compared with the end of the partition in use, not of the new one.
Accepts(p, pointer) ==
    p \in DrPartition /\ AddressOf(pointer) < write_end_address

SetEnable(overwrite, p, pointer) ==
    /\ Accepts(p, pointer)
    /\ record_permission' = TRUE
    /\ overwrite_mode' = overwrite
    /\ write_partition_id' = p
    /\ write_end_address' = Size(p)
    /\ write_pointer' = pointer
    /\ lap' = << >>
    /\ UNCHANGED <<counter, reading>>

\* A refused command has already changed the permission and the mode.
SetEnableRefused(overwrite, p, pointer) ==
    /\ ~Accepts(p, pointer)
    /\ record_permission' = TRUE
    /\ overwrite_mode' = overwrite
    /\ UNCHANGED <<write_partition_id, write_end_address, write_pointer, counter, lap, reading>>

Cmd_APP_AOCS_DR_SET_WRITE ==
    \E overwrite \in BOOLEAN :
        \/ SetDisable(overwrite)
        \/ \E p \in PartitionId, pointer \in PointerParams :
            \/ SetEnable(overwrite, p, pointer)
            \/ SetEnableRefused(overwrite, p, pointer)

\* APP_AOCS_DR_read_data_ copies its buffer into the telemetry whether it was read or not.
ReadAt(p, pointer) ==
    /\ read_pointer' = pointer
    /\ \/ /\ MaySucceed(p, AddressOf(pointer))
          /\ shown' = [partition |-> p, address |-> AddressOf(pointer)]
       \/ /\ MayFail(p, AddressOf(pointer))
          /\ shown' = Garbage
    /\ UNCHANGED writing

ReadAccepts(p, pointer) ==
    p \in DrPartition /\ AddressOf(pointer) < read_end_address

ReadManual(p, pointer) ==
    /\ ReadAccepts(p, pointer)
    /\ read_partition_id' = p
    /\ read_end_address' = Size(p)
    /\ ReadAt(p, pointer)

\* Variant: reads at the pointer of the command.
ReadContinuous_Given ==
    /\ \E p \in PartitionId, pointer \in PointerParams :
        /\ ReadAccepts(p, pointer)
        /\ ReadAt(read_partition_id, pointer)
    /\ UNCHANGED <<read_partition_id, read_end_address>>

\* The parameters are checked, and not used.
ReadContinuous ==
    /\ \E p \in PartitionId, pointer \in PointerParams : ReadAccepts(p, pointer)
    /\ ReadAt(read_partition_id, Succ(read_pointer))
    /\ UNCHANGED <<read_partition_id, read_end_address>>

Cmd_APP_AOCS_DR_READ ==
    \/ \E p \in PartitionId, pointer \in PointerParams : ReadManual(p, pointer)
    \/ ReadContinuous

-----------------------------------------------------------------------------

Init ==
    /\ record_permission = FALSE
    /\ overwrite_mode = FALSE
    /\ write_partition_id = DefaultPartition
    /\ write_end_address = Size(DefaultPartition)
    /\ write_pointer = 0
    /\ counter = 0
    /\ read_partition_id = DefaultPartition
    /\ read_end_address = Size(DefaultPartition)
    /\ read_pointer = 0
    /\ shown = Garbage
    /\ lap = << >>

Next ==
    \/ APP_AOCS_DR_exec_
    \/ Cmd_APP_AOCS_DR_SET_WRITE
    \/ Cmd_APP_AOCS_DR_READ

Spec == Init /\ [][Next]_vars

-----------------------------------------------------------------------------
(* Properties. *)

Uint == 0 .. UINT32 - 1
Place == [partition : DrPartition, address : Uint]

\* Every variable keeps its type; the pointers stay unsigned integers.
TypeOK ==
    /\ {record_permission, overwrite_mode} \subseteq BOOLEAN
    /\ {write_partition_id, read_partition_id} \subseteq DrPartition
    /\ write_end_address = Size(write_partition_id)
    /\ read_end_address = Size(read_partition_id)
    /\ {write_pointer, read_pointer, counter} \subseteq Uint
    /\ shown \in Place \cup {Garbage}
    /\ lap \in Seq([partition : DrPartition, address : Uint, counter : Uint, stored : BOOLEAN])

\* Every record falls into its partition, so only a failing memory can lose one: whatever
\* pointers are commanded, for a smaller partition or such that the product wraps around,
\* the recorder stops or rewinds before the partition refuses a record (APP_AOCS_DR_exec_).
RecordsFit ==
    \A k \in DOMAIN lap :
        lap[k].address + APP_AOCS_DR_ALGORITHM_TLM_SIZE <= Size(lap[k].partition)

\* The records since the pointer was set, or since it was rewound, lie one after the other
\* in one partition and their counters follow each other: none overwrites another one, and
\* the ground finds the record with a counter by its distance (APP_AOCS_DR_record_data_).
LapIsReadable ==
    \A k \in DOMAIN lap :
        /\ lap[k].partition = lap[1].partition
        /\ lap[k].address = lap[1].address + (k - 1) * APP_AOCS_DR_ALGORITHM_TLM_SIZE
        /\ lap[k].counter = (lap[1].counter + k - 1) % UINT32

\* A continuous read that shows data after another read did shows what follows it, in the
\* same partition (APP_AOCS_DR_READ_MODE_CONTINUOUS: the data after the last one read).
ReadsFollow ==
    [][ReadContinuous /\ shown # Garbage /\ shown' # Garbage =>
        shown' = [shown EXCEPT !.address = @ + APP_AOCS_DR_ALGORITHM_TLM_SIZE]]_vars
=============================================================================
