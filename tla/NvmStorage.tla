----------------------------- MODULE NvmStorage -----------------------------
(***************************************************************************)
(* The non-volatile memory as the applications use it: partitions of one   *)
(* row of global addresses, which the driver instance spreads over several *)
(* FRAM devices.  An access that crosses the end of a device is made in    *)
(* two.  Calls are synchronous; what a call can do to the memory and       *)
(* return is given as the set of its outcomes.                             *)
(*                                                                         *)
(* fram[idx][local] is the byte of a device at one of its own addresses.   *)
(* last tells what the last access asked for, of a partition or of the     *)
(* whole row, how it ended and what it read.                               *)
(***************************************************************************)
EXTENDS Bytes, NvmPartitions

CONSTANTS
    FM25V10_IDX_MAX,                    \* number of devices
    FM25V10_STOP_ADDRESS,               \* bytes of a device
    FM25V10_MAX_LENGTH,                 \* longest access of a device
    APP_NVM_MANAGER_MAX_CMD_DATA_SIZE,  \* longest access by a command
    Byte,
    FreshByte,                          \* what a new memory can hold
    AccessMayFail,                      \* whether a device can fail an access
    GroundPartitions, GroundAddresses   \* inputs: partitions and addresses in commands

APP_NVM_MANAGER_STOP_ADDRESS == FM25V10_IDX_MAX * FM25V10_STOP_ADDRESS

\* APP_NVM_PARTITION_set_partition_ checks where an element starts and ends; that they do
\* not overlap it leaves to the table.  An access is never longer than a device.
ASSUME StorageAssumption ==
    /\ FM25V10_IDX_MAX \in Nat \ {0}
    /\ FM25V10_STOP_ADDRESS \in Nat \ {0}
    /\ FM25V10_MAX_LENGTH \in 0 .. FM25V10_STOP_ADDRESS
    /\ APP_NVM_MANAGER_MAX_CMD_DATA_SIZE \in 0 .. FM25V10_MAX_LENGTH
    /\ \A id \in PartitionId :
        /\ Elements[id].start_address < APP_NVM_MANAGER_STOP_ADDRESS
        /\ Elements[id].start_address + Elements[id].size_byte <= APP_NVM_MANAGER_STOP_ADDRESS
    /\ \A id, other \in PartitionId : id # other => Extent(id) \cap Extent(other) = {}
    /\ FreshByte \in SUBSET Byte
    /\ AccessMayFail \in BOOLEAN
    /\ GroundPartitions \in SUBSET PartitionId
    /\ GroundAddresses \in SUBSET Nat
    /\ "GLOBAL" \notin PartitionId

VARIABLES
    fram,  \* the devices
    last   \* the last access: [by : a partition or "GLOBAL", req, ret, data]

Device == 0 .. FM25V10_IDX_MAX - 1
LocalAddress == 0 .. FM25V10_STOP_ADDRESS - 1
GlobalAddress == 0 .. APP_NVM_MANAGER_STOP_ADDRESS - 1

-----------------------------------------------------------------------------
(* The driver of a device. *)

FM25V10_accepts(start, n) ==
    /\ n <= FM25V10_MAX_LENGTH
    /\ start + n <= FM25V10_STOP_ADDRESS

\* Variant: the driver does not look at the errors of the interface.
FM25V10_write_bytes_ErrorsIgnored(device, start, bytes) ==
    {[ok |-> TRUE, device |-> Put(device, start, First(bytes, k))] :
        k \in {j \in 0 .. Len(bytes) : AccessMayFail \/ j = Len(bytes)}}

\* A write that fails on its way may have written some first bytes.
FM25V10_write_bytes(device, start, bytes) ==
    IF ~FM25V10_accepts(start, Len(bytes))
    THEN {[ok |-> FALSE, device |-> device]}
    ELSE {[ok |-> TRUE, device |-> Put(device, start, bytes)]} \cup
         {[ok |-> FALSE, device |-> Put(device, start, First(bytes, k))] :
            k \in {j \in 0 .. Len(bytes) : AccessMayFail}}

FM25V10_read_bytes(device, start, n) ==
    (IF FM25V10_accepts(start, n) THEN {[ok |-> TRUE, bytes |-> Get(device, start, n)]} ELSE {})
    \cup
    (IF AccessMayFail \/ ~FM25V10_accepts(start, n) THEN {[ok |-> FALSE, bytes |-> << >>]} ELSE {})

-----------------------------------------------------------------------------
(* The driver instance: global addresses. *)

DI_FM25V10_check(g, n) ==
    IF n > FM25V10_MAX_LENGTH \/ g + n > APP_NVM_MANAGER_STOP_ADDRESS THEN "NG_LENGTH"
    ELSE IF g >= APP_NVM_MANAGER_STOP_ADDRESS THEN "NG_ADDRESS"
    ELSE "OK"

\* DI_FM25V10_calc_local_address_
DeviceOf(g) == g \div FM25V10_STOP_ADDRESS
LocalOf(g) == g - DeviceOf(g) * FM25V10_STOP_ADDRESS

DI_FM25V10_calc_device_overrun_length_(local, n) ==
    IF local + n < FM25V10_STOP_ADDRESS THEN 0 ELSE local + n - FM25V10_STOP_ADDRESS

LengthInFirstDevice(g, n) == n - DI_FM25V10_calc_device_overrun_length_(LocalOf(g), n)

\* Variant: the second device gets the first bytes again.
OverrunData_FromStart(bytes, n) == First(bytes, Len(bytes) - n)

\* What is left for the second device.
OverrunData(bytes, n) == Rest(bytes, n)

\* The second device is accessed only if the first access ended well.
GlobalWrite(f, g, bytes) ==
    LET idx == DeviceOf(g)
        n == LengthInFirstDevice(g, Len(bytes))
        firsts == FM25V10_write_bytes(f[idx], LocalOf(g), First(bytes, n))
        seconds == FM25V10_write_bytes(f[idx + 1], 0, OverrunData(bytes, n))
    IN  IF DI_FM25V10_check(g, Len(bytes)) # "OK"
        THEN {[ret |-> DI_FM25V10_check(g, Len(bytes)), fram |-> f]}
        ELSE {[ret |-> "NG_WRITE", fram |-> [f EXCEPT ![idx] = w.device]] :
                w \in {w \in firsts : ~w.ok}} \cup
             {[ret |-> "OK", fram |-> [f EXCEPT ![idx] = w.device]] :
                w \in {w \in firsts : w.ok /\ n = Len(bytes)}} \cup
             (IF n = Len(bytes) THEN {} ELSE
             {[ret |-> IF w[2].ok THEN "OK" ELSE "NG_WRITE",
               fram |-> [f EXCEPT ![idx] = w[1].device, ![idx + 1] = w[2].device]] :
                w \in {w \in firsts : w.ok} \X seconds})

GlobalRead(f, g, n) ==
    LET idx == DeviceOf(g)
        m == LengthInFirstDevice(g, n)
        firsts == FM25V10_read_bytes(f[idx], LocalOf(g), m)
        seconds == IF m = n THEN {[ok |-> TRUE, bytes |-> << >>]}
                            ELSE FM25V10_read_bytes(f[idx + 1], 0, n - m)
    IN  IF DI_FM25V10_check(g, n) # "OK"
        THEN {[ret |-> DI_FM25V10_check(g, n), data |-> << >>]}
        ELSE {IF r[1].ok /\ r[2].ok THEN [ret |-> "OK", data |-> r[1].bytes \o r[2].bytes]
                                    ELSE [ret |-> "NG_READ", data |-> << >>] :
                r \in firsts \X seconds}

-----------------------------------------------------------------------------
(* The partitions. *)

APP_NVM_PARTITION_write_bytes(f, id, a, bytes) ==
    IF APP_NVM_PARTITION_check(id, a, Len(bytes)) # "OK"
    THEN {[ret |-> APP_NVM_PARTITION_check(id, a, Len(bytes)), fram |-> f]}
    ELSE GlobalWrite(f, Elements[id].start_address + a, bytes)

APP_NVM_PARTITION_read_bytes(f, id, a, n) ==
    IF APP_NVM_PARTITION_check(id, a, n) # "OK"
    THEN {[ret |-> APP_NVM_PARTITION_check(id, a, n), data |-> << >>]}
    ELSE GlobalRead(f, Elements[id].start_address + a, n)

-----------------------------------------------------------------------------
(* Accesses as steps, and the commands from ground that make them. *)

NoAccess == [by |-> "GLOBAL", req |-> [op |-> "none"], ret |-> "OK", data |-> << >>]

Wrote(by, g, bytes, o) ==
    /\ fram' = o.fram
    /\ last' = [by |-> by, req |-> [op |-> "write", at |-> g, bytes |-> bytes], ret |-> o.ret, data |-> << >>]

HasRead(by, g, n, o) ==
    /\ last' = [by |-> by, req |-> [op |-> "read", at |-> g, n |-> n], ret |-> o.ret, data |-> o.data]
    /\ UNCHANGED fram

PartitionWrite(id, a, bytes) ==
    \E o \in APP_NVM_PARTITION_write_bytes(fram, id, a, bytes) :
        Wrote(id, Elements[id].start_address + a, bytes, o)

\* The data of a command.
CmdData == UNION {[1 .. n -> Byte] : n \in 0 .. APP_NVM_MANAGER_MAX_CMD_DATA_SIZE}

\* Addresses beyond the last one are refused before anything else.
CmdAddress == {a \in GroundAddresses : a < APP_NVM_MANAGER_STOP_ADDRESS}

Cmd_APP_NVM_PARTITION_WRITE_BYTES ==
    \E id \in GroundPartitions, a \in CmdAddress, bytes \in CmdData : PartitionWrite(id, a, bytes)

Cmd_APP_NVM_PARTITION_READ_BYTES ==
    \E id \in GroundPartitions, a \in CmdAddress, n \in 0 .. APP_NVM_MANAGER_MAX_CMD_DATA_SIZE :
        \E o \in APP_NVM_PARTITION_read_bytes(fram, id, a, n) :
            HasRead(id, Elements[id].start_address + a, n, o)

\* The manager refuses to write nothing; the partitions do not.
Cmd_APP_NVM_MANAGER_WRITE_BYTES ==
    \E a \in CmdAddress, bytes \in CmdData \ {<< >>} :
        \E o \in GlobalWrite(fram, a, bytes) : Wrote("GLOBAL", a, bytes, o)

Cmd_APP_NVM_MANAGER_READ_BYTES ==
    \E a \in CmdAddress, n \in 0 .. APP_NVM_MANAGER_MAX_CMD_DATA_SIZE :
        \E o \in GlobalRead(fram, a, n) : HasRead("GLOBAL", a, n, o)

Cmd_DI_FM25V10_WRITE_BYTE ==
    \E idx \in Device, a \in {a \in GroundAddresses : a < FM25V10_STOP_ADDRESS}, byte \in Byte :
        \E w \in FM25V10_write_bytes(fram[idx], a, <<byte>>) :
            Wrote("GLOBAL", idx * FM25V10_STOP_ADDRESS + a, <<byte>>,
                  [ret |-> IF w.ok THEN "OK" ELSE "NG_WRITE",
                   fram |-> [fram EXCEPT ![idx] = w.device]])

GroundAccess ==
    \/ Cmd_APP_NVM_PARTITION_WRITE_BYTES
    \/ Cmd_APP_NVM_PARTITION_READ_BYTES
    \/ Cmd_APP_NVM_MANAGER_WRITE_BYTES
    \/ Cmd_APP_NVM_MANAGER_READ_BYTES
    \/ Cmd_DI_FM25V10_WRITE_BYTE

StorageInit ==
    /\ fram \in [Device -> [LocalAddress -> FreshByte]]
    /\ last = NoAccess
=============================================================================
