---------------------------- MODULE NvmParameters ----------------------------
(***************************************************************************)
(* Parameters in the non-volatile memory: normal ones, stored once, and    *)
(* redundant ones, stored at the same place of three partitions.  Writing  *)
(* a redundant parameter takes three writes; a failure ends it, and the    *)
(* computer can reset between any two of them.  Reading one takes three    *)
(* reads and a vote of three.                                              *)
(*                                                                         *)
(* Every boot writes initial values to the parameters, one call after the  *)
(* other.  The commands of NvmStorage share the memory with the calls.     *)
(***************************************************************************)
EXTENDS NvmStorage, FiniteSets

CONSTANTS
    NormalParam, RedundantParam,  \* the registered parameters
    Registered,                   \* [parameter -> [start_address, size_byte]]
    BootCalls,                    \* the calls APP_NVM_PARAMETER_init_ makes
    ParamData                     \* inputs: what applications write

Param == NormalParam \cup RedundantParam

\* The partitions a parameter is stored in, in the order of the writes.
Places(p) ==
    IF p \in RedundantParam
    THEN <<"REDUNDANT_PARAMS_1", "REDUNDANT_PARAMS_2", "REDUNDANT_PARAMS_3">>
    ELSE <<"NORMAL_PARAMS">>

Copies(p) == {Places(p)[c] : c \in DOMAIN Places(p)}

\* A call that writes a parameter, and the copy it is at.
Call == UNION {[param : {p}, data : [1 .. Registered[p].size_byte -> Byte], copy : DOMAIN Places(p)] :
                 p \in Param}

\* The bytes of a partition that a parameter takes.
Space(p) == Registered[p].start_address .. Registered[p].start_address + Registered[p].size_byte - 1

\* APP_NVM_PARAMETER_check_registration_ looks at the first of the partitions only.  That
\* two parameters of a partition share no byte it leaves to the tables of the settings.
ASSUME ParameterAssumption ==
    /\ NormalParam \cap RedundantParam = {}
    /\ \A p \in Param : Copies(p) \subseteq PartitionId
    /\ Registered \in [Param -> [start_address : Nat, size_byte : Nat]]
    /\ \A p \in Param : Registered[p].start_address + Registered[p].size_byte
                            <= Elements[Places(p)[1]].size_byte
    /\ \A p, q \in Param : p # q /\ Copies(p) \cap Copies(q) # {} => Space(p) \cap Space(q) = {}
    /\ BootCalls \in Seq(Call)
    /\ \A k \in DOMAIN BootCalls : BootCalls[k].copy = 1
    /\ \A p \in Param : ParamData[p] \subseteq [1 .. Registered[p].size_byte -> Byte]

VARIABLES
    calls,     \* the calls under way and to come
    written,   \* history: per parameter, what the last call that ended well wrote
    tried      \* history: per parameter, what the one call since tried to write

\* In the histories: no such call, or more than the history follows.
Unknown == << >>

vars == <<fram, last, calls, written, tried>>

-----------------------------------------------------------------------------
(* Writing. *)

\* An application writes a parameter.
Begin(p, data) ==
    /\ calls = << >>
    /\ calls' = <<[param |-> p, data |-> data, copy |-> 1]>>
    /\ UNCHANGED <<fram, last, written, tried>>

\* A call has changed the memory and not ended well so far.
Start(c) ==
    LET isSecond == tried[c.param] # Unknown
    IN  /\ tried' = [tried EXCEPT ![c.param] =
                        IF isSecond \/ written[c.param] = Unknown THEN Unknown ELSE c.data]
        /\ written' = [written EXCEPT ![c.param] = IF isSecond THEN Unknown ELSE @]

\* A call that ended well.
Complete(c) ==
    /\ written' = [written EXCEPT ![c.param] = c.data]
    /\ tried' = [tried EXCEPT ![c.param] = Unknown]

\* Variant: a copy that fails does not keep the others from being written.
Left_AfterFailure(c, ret) ==
    IF c.copy < Len(Places(c.param))
    THEN <<[c EXCEPT !.copy = @ + 1]>> \o Tail(calls)
    ELSE Tail(calls)

\* The calls that are left when the first one has written a copy, and went on or not.
Left(c, ret) ==
    IF ret = "OK" /\ c.copy < Len(Places(c.param))
    THEN <<[c EXCEPT !.copy = @ + 1]>> \o Tail(calls)
    ELSE Tail(calls)

WriteCopy ==
    /\ calls # << >>
    /\ LET c == Head(calls)
           place == Places(c.param)[c.copy]
       IN  /\ PartitionWrite(place, Registered[c.param].start_address, c.data)
           /\ calls' = Left(c, last'.ret)
           /\ IF last'.ret = "OK" /\ c.copy = Len(Places(c.param)) THEN Complete(c)
              ELSE IF c.copy = 1 THEN Start(c)
              ELSE UNCHANGED <<written, tried>>

-----------------------------------------------------------------------------
(* Reading: the outcomes of the two functions. *)

ReadCopy(place, p) ==
    APP_NVM_PARTITION_read_bytes(fram, place, Registered[p].start_address, Registered[p].size_byte)

APP_NVM_PARAM_read_normal_param(p) == ReadCopy(Places(p)[1], p)

\* Two equal ones of three win; only three equal ones match.
Vote(x, y, z) ==
    [match |-> x = y /\ y = z, data |-> IF y = z THEN y ELSE x]

APP_NVM_PARAM_read_redundant_param(p) ==
    {LET vote == Vote(r[1].data, r[2].data, r[3].data)
         isError == (\E k \in 1 .. 3 : r[k].ret # "OK") \/ ~vote.match
     IN  [ret |-> IF isError THEN "NG_OTHERS" ELSE "OK", data |-> vote.data] :
        r \in ReadCopy(Places(p)[1], p) \X ReadCopy(Places(p)[2], p) \X ReadCopy(Places(p)[3], p)}

ReadParam(p) ==
    IF p \in RedundantParam THEN APP_NVM_PARAM_read_redundant_param(p)
                            ELSE APP_NVM_PARAM_read_normal_param(p)

-----------------------------------------------------------------------------
(* Resets and the commands from ground. *)

\* A command from ground that changes a copy of a parameter.
Changed(p) ==
    \E place \in Copies(p), k \in 0 .. Registered[p].size_byte - 1 :
        LET g == Elements[place].start_address + Registered[p].start_address + k
        IN  fram'[DeviceOf(g)][LocalOf(g)] # fram[DeviceOf(g)][LocalOf(g)]

\* After it, what the parameter was is no longer known.
GroundCommand ==
    /\ calls = << >>
    /\ GroundAccess
    /\ written' = [p \in Param |-> IF Changed(p) THEN Unknown ELSE written[p]]
    /\ tried' = [p \in Param |-> IF Changed(p) THEN Unknown ELSE tried[p]]
    /\ UNCHANGED calls

Reset ==
    /\ last' = NoAccess
    /\ calls' = BootCalls
    /\ UNCHANGED <<fram, written, tried>>

-----------------------------------------------------------------------------

Init ==
    /\ StorageInit
    /\ calls = BootCalls
    /\ written = [p \in Param |-> Unknown]
    /\ tried = [p \in Param |-> Unknown]

Next ==
    \/ \E p \in Param : \E data \in ParamData[p] : Begin(p, data)
    \/ WriteCopy
    \/ GroundCommand
    \/ Reset

Spec == Init /\ [][Next]_vars

-----------------------------------------------------------------------------
(* Properties. *)

\* The devices as one row of bytes.
Row == [g \in GlobalAddress |-> fram[DeviceOf(g)][LocalOf(g)]]

Flat == INSTANCE FlatMemory WITH
    Size <- APP_NVM_MANAGER_STOP_ADDRESS,
    mem <- Row, req <- last.req, ok <- last.ret = "OK", data <- last.data

\* Every byte stays a byte, requests are what they are, and the calls are calls.
TypeOK ==
    /\ fram \in [Device -> [LocalAddress -> Byte]]
    /\ last.by \in PartitionId \cup {"GLOBAL"}
    /\ last.req \in Flat!WriteRequest \cup Flat!ReadRequest \cup {Flat!NoRequest}
    /\ last.ret \in {"OK", "NG_ADDRESS", "NG_LENGTH", "NG_READ", "NG_WRITE"}
    /\ last.data \in Seq(Byte)
    /\ calls \in Seq(Call)
    /\ DOMAIN written = Param
    /\ DOMAIN tried = Param
    /\ \A p \in Param : {written[p], tried[p]} \subseteq
                            [1 .. Registered[p].size_byte -> Byte] \cup {Unknown}

\* The storage is one row of bytes: an access that crosses the end of a device does and
\* returns what one inside a device would, and a failed one leaves a prefix, never a hole
\* (DI_FM25V10_global_write_bytes, DI_FM25V10_global_read_bytes).
StoresBytes == Flat!Spec

\* An access to a partition changes no byte outside it, wherever it lies and whatever
\* fails (APP_NVM_PARTITION_calc_global_address_ and the split in the driver instance).
PartitionsIsolated ==
    [][last'.by \in PartitionId =>
        \A g \in GlobalAddress : Row'[g] # Row[g] => g \in Extent(last'.by)]_vars

\* A parameter read without error has the value that was last written without error, as
\* long as no call has been since (APP_NVM_PARAM_write_redundant_param and the readers).
ReadsBack ==
    \A p \in Param : written[p] # Unknown /\ tried[p] = Unknown =>
        \A o \in ReadParam(p) : o.ret = "OK" => o.data = written[p]

\* If one call has been, a redundant parameter read without error has the value from
\* before or the value of that call, never a mixture: three writes with a reset or failure
\* between them look like one to whoever reads (APP_NVM_PARAM_read_redundant_param).
NeverMixed ==
    \A p \in RedundantParam : written[p] # Unknown /\ tried[p] # Unknown =>
        \A o \in ReadParam(p) : o.ret = "OK" => o.data \in {written[p], tried[p]}
=============================================================================
