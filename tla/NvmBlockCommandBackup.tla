------------------------ MODULE NvmBlockCommandBackup ------------------------
(***************************************************************************)
(* The application that keeps a copy of the block commands (BC) in the     *)
(* non-volatile memory.  Every cycle it copies the next block or blocks,   *)
(* write by write; once a lap it writes the ready flags, which tell after  *)
(* a reset which blocks can be restored.  A write can fail, and a reset    *)
(* can come between any two writes and in the middle of one.               *)
(*                                                                         *)
(* A block is a sequence of commands; in the memory it is its length and   *)
(* one slot per command.  The flags, and every block, have their own place *)
(* in the memory.                                                          *)
(***************************************************************************)
EXTENDS Integers, Sequences, FiniteSets

CONSTANTS
    BCT_MAX_BLOCKS,        \* number of blocks in the table
    BCT_MAX_CMD_NUM,       \* number of commands a block can hold
    BctCmd,                \* commands
    Torn,                  \* a slot whose write was cut short
    DefaultBlocks,         \* [block -> commands] that every boot registers
    DefaultActive,         \* blocks that are active after a boot
    Edits,                 \* inputs: <<block, commands>> of BL commands
    NumParams,             \* inputs: numbers of blocks to copy at once
    IdParams,              \* inputs: blocks to go on with
    AccessMayFail,         \* whether accesses to the memory can fail
    ResetsOnlyWhenSettled  \* assumed of the environment: see Reset

Block == 0 .. BCT_MAX_BLOCKS - 1
BctTable == [Block -> Seq(BctCmd)]
Slot == 1 .. BCT_MAX_CMD_NUM

ASSUME BlockAssumption ==
    /\ BCT_MAX_BLOCKS \in Nat \ {0}
    /\ BCT_MAX_CMD_NUM \in Nat
    /\ Torn \notin BctCmd
    /\ DefaultBlocks \in BctTable
    /\ \A b \in Block : Len(DefaultBlocks[b]) <= BCT_MAX_CMD_NUM
    /\ DefaultActive \in SUBSET Block
    /\ \A e \in Edits : /\ e[1] \in Block
                        /\ e[2] \in Seq(BctCmd)
                        /\ Len(e[2]) <= BCT_MAX_CMD_NUM
    /\ NumParams \in SUBSET Nat
    /\ IdParams \in SUBSET Nat
    /\ AccessMayFail \in BOOLEAN
    /\ ResetsOnlyWhenSettled \in BOOLEAN

VARIABLES
    blocks,               \* block_command_table: the commands of each block
    active,               \* the blocks that BCE_is_active
    is_active,            \* whether the application is enabled
    is_ready_to_restore,  \* per block: its flag in RAM
    bc_id_to_copy,        \* the block to go on with
    bc_num_to_copy,       \* how many blocks to copy in a cycle
    step,                 \* where the application is in its cycle
    i,                    \* how many blocks it has dealt with in this cycle
    writes,               \* how many writes of the current block it has done
    nvm_ready,            \* memory: the ready flags
    nvm_blocks,           \* memory: length and slots of each block
    copied,               \* history: what each block last held when wholly copied
    enabled,              \* history: has the application been enabled since the boot?
    passed                \* history: blocks dealt with, or skipped by a command, in this lap

table == <<blocks, active>>
app == <<is_active, is_ready_to_restore, bc_id_to_copy, bc_num_to_copy>>
progress == <<step, i, writes>>
nvm == <<nvm_ready, nvm_blocks>>
history == <<copied, enabled, passed>>
vars == <<table, app, progress, nvm, history>>

\* What the memory holds for a block.
Stored(b) == [k \in 1 .. nvm_blocks[b].len |-> nvm_blocks[b].cmds[k]]

\* The block of the current pass of the copy loop.
Current == bc_id_to_copy + i

-----------------------------------------------------------------------------
(* The cycle of the application. *)

\* APP_NVM_BC_exec_: nothing to do until enabled.
ExecBegin ==
    /\ step = "idle"
    /\ is_active
    /\ step' = "loop"
    /\ i' = 0
    /\ UNCHANGED <<table, app, writes, nvm, history>>

\* Variant: the flag stays up until the copy is done.
Lowered_Not(b) == is_ready_to_restore

\* Variant: only the flag of an active block is lowered.
Lowered_IfActive(b) ==
    IF b \in active THEN [is_ready_to_restore EXCEPT ![b] = FALSE] ELSE is_ready_to_restore

\* The flags in RAM without that of block b.
Lowered(b) == [is_ready_to_restore EXCEPT ![b] = FALSE]

\* APP_NVM_BC_copy_bcs_: lower the flag; an inactive block is not copied.
CopyNext ==
    /\ step = "loop"
    /\ i < bc_num_to_copy
    /\ Current \in Block
    /\ is_ready_to_restore' = Lowered(Current)
    /\ passed' = passed \cup {Current}
    /\ \/ /\ Current \in active
          /\ step' = "copy"
          /\ writes' = 0
          /\ UNCHANGED i
       \/ /\ Current \notin active
          /\ i' = i + 1
          /\ UNCHANGED <<step, writes>>
    /\ UNCHANGED <<table, is_active, bc_id_to_copy, bc_num_to_copy, nvm, copied, enabled>>

\* The values that a write of block b can leave in the memory when it is cut short.
CutShort(b) ==
    IF writes = 0
      THEN {nvm_blocks[b], [nvm_blocks[b] EXCEPT !.len = Len(blocks[b])]}
      ELSE LET old == nvm_blocks[b].cmds[writes]
               new == blocks[b][writes]
           IN {[nvm_blocks[b] EXCEPT !.cmds[writes] = c] :
                  c \in IF old = new THEN {old} ELSE {old, new, Torn}}

\* The values that it leaves when it is done.
Done(b) ==
    IF writes = 0
      THEN [nvm_blocks[b] EXCEPT !.len = Len(blocks[b])]
      ELSE [nvm_blocks[b] EXCEPT !.cmds[writes] = blocks[b][writes]]

\* APP_NVM_BC_copy_bc_: the length, then the commands one by one.  An error ends the
\* block; the flag is raised when the last write is done.
CopyWrite ==
    /\ step = "copy"
    /\ \/ /\ nvm_blocks' = [nvm_blocks EXCEPT ![Current] = Done(Current)]
          /\ IF writes < Len(blocks[Current])
               THEN /\ writes' = writes + 1
                    /\ UNCHANGED <<step, i, is_ready_to_restore, copied>>
               ELSE /\ is_ready_to_restore' = [is_ready_to_restore EXCEPT ![Current] = TRUE]
                    /\ copied' = [copied EXCEPT ![Current] = blocks[Current]]
                    /\ step' = "loop"
                    /\ i' = i + 1
                    /\ UNCHANGED writes
       \/ /\ AccessMayFail
          /\ \E v \in CutShort(Current) : nvm_blocks' = [nvm_blocks EXCEPT ![Current] = v]
          /\ step' = "loop"
          /\ i' = i + 1
          /\ UNCHANGED <<writes, is_ready_to_restore, copied>>
    /\ UNCHANGED <<table, is_active, bc_id_to_copy, bc_num_to_copy, nvm_ready, enabled, passed>>

\* The flags in the memory after a write of them that was cut short: those up to
\* some block are new.
CutShortFlags(flags) ==
    {[b \in Block |-> IF b < k THEN flags[b] ELSE nvm_ready[b]] : k \in 0 .. BCT_MAX_BLOCKS}

LoopIsOver == i >= bc_num_to_copy \/ Current >= BCT_MAX_BLOCKS
\* Variant: one block too early.
LapIsOver_Early == bc_id_to_copy + bc_num_to_copy >= BCT_MAX_BLOCKS - 1

\* The last block has been dealt with in this cycle.
LapIsOver == bc_id_to_copy + bc_num_to_copy >= BCT_MAX_BLOCKS

\* Variant: a new lap starts where the last one ended.
FirstId_Kept == bc_id_to_copy

\* Where a lap starts.
FirstId == 0

\* The end of APP_NVM_BC_exec_ in the middle of a lap.
Advance ==
    /\ step = "loop"
    /\ LoopIsOver
    /\ ~LapIsOver
    /\ bc_id_to_copy' = bc_id_to_copy + bc_num_to_copy
    /\ step' = "idle"
    /\ UNCHANGED <<table, is_active, is_ready_to_restore, bc_num_to_copy, i, writes, nvm,
                   history>>

\* The end of APP_NVM_BC_exec_ when a lap is over: the flags are written.
FinishLap ==
    /\ step = "loop"
    /\ LoopIsOver
    /\ LapIsOver
    /\ bc_id_to_copy' = FirstId
    /\ \/ nvm_ready' = is_ready_to_restore
       \/ /\ AccessMayFail
          /\ nvm_ready' \in CutShortFlags(is_ready_to_restore)
    /\ step' = "idle"
    /\ passed' = {}
    /\ UNCHANGED <<table, is_active, is_ready_to_restore, bc_num_to_copy, i, writes,
                   nvm_blocks, copied, enabled>>

-----------------------------------------------------------------------------
(* Commands, dispatched before the application runs. *)

\* Variant: the flags in RAM are kept.
Enable_KeepsFlags ==
    /\ step = "idle"
    /\ is_active' = TRUE
    /\ nvm_ready' = [b \in Block |-> FALSE]
    /\ enabled' = TRUE
    /\ UNCHANGED <<table, is_ready_to_restore, bc_id_to_copy, bc_num_to_copy, progress,
                   nvm_blocks, copied, passed>>

\* Cmd_APP_NVM_BC_SET_ENABLE, to enable: all flags are lowered.
Enable ==
    /\ step = "idle"
    /\ is_active' = TRUE
    /\ is_ready_to_restore' = [b \in Block |-> FALSE]
    /\ \/ nvm_ready' = is_ready_to_restore'
       \/ /\ AccessMayFail
          /\ nvm_ready' \in CutShortFlags(is_ready_to_restore')
    /\ enabled' = TRUE
    /\ UNCHANGED <<table, bc_id_to_copy, bc_num_to_copy, progress, nvm_blocks, copied, passed>>

\* Cmd_APP_NVM_BC_SET_ENABLE, to disable.
Disable ==
    /\ step = "idle"
    /\ is_active' = FALSE
    /\ UNCHANGED <<table, is_ready_to_restore, bc_id_to_copy, bc_num_to_copy, progress, nvm,
                   history>>

\* After k commands the next access can fail, or the table can refuse a torn command.
RestoreStops(b, k) ==
    \/ AccessMayFail /\ (k = 0 \/ k < nvm_blocks[b].len)
    \/ k < nvm_blocks[b].len /\ nvm_blocks[b].cmds[k + 1] = Torn

\* Variant: the block is not cleared before its commands are registered.
Restore_WithoutClear(b) ==
    /\ step = "idle"
    /\ is_ready_to_restore[b]
    /\ Len(blocks[b]) + nvm_blocks[b].len <= BCT_MAX_CMD_NUM
    /\ blocks' = [blocks EXCEPT ![b] = @ \o Stored(b)]
    /\ active' = active \cup {b}
    /\ UNCHANGED <<app, progress, nvm, history>>

\* Cmd_APP_NVM_BC_RESTORE_BC_FROM_NVM: the block is cleared, its commands are
\* registered one by one and, when all are, it is activated.  An error leaves the
\* first k commands; whether clearing deactivates the block is not up to this code.
Restore(b) ==
    /\ step = "idle"
    /\ is_ready_to_restore[b]
    /\ \/ /\ blocks' = [blocks EXCEPT ![b] = Stored(b)]
          /\ active' = active \cup {b}
       \/ \E k \in 0 .. nvm_blocks[b].len :
             /\ RestoreStops(b, k)
             /\ blocks' = [blocks EXCEPT ![b] = SubSeq(Stored(b), 1, k)]
             /\ active' \in {active, active \ {b}}
    /\ UNCHANGED <<app, progress, nvm, history>>

\* Cmd_APP_NVM_BC_OTHER_SETTINGS, bc_id_to_copy.
SetId(id) ==
    /\ step = "idle"
    /\ id < BCT_MAX_BLOCKS
    /\ bc_id_to_copy' = id
    /\ passed' = passed \cup {b \in Block : b < id}
    /\ UNCHANGED <<table, is_active, is_ready_to_restore, bc_num_to_copy, progress, nvm,
                   copied, enabled>>

\* Cmd_APP_NVM_BC_OTHER_SETTINGS, bc_num_to_copy.
SetNum(num) ==
    /\ step = "idle"
    /\ num <= 255
    /\ bc_num_to_copy' = num
    /\ UNCHANGED <<table, is_active, is_ready_to_restore, bc_id_to_copy, progress, nvm, history>>

\* BL commands of c2a-core: a block is registered anew.
Edit(b, cmds) ==
    /\ step = "idle"
    /\ blocks' = [blocks EXCEPT ![b] = cmds]
    /\ active' \in {active, active \ {b}}
    /\ UNCHANGED <<app, progress, nvm, history>>

\* BCE commands of c2a-core.
Activate(b) ==
    /\ step = "idle"
    /\ active' = active \cup {b}
    /\ UNCHANGED <<blocks, app, progress, nvm, history>>

Deactivate(b) ==
    /\ step = "idle"
    /\ active' = active \ {b}
    /\ UNCHANGED <<blocks, app, progress, nvm, history>>

-----------------------------------------------------------------------------
\* The memory's flags agree with those in RAM, and nothing is being written.
Settled == step = "idle" /\ nvm_ready = is_ready_to_restore

\* APP_NVM_BC_init_: the application's state after a boot.  The flags are those of the
\* memory or, if they cannot be read, all lowered.
Boot(flags) ==
    /\ blocks' = DefaultBlocks
    /\ active' = DefaultActive
    /\ is_active' = FALSE
    /\ bc_id_to_copy' = 0
    /\ bc_num_to_copy' = 1
    /\ \/ is_ready_to_restore' = flags
       \/ AccessMayFail /\ is_ready_to_restore' = [b \in Block |-> FALSE]
    /\ step' = "idle"
    /\ i' = 0
    /\ writes' = 0
    /\ enabled' = FALSE
    /\ passed' = {}
    /\ UNCHANGED copied

\* The computer resets, maybe while it writes a slot or the flags.
Reset ==
    /\ ResetsOnlyWhenSettled => Settled
    /\ nvm_ready' \in IF step = "loop" /\ LoopIsOver /\ LapIsOver
                        THEN CutShortFlags(is_ready_to_restore) ELSE {nvm_ready}
    /\ IF step = "copy"
         THEN \E v \in CutShort(Current) : nvm_blocks' = [nvm_blocks EXCEPT ![Current] = v]
         ELSE UNCHANGED nvm_blocks
    /\ Boot(nvm_ready')

Init ==
    /\ blocks = DefaultBlocks
    /\ active = DefaultActive
    /\ is_active = FALSE
    /\ is_ready_to_restore = [b \in Block |-> FALSE]
    /\ bc_id_to_copy = 0
    /\ bc_num_to_copy = 1
    /\ step = "idle"
    /\ i = 0
    /\ writes = 0
    /\ nvm_ready = [b \in Block |-> FALSE]
    /\ nvm_blocks = [b \in Block |-> [len |-> 0, cmds |-> [k \in Slot |-> Torn]]]
    /\ copied = [b \in Block |-> << >>]
    /\ enabled = FALSE
    /\ passed = {}

Exec == ExecBegin \/ CopyNext \/ CopyWrite \/ Advance \/ FinishLap

Command ==
    \/ Enable
    \/ Disable
    \/ \E b \in Block : Restore(b) \/ Activate(b) \/ Deactivate(b)
    \/ \E id \in IdParams : SetId(id)
    \/ \E num \in NumParams : SetNum(num)
    \/ \E e \in Edits : Edit(e[1], e[2])

Next == Exec \/ Command \/ Reset

Spec == Init /\ [][Next]_vars

\* The scheduler runs the application in every cycle.
FairSpec == Spec /\ WF_vars(Exec)

-----------------------------------------------------------------------------
(* Properties. *)

\* Every variable keeps its type; a torn command can come back by a restore.
TypeOK ==
    /\ blocks \in [Block -> Seq(BctCmd \cup {Torn})]
    /\ \A b \in Block : Len(blocks[b]) <= BCT_MAX_CMD_NUM
    /\ active \in SUBSET Block
    /\ is_active \in BOOLEAN
    /\ is_ready_to_restore \in [Block -> BOOLEAN]
    /\ bc_id_to_copy \in Block
    /\ bc_num_to_copy \in Nat
    /\ step \in {"idle", "loop", "copy"}
    /\ i \in Nat
    /\ writes \in 0 .. BCT_MAX_CMD_NUM
    /\ nvm_ready \in [Block -> BOOLEAN]
    /\ nvm_blocks \in [Block -> [len : 0 .. BCT_MAX_CMD_NUM, cmds : [Slot -> BctCmd \cup {Torn}]]]
    /\ copied \in [Block -> Seq(BctCmd \cup {Torn})]
    /\ enabled \in BOOLEAN
    /\ passed \in SUBSET Block

\* non_volatile_memory_bc.h:14: "if the flag is up, a copy has surely been taken".
\* A block whose flag is up is in the memory as it was last wholly copied, not as a
\* mixture of two copies.  It holds when no reset comes between a write to a block
\* and the write of the flags that tells of it; otherwise the flags of the last lap
\* come back although the block has been overwritten in part since.
FlagMeansCopy == \A b \in Block : is_ready_to_restore[b] => Stored(b) = copied[b]

\* Whatever resets and failed writes came before, the flags are right from the
\* moment the application is enabled: enabling lowers them all, and only a complete
\* copy raises one.
EnabledFlagMeansCopy == enabled => FlagMeansCopy

\* Flags are written only after every block has been dealt with since they were last
\* written, or skipped by command: whatever the number of blocks to copy at once and
\* its changes during the lap, no flag is kept for longer than a lap unexamined.
LapVisitsAll == [][FinishLap => passed = Block]_vars

\* A restore that ends well puts back the block exactly as it was last copied.
RestoreIsExact ==
    [][\A b \in Block : Restore(b) /\ b \in active' \ active => blocks'[b] = copied[b]]_vars

\* From some time on no command sends the copying back, or lowers the flags.
Undisturbed == <>[][~(Enable \/ \E id \in IdParams : SetId(id))]_vars
Copying == is_active /\ bc_num_to_copy # 0

\* non_volatile_memory_bc.h:7: a block that is edited with BL commands is backed up
\* for sure: if it stays active it ends up in the memory as edited, with its flag
\* in the memory up.
EditsReachMemory ==
    Undisturbed =>
        \A e \in Edits :
            <>[](Copying /\ e[1] \in active /\ blocks[e[1]] = e[2])
                => <>[](nvm_ready[e[1]] /\ Stored(e[1]) = e[2])

\* non_volatile_memory_bc.h:8: the flag of a block that is inactive goes down, in
\* the memory too.
InactiveIsForgotten ==
    Undisturbed =>
        \A b \in Block :
            <>[](Copying /\ b \notin active) => <>[](~nvm_ready[b])

-----------------------------------------------------------------------------
(* The inductive invariant of the proofs. *)

\* The block that is being copied is flagless, and the memory holds its length and
\* its commands as far as they have been written.
CopyInProgress ==
    step = "copy" =>
        /\ Current \in Block
        /\ ~is_ready_to_restore[Current]
        /\ writes <= Len(blocks[Current])
        /\ writes > 0 => nvm_blocks[Current].len = Len(blocks[Current])
        /\ \A k \in 1 .. writes - 1 :
              nvm_blocks[Current].cmds[k] = blocks[Current][k]

\* All blocks before the current one have been dealt with in this lap.
LapInProgress ==
    /\ \A b \in Block : b < bc_id_to_copy => b \in passed
    /\ step # "idle" => \A b \in Block : b < Current => b \in passed
    /\ step = "copy" => Current \in passed

FlagsAreRight == enabled \/ ResetsOnlyWhenSettled => FlagMeansCopy

IInv == TypeOK /\ CopyInProgress /\ LapInProgress /\ FlagsAreRight
=============================================================================
