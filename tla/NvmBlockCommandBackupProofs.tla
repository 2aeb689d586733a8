-------------------- MODULE NvmBlockCommandBackupProofs --------------------
(***************************************************************************)
(* Theorems about NvmBlockCommandBackup, for every number of blocks and of *)
(* commands, every edit and setting, failed accesses and resets.           *)
(***************************************************************************)
EXTENDS NvmBlockCommandBackup, SequenceTheorems, TLAPS

Content == BctCmd \cup {Torn}

-----------------------------------------------------------------------------
(* Lemmas about the memory. *)

\* A write of a block, done or cut short, leaves a block of the right type.
LEMMA WriteType ==
    ASSUME TypeOK, NEW b \in Block, writes <= Len(blocks[b]), NEW v \in CutShort(b) \cup {Done(b)}
    PROVE  v \in [len : 0 .. BCT_MAX_CMD_NUM, cmds : [Slot -> Content]]
<1>1. nvm_blocks[b] \in [len : 0 .. BCT_MAX_CMD_NUM, cmds : [Slot -> Content]]
  BY DEF TypeOK, Content
<1>2. /\ blocks[b] \in Seq(Content)
      /\ Len(blocks[b]) \in 0 .. BCT_MAX_CMD_NUM
  BY LenProperties, BlockAssumption DEF TypeOK, Content
<1>3. CASE writes = 0
  BY <1>1, <1>2, <1>3 DEF CutShort, Done
<1>4. CASE writes # 0
  <2>1. writes \in Slot /\ writes \in 1 .. Len(blocks[b])
    BY <1>2, <1>4, BlockAssumption DEF TypeOK, Slot
  <2>2. blocks[b][writes] \in Content /\ nvm_blocks[b].cmds[writes] \in Content
    BY <1>1, <1>2, <2>1, ElementOfSeq
  <2>3. PICK c \in Content : v = [nvm_blocks[b] EXCEPT !.cmds[writes] = c]
    BY <1>4, <2>2 DEF CutShort, Done, Content
  <2> QED
    BY <1>1, <2>3
<1> QED
  BY <1>3, <1>4

\* What the memory holds for a block is a sequence of commands, some maybe torn.
LEMMA StoredType ==
    ASSUME TypeOK, NEW b \in Block
    PROVE  /\ Stored(b) \in Seq(Content)
           /\ Len(Stored(b)) = nvm_blocks[b].len
           /\ nvm_blocks[b].len \in 0 .. BCT_MAX_CMD_NUM
<1>1. nvm_blocks[b] \in [len : 0 .. BCT_MAX_CMD_NUM, cmds : [Slot -> Content]]
  BY DEF TypeOK, Content
<1>2. \A k \in 1 .. nvm_blocks[b].len : nvm_blocks[b].cmds[k] \in Content
  BY <1>1, BlockAssumption DEF Slot
<1>3. nvm_blocks[b].len \in Nat
  BY <1>1, BlockAssumption
<1> QED
  BY <1>1, <1>2, <1>3, IsASeq DEF Stored

\* Flags whose write was cut short are flags.
LEMMA FlagsType ==
    ASSUME TypeOK, NEW flags \in [Block -> BOOLEAN]
    PROVE  CutShortFlags(flags) \subseteq [Block -> BOOLEAN]
BY DEF CutShortFlags, TypeOK

-----------------------------------------------------------------------------
(* Type correctness. *)

\* The state after a boot has the right types.
LEMMA BootType ==
    ASSUME TypeOK, NEW flags \in [Block -> BOOLEAN], Boot(flags)
    PROVE  /\ blocks' \in [Block -> Seq(Content)]
           /\ \A b \in Block : Len(blocks'[b]) <= BCT_MAX_CMD_NUM
           /\ active' \in SUBSET Block
           /\ is_active' \in BOOLEAN
           /\ is_ready_to_restore' \in [Block -> BOOLEAN]
           /\ bc_id_to_copy' \in Block
           /\ bc_num_to_copy' \in Nat
           /\ step' = "idle"
           /\ i' \in Nat
           /\ writes' \in 0 .. BCT_MAX_CMD_NUM
           /\ copied' \in [Block -> Seq(Content)]
           /\ enabled' = FALSE
           /\ passed' = {}
<1>1. DefaultBlocks \in [Block -> Seq(Content)]
  <2>1. Seq(BctCmd) \subseteq Seq(Content)
    BY SeqDef DEF Content
  <2> QED
    BY <2>1, BlockAssumption DEF BctTable
<1>2. 0 \in Block /\ 0 \in 0 .. BCT_MAX_CMD_NUM
  BY BlockAssumption DEF Block
<1> QED
  BY <1>1, <1>2, BlockAssumption DEF Boot, TypeOK, Content

\* The first state has the right types.
LEMMA TypeInit == Init => TypeOK
<1> SUFFICES ASSUME Init PROVE TypeOK
  OBVIOUS
<1>1. blocks \in [Block -> Seq(Content)] /\ copied \in [Block -> Seq(Content)]
  <2>1. Seq(BctCmd) \subseteq Seq(Content) /\ << >> \in Seq(Content)
    BY SeqDef, EmptySeq DEF Content
  <2> QED
    BY <2>1, BlockAssumption DEF BctTable, Init
<1>2. /\ 0 \in Block
      /\ 0 \in 0 .. BCT_MAX_CMD_NUM
      /\ \A b \in Block : Len(blocks[b]) <= BCT_MAX_CMD_NUM
      /\ active \in SUBSET Block
  BY BlockAssumption DEF Block, Init
<1>3. nvm_blocks \in [Block -> [len : 0 .. BCT_MAX_CMD_NUM, cmds : [Slot -> Content]]]
  BY <1>2 DEF Init, Content
<1> QED
  BY <1>1, <1>2, <1>3 DEF Init, TypeOK, Content

\* Every step of the application, every command and every reset keeps the types.
LEMMA TypeStep == TypeOK /\ CopyInProgress /\ [Next]_vars => TypeOK'
<1> SUFFICES ASSUME TypeOK, CopyInProgress, [Next]_vars PROVE TypeOK'
  OBVIOUS
<1> USE DEF table, app, progress, nvm, history
<1>1. CASE UNCHANGED vars
  BY <1>1 DEF vars, TypeOK, Stored, Slot, Block
<1>2. CASE ExecBegin
  BY <1>2 DEF ExecBegin, TypeOK
<1>3. CASE CopyNext
  <2>1. is_ready_to_restore' \in [Block -> BOOLEAN] /\ passed' \in SUBSET Block
    BY <1>3 DEF CopyNext, Lowered, TypeOK
  <2>2. 0 \in 0 .. BCT_MAX_CMD_NUM
    BY BlockAssumption
  <2> QED
    BY <1>3, <2>1, <2>2 DEF CopyNext, TypeOK
<1>4. CASE CopyWrite
  <2>1. Current \in Block /\ writes <= Len(blocks[Current])
    BY <1>4 DEF CopyWrite, CopyInProgress
  <2>2. nvm_blocks' \in [Block -> [len : 0 .. BCT_MAX_CMD_NUM, cmds : [Slot -> Content]]]
    <3>1. PICK v \in CutShort(Current) \cup {Done(Current)} :
            nvm_blocks' = [nvm_blocks EXCEPT ![Current] = v]
      BY <1>4 DEF CopyWrite
    <3>2. v \in [len : 0 .. BCT_MAX_CMD_NUM, cmds : [Slot -> Content]]
      BY <2>1, WriteType
    <3> QED
      BY <2>1, <3>1, <3>2 DEF TypeOK, Content
  <2>3. /\ blocks[Current] \in Seq(Content)
        /\ Len(blocks[Current]) \in 0 .. BCT_MAX_CMD_NUM
    BY <2>1, LenProperties, BlockAssumption DEF TypeOK, Content
  <2>4. writes' \in 0 .. BCT_MAX_CMD_NUM
    BY <1>4, <2>3, BlockAssumption DEF CopyWrite, TypeOK
  <2>5. copied' \in [Block -> Seq(Content)] /\ is_ready_to_restore' \in [Block -> BOOLEAN]
    BY <1>4, <2>3 DEF CopyWrite, TypeOK, Content
  <2> QED
    BY <1>4, <2>2, <2>4, <2>5 DEF CopyWrite, TypeOK, Content
<1>5. CASE Advance
  <2>1. bc_id_to_copy' \in Block
    BY <1>5, BlockAssumption DEF Advance, LapIsOver, TypeOK, Block
  <2> QED
    BY <1>5, <2>1 DEF Advance, TypeOK
<1>6. CASE FinishLap
  <2>1. bc_id_to_copy' \in Block
    BY <1>6, BlockAssumption DEF FinishLap, FirstId, Block
  <2>2. nvm_ready' \in [Block -> BOOLEAN]
    BY <1>6, FlagsType DEF FinishLap, TypeOK
  <2> QED
    BY <1>6, <2>1, <2>2 DEF FinishLap, TypeOK
<1>7. CASE Enable
  <2>1. is_ready_to_restore' \in [Block -> BOOLEAN]
    BY <1>7 DEF Enable
  <2>2. nvm_ready' \in [Block -> BOOLEAN]
    BY <1>7, <2>1, FlagsType DEF Enable
  <2> QED
    BY <1>7, <2>1, <2>2 DEF Enable, TypeOK
<1>8. CASE Disable
  BY <1>8 DEF Disable, TypeOK
<1>9. ASSUME NEW b \in Block, Restore(b) PROVE TypeOK'
  <2>1. PICK s : /\ s \in Seq(Content)
                 /\ Len(s) <= BCT_MAX_CMD_NUM
                 /\ blocks' = [blocks EXCEPT ![b] = s]
    <3>1. CASE blocks' = [blocks EXCEPT ![b] = Stored(b)]
      <4>1. Stored(b) \in Seq(Content) /\ Len(Stored(b)) <= BCT_MAX_CMD_NUM
        BY StoredType, BlockAssumption
      <4> QED
        BY <3>1, <4>1
    <3>2. ASSUME NEW k \in 0 .. nvm_blocks[b].len,
                 blocks' = [blocks EXCEPT ![b] = SubSeq(Stored(b), 1, k)]
          PROVE  /\ SubSeq(Stored(b), 1, k) \in Seq(Content)
                 /\ Len(SubSeq(Stored(b), 1, k)) <= BCT_MAX_CMD_NUM
      <4>1. nvm_blocks[b].len \in 0 .. BCT_MAX_CMD_NUM
        BY StoredType
      <4>2. k \in Int /\ 1 \in Int /\ k <= BCT_MAX_CMD_NUM /\ 0 <= k
        BY <4>1, BlockAssumption
      <4>3. \A j \in 1 .. k : Stored(b)[j] \in Content
        <5>1. \A j \in 1 .. k : j \in 1 .. Len(Stored(b))
          BY <4>1, StoredType, BlockAssumption
        <5> QED
          BY <5>1, StoredType, ElementOfSeq
      <4> QED
        BY <4>2, <4>3, SubSeqProperties, BlockAssumption
    <3> QED
      BY <1>9, <3>1, <3>2 DEF Restore
  <2>2. /\ blocks' \in [Block -> Seq(Content)]
        /\ \A d \in Block : Len(blocks'[d]) <= BCT_MAX_CMD_NUM
    BY <2>1 DEF TypeOK, Content
  <2>3. active' \in SUBSET Block
    BY <1>9 DEF Restore, TypeOK
  <2> QED
    BY <1>9, <2>2, <2>3 DEF Restore, TypeOK, Content
<1>10. ASSUME NEW b \in Block, Activate(b) \/ Deactivate(b) PROVE TypeOK'
  BY <1>10 DEF Activate, Deactivate, TypeOK
<1>11. ASSUME NEW id \in IdParams, SetId(id) PROVE TypeOK'
  <2>1. id \in Block
    BY <1>11, BlockAssumption DEF SetId, Block
  <2> QED
    BY <1>11, <2>1 DEF SetId, TypeOK
<1>12. ASSUME NEW num \in NumParams, SetNum(num) PROVE TypeOK'
  BY <1>12, BlockAssumption DEF SetNum, TypeOK
<1>13. ASSUME NEW e \in Edits, Edit(e[1], e[2]) PROVE TypeOK'
  <2>1. e[1] \in Block /\ e[2] \in Seq(Content) /\ Len(e[2]) <= BCT_MAX_CMD_NUM
    <3>1. Seq(BctCmd) \subseteq Seq(Content)
      BY SeqDef DEF Content
    <3> QED
      BY <3>1, BlockAssumption
  <2>2. /\ blocks' \in [Block -> Seq(Content)]
        /\ \A d \in Block : Len(blocks'[d]) <= BCT_MAX_CMD_NUM
    BY <1>13, <2>1 DEF Edit, TypeOK, Content
  <2>3. active' \in SUBSET Block
    BY <1>13 DEF Edit, TypeOK
  <2> QED
    BY <1>13, <2>2, <2>3 DEF Edit, TypeOK, Content
<1>14. CASE Reset
  <2>1. nvm_ready' \in [Block -> BOOLEAN]
    BY <1>14, FlagsType DEF Reset, TypeOK
  <2>2. nvm_blocks' \in [Block -> [len : 0 .. BCT_MAX_CMD_NUM, cmds : [Slot -> Content]]]
    <3>1. CASE step = "copy"
      <4>1. Current \in Block /\ writes <= Len(blocks[Current])
        BY <3>1 DEF CopyInProgress
      <4>2. PICK v \in CutShort(Current) :
              nvm_blocks' = [nvm_blocks EXCEPT ![Current] = v]
        BY <1>14, <3>1 DEF Reset
      <4>3. v \in [len : 0 .. BCT_MAX_CMD_NUM, cmds : [Slot -> Content]]
        BY <4>1, WriteType
      <4> QED
        BY <4>1, <4>2, <4>3 DEF TypeOK, Content
    <3>2. CASE step # "copy"
      BY <1>14, <3>2 DEF Reset, TypeOK, Content
    <3> QED
      BY <3>1, <3>2
  <2>3. Boot(nvm_ready')
    BY <1>14 DEF Reset
  <2> QED
    BY <2>1, <2>2, <2>3, BootType DEF TypeOK, Content
<1> QED
  BY <1>1, <1>2, <1>3, <1>4, <1>5, <1>6, <1>7, <1>8, <1>9, <1>10, <1>11, <1>12, <1>13, <1>14
     DEF Next, Exec, Command

-----------------------------------------------------------------------------
(* The copy in progress. *)

\* After the write that is due the memory holds the length of the block and its
\* commands up to that write.
LEMMA WriteInOrder ==
    ASSUME TypeOK, CopyInProgress, step = "copy", NEW b \in Block, b = Current
    PROVE  /\ Done(b).len = Len(blocks[b])
           /\ \A k \in 1 .. writes : Done(b).cmds[k] = blocks[b][k]
<1>1. /\ writes > 0 => nvm_blocks[b].len = Len(blocks[b])
      /\ \A k \in 1 .. writes - 1 : nvm_blocks[b].cmds[k] = blocks[b][k]
      /\ writes <= Len(blocks[b])
  BY DEF CopyInProgress
<1>2. /\ Len(blocks[b]) \in Nat
      /\ Len(blocks[b]) <= BCT_MAX_CMD_NUM
      /\ writes \in Nat
  BY LenProperties, BlockAssumption DEF TypeOK
<1>3. nvm_blocks[b] \in [len : 0 .. BCT_MAX_CMD_NUM, cmds : [Slot -> Content]]
  BY DEF TypeOK, Content
<1>4. CASE writes = 0
  BY <1>3, <1>4 DEF Done
<1>5. CASE writes # 0
  <2>1. writes \in Slot /\ \A k \in 1 .. writes : k \in Slot
    BY <1>1, <1>2, <1>5, BlockAssumption DEF Slot
  <2>2. Done(b) = [nvm_blocks[b] EXCEPT !.cmds[writes] = blocks[b][writes]]
    BY <1>5 DEF Done
  <2>3. Done(b).len = nvm_blocks[b].len
    BY <1>3, <2>2
  <2>4. Done(b).cmds = [nvm_blocks[b].cmds EXCEPT ![writes] = blocks[b][writes]]
    BY <1>3, <2>2
  <2>5. DOMAIN nvm_blocks[b].cmds = Slot
    BY <1>3
  <2> QED
    BY <1>1, <1>2, <1>5, <2>1, <2>3, <2>4, <2>5
<1> QED
  BY <1>4, <1>5

\* Only the application's own writes reach the block that is being copied, and they
\* fill the memory in order.
LEMMA CopyStep == TypeOK /\ CopyInProgress /\ [Next]_vars => CopyInProgress'
<1> SUFFICES ASSUME TypeOK, CopyInProgress, [Next]_vars, step' = "copy"
             PROVE  CopyInProgress'
  BY DEF CopyInProgress
<1> USE DEF table, app, progress, nvm, history
<1>1. CASE UNCHANGED vars
  BY <1>1 DEF vars, CopyInProgress, Current, Block
<1>2. CASE CopyNext
  <2>1. /\ Current \in Block
        /\ is_ready_to_restore' = [is_ready_to_restore EXCEPT ![Current] = FALSE]
        /\ writes' = 0
        /\ Current' = Current
        /\ blocks' = blocks
    BY <1>2 DEF CopyNext, Lowered, Current
  <2>2. ~is_ready_to_restore'[Current']
    BY <2>1 DEF TypeOK
  <2>3. 0 <= Len(blocks[Current])
    BY <2>1, LenProperties DEF TypeOK
  <2> QED
    BY <2>1, <2>2, <2>3 DEF CopyInProgress, Block
<1>3. CASE CopyWrite
  <2>1. /\ nvm_blocks' = [nvm_blocks EXCEPT ![Current] = Done(Current)]
        /\ writes < Len(blocks[Current])
        /\ writes' = writes + 1
        /\ Current' = Current
        /\ blocks' = blocks
        /\ is_ready_to_restore' = is_ready_to_restore
    BY <1>3 DEF CopyWrite, Current
  <2>2. Current \in Block /\ ~is_ready_to_restore[Current]
    BY <1>3 DEF CopyInProgress, CopyWrite
  <2>3. nvm_blocks'[Current] = Done(Current)
    BY <2>1, <2>2 DEF TypeOK
  <2>4. /\ Done(Current).len = Len(blocks[Current])
        /\ \A k \in 1 .. writes : Done(Current).cmds[k] = blocks[Current][k]
    BY <1>3, <2>2, WriteInOrder DEF CopyWrite
  <2>5. writes' - 1 = writes /\ writes' <= Len(blocks[Current])
    BY <2>1, <2>2, LenProperties, BlockAssumption DEF TypeOK
  <2> QED
    BY <2>1, <2>2, <2>3, <2>4, <2>5 DEF CopyInProgress, Block
<1>4. CASE ExecBegin \/ Advance \/ FinishLap
  BY <1>4 DEF ExecBegin, Advance, FinishLap
<1>5. CASE Command
  BY <1>5 DEF Command, Enable, Disable, Restore, Activate, Deactivate, SetId, SetNum, Edit
<1>6. CASE Reset
  BY <1>6 DEF Reset, Boot
<1> QED
  BY <1>1, <1>2, <1>3, <1>4, <1>5, <1>6 DEF Next, Exec

\* When the last write of a block is done the memory holds the block.
LEMMA CopyDone ==
    ASSUME TypeOK, CopyInProgress, step = "copy", NEW b \in Block, b = Current,
           writes >= Len(blocks[b]), nvm_blocks' = [nvm_blocks EXCEPT ![b] = Done(b)]
    PROVE  Stored(b)' = blocks[b]
<1>1. /\ nvm_blocks'[b].len = Len(blocks[b])
      /\ \A k \in 1 .. writes : nvm_blocks'[b].cmds[k] = blocks[b][k]
  BY WriteInOrder DEF TypeOK
<1>2. /\ writes = Len(blocks[b])
      /\ Len(blocks[b]) \in Nat
      /\ blocks[b] \in Seq(Content)
  BY LenProperties, BlockAssumption DEF CopyInProgress, TypeOK, Content
<1>3. Stored(b)' = [k \in 1 .. Len(blocks[b]) |-> blocks[b][k]]
  BY <1>1, <1>2 DEF Stored
<1> QED
  BY <1>2, <1>3

-----------------------------------------------------------------------------
(* The flags. *)

\* A step that raises no flag and writes no flagged block keeps the flags right.
LEMMA FlagsKept ==
    ASSUME FlagMeansCopy,
           \A b \in Block : is_ready_to_restore'[b] =>
              /\ is_ready_to_restore[b]
              /\ nvm_blocks'[b] = nvm_blocks[b]
              /\ copied'[b] = copied[b]
    PROVE  FlagMeansCopy'
BY DEF FlagMeansCopy, Stored

\* Enabling makes the flags right, a complete copy keeps them right, and a reset
\* brings back flags that are right if it comes when the memory is settled.
LEMMA FlagStep == TypeOK /\ CopyInProgress /\ FlagsAreRight /\ [Next]_vars => FlagsAreRight'
<1> SUFFICES ASSUME TypeOK, CopyInProgress, FlagsAreRight, [Next]_vars,
                    enabled' \/ ResetsOnlyWhenSettled
             PROVE  FlagMeansCopy'
  BY DEF FlagsAreRight
<1> USE DEF table, app, progress, nvm, history
<1>1. CASE Enable
  BY <1>1 DEF Enable, FlagMeansCopy
<1>2. CASE Reset
  <2>1. ResetsOnlyWhenSettled
    BY <1>2 DEF Reset, Boot
  <2>2. FlagMeansCopy /\ step = "idle" /\ nvm_ready = is_ready_to_restore
    BY <1>2, <2>1 DEF Reset, Settled, FlagsAreRight
  <2>3. nvm_ready' = nvm_ready /\ nvm_blocks' = nvm_blocks
    BY <1>2, <2>2 DEF Reset
  <2>4. /\ copied' = copied
        /\ \A b \in Block : is_ready_to_restore'[b] => nvm_ready'[b]
    BY <1>2 DEF Reset, Boot
  <2> QED
    BY <2>2, <2>3, <2>4, FlagsKept
<1>3. CASE CopyWrite
  <2>1. FlagMeansCopy /\ step = "copy" /\ Current \in Block /\ ~is_ready_to_restore[Current]
    BY <1>3 DEF CopyWrite, CopyInProgress, FlagsAreRight
  <2>2. \A b \in Block : b # Current => nvm_blocks'[b] = nvm_blocks[b]
    BY <1>3 DEF CopyWrite, TypeOK
  <2>3. CASE is_ready_to_restore' = is_ready_to_restore /\ copied' = copied
    BY <2>1, <2>2, <2>3, FlagsKept
  <2>4. CASE ~(is_ready_to_restore' = is_ready_to_restore /\ copied' = copied)
    <3>1. /\ ~(writes < Len(blocks[Current]))
          /\ nvm_blocks' = [nvm_blocks EXCEPT ![Current] = Done(Current)]
          /\ is_ready_to_restore' = [is_ready_to_restore EXCEPT ![Current] = TRUE]
          /\ copied' = [copied EXCEPT ![Current] = blocks[Current]]
      BY <1>3, <2>4 DEF CopyWrite
    <3>2. writes >= Len(blocks[Current])
      BY <2>1, <3>1, LenProperties, BlockAssumption DEF TypeOK
    <3>3. ASSUME NEW b \in Block, is_ready_to_restore'[b] PROVE Stored(b)' = copied'[b]
      <4>1. CASE b = Current
        <5>1. Stored(b)' = blocks[b]
          BY <2>1, <3>1, <3>2, <4>1, CopyDone
        <5> QED
          BY <3>1, <4>1, <5>1 DEF TypeOK
      <4>2. CASE b # Current
        BY <2>1, <2>2, <3>1, <3>3, <4>2 DEF FlagMeansCopy, Stored, TypeOK
      <4> QED
        BY <4>1, <4>2
    <3> QED
      BY <3>3 DEF FlagMeansCopy
  <2> QED
    BY <2>3, <2>4
<1>4. CASE CopyNext
  <2>1. /\ FlagMeansCopy
        /\ nvm_blocks' = nvm_blocks
        /\ copied' = copied
        /\ is_ready_to_restore' = [is_ready_to_restore EXCEPT ![Current] = FALSE]
    BY <1>4 DEF CopyNext, Lowered, FlagsAreRight
  <2>2. \A b \in Block : is_ready_to_restore'[b] => is_ready_to_restore[b]
    BY <2>1 DEF TypeOK
  <2> QED
    BY <2>1, <2>2, FlagsKept
<1>5. CASE \/ UNCHANGED vars
           \/ ExecBegin \/ Advance \/ FinishLap
           \/ Disable
           \/ \E b \in Block : Restore(b) \/ Activate(b) \/ Deactivate(b)
           \/ \E id \in IdParams : SetId(id)
           \/ \E num \in NumParams : SetNum(num)
           \/ \E e \in Edits : Edit(e[1], e[2])
  <2>1. /\ nvm_blocks' = nvm_blocks
        /\ copied' = copied
        /\ is_ready_to_restore' = is_ready_to_restore
        /\ enabled' = enabled
    BY <1>5 DEF vars, ExecBegin, Advance, FinishLap, Disable, Restore, Activate, Deactivate,
                SetId, SetNum, Edit
  <2>2. FlagMeansCopy
    BY <2>1 DEF FlagsAreRight
  <2> QED
    BY <2>1, <2>2, FlagsKept
<1> QED
  BY <1>1, <1>2, <1>3, <1>4, <1>5 DEF Next, Exec, Command

-----------------------------------------------------------------------------
(* The lap. *)

\* The application never steps over a block.
LEMMA LapStep == TypeOK /\ CopyInProgress /\ LapInProgress /\ [Next]_vars => LapInProgress'
<1> SUFFICES ASSUME TypeOK, CopyInProgress, LapInProgress, [Next]_vars PROVE LapInProgress'
  OBVIOUS
<1> USE DEF table, app, progress, nvm, history
<1> USE BlockAssumption
<1>1. CASE ExecBegin
  BY <1>1 DEF ExecBegin, LapInProgress, Current, TypeOK, Block
<1>2. CASE CopyNext
  <2>1. \A b \in Block : b < Current + 1 => b \in passed'
    BY <1>2 DEF CopyNext, LapInProgress, Current, TypeOK, Block
  <2> QED
    BY <1>2, <2>1 DEF CopyNext, LapInProgress, Current, TypeOK, Block
<1>3. CASE CopyWrite
  <2>1. /\ step = "copy"
        /\ bc_id_to_copy' = bc_id_to_copy
        /\ passed' = passed
        /\ \/ step' = "copy" /\ i' = i
           \/ step' = "loop" /\ i' = i + 1
    BY <1>3 DEF CopyWrite
  <2>2. /\ bc_id_to_copy \in Int /\ i \in Int
        /\ \A b \in Block : b < bc_id_to_copy => b \in passed
        /\ \A b \in Block : b < bc_id_to_copy + i => b \in passed
        /\ bc_id_to_copy + i \in passed
    BY <2>1 DEF LapInProgress, Current, TypeOK, Block
  <2>3. \A b \in Block : b < bc_id_to_copy + (i + 1) => b \in passed
    BY <2>2 DEF Block
  <2> QED
    BY <2>1, <2>2, <2>3 DEF LapInProgress, Current
<1>4. CASE Advance
  <2>1. \A b \in Block : b < bc_id_to_copy + bc_num_to_copy => b \in passed
    BY <1>4 DEF Advance, LoopIsOver, LapInProgress, Current, TypeOK, Block
  <2> QED
    BY <1>4, <2>1 DEF Advance, LapInProgress
<1>5. CASE FinishLap
  BY <1>5 DEF FinishLap, FirstId, LapInProgress, Block
<1>6. CASE Reset
  BY <1>6 DEF Reset, Boot, LapInProgress, Block
<1>7. CASE \E id \in IdParams : SetId(id)
  BY <1>7 DEF SetId, LapInProgress
<1>8. CASE \/ UNCHANGED vars
           \/ Enable \/ Disable
           \/ \E b \in Block : Restore(b) \/ Activate(b) \/ Deactivate(b)
           \/ \E num \in NumParams : SetNum(num)
           \/ \E e \in Edits : Edit(e[1], e[2])
  <2>1. step' = step /\ i' = i /\ bc_id_to_copy' = bc_id_to_copy /\ passed' = passed
    BY <1>8 DEF vars, Enable, Disable, Restore, Activate, Deactivate, SetNum, Edit
  <2> QED
    BY <2>1 DEF LapInProgress, Current
<1> QED
  BY <1>1, <1>2, <1>3, <1>4, <1>5, <1>6, <1>7, <1>8 DEF Next, Exec, Command

-----------------------------------------------------------------------------
(* The inductive invariant, and what follows from it. *)

\* The invariant holds at first.
LEMMA IInvInit == Init => IInv
<1> SUFFICES ASSUME Init PROVE IInv
  OBVIOUS
<1>1. TypeOK
  BY TypeInit
<1>2. CopyInProgress /\ FlagsAreRight
  BY DEF Init, CopyInProgress, FlagsAreRight, FlagMeansCopy
<1>3. LapInProgress
  BY DEF Init, LapInProgress, Block
<1> QED
  BY <1>1, <1>2, <1>3 DEF IInv

\* Every step keeps it.
LEMMA IInvStep == IInv /\ [Next]_vars => IInv'
BY TypeStep, CopyStep, LapStep, FlagStep DEF IInv

\* It holds in every state.
LEMMA IInvAlways == Spec => []IInv
BY IInvInit, IInvStep, PTL DEF Spec

\* Every variable keeps its type.
THEOREM TypeCorrect == Spec => []TypeOK
BY IInvAlways, PTL DEF IInv

\* However often the computer has reset and accesses have failed before, from the
\* moment the application is enabled no flag is up for a block that is not in the
\* memory exactly as it was last wholly copied.
THEOREM EnabledFlagsAreRight == Spec => []EnabledFlagMeansCopy
<1>1. IInv => EnabledFlagMeansCopy
  BY DEF IInv, FlagsAreRight, EnabledFlagMeansCopy
<1> QED
  BY <1>1, IInvAlways, PTL

\* If the computer resets only when the memory is settled the flags are always right,
\* failed accesses or not.
THEOREM SettledFlagsAreRight ==
    ASSUME ResetsOnlyWhenSettled
    PROVE  Spec => []FlagMeansCopy
<1>1. IInv => FlagMeansCopy
  BY DEF IInv, FlagsAreRight
<1> QED
  BY <1>1, IInvAlways, PTL

\* Then a restore that ends well is exact.
THEOREM RestoresAreExact ==
    ASSUME ResetsOnlyWhenSettled
    PROVE  Spec => RestoreIsExact
<1>1. ASSUME IInv, NEW b \in Block, Restore(b), b \in active' \ active
      PROVE  blocks'[b] = copied[b]
  <2>1. blocks' = [blocks EXCEPT ![b] = Stored(b)] /\ is_ready_to_restore[b]
    BY <1>1 DEF Restore
  <2>2. Stored(b) = copied[b]
    BY <1>1, <2>1 DEF IInv, FlagsAreRight, FlagMeansCopy
  <2> QED
    BY <1>1, <2>1, <2>2 DEF IInv, TypeOK
<1>2. IInv => [\A b \in Block : Restore(b) /\ b \in active' \ active => blocks'[b] = copied[b]]_vars
  BY <1>1
<1> QED
  BY <1>2, IInvAlways, PTL DEF RestoreIsExact

\* Whatever the numbers of blocks per cycle and the commands during the lap, flags
\* are written only when every block has had its turn.
THEOREM LapsVisitAll == Spec => LapVisitsAll
<1>1. ASSUME IInv, FinishLap PROVE passed = Block
  <2>1. \A b \in Block : b < Current => b \in passed
    BY <1>1 DEF IInv, LapInProgress, FinishLap
  <2>2. Current >= BCT_MAX_BLOCKS
    BY <1>1, BlockAssumption DEF IInv, TypeOK, FinishLap, LoopIsOver, LapIsOver, Current, Block
  <2>3. Block \subseteq passed
    BY <1>1, <2>1, <2>2, BlockAssumption DEF IInv, TypeOK, Current, Block
  <2> QED
    BY <1>1, <2>3 DEF IInv, TypeOK
<1>2. IInv => [FinishLap => passed = Block]_vars
  BY <1>1
<1> QED
  BY <1>2, IInvAlways, PTL DEF LapVisitsAll

=============================================================================
