----------------------- MODULE AocsDataRecorderProofs -----------------------
(***************************************************************************)
(* Proofs about AocsDataRecorder, for every size of a record, every width  *)
(* of the integers and every table of partitions.                          *)
(*                                                                         *)
(* What the code relies on without saying so is Reachable: the address of  *)
(* the next record, although it is a product that may have wrapped around, *)
(* is always so small that adding one more record does not wrap around.    *)
(***************************************************************************)
EXTENDS AocsDataRecorder, TLAPS

RecordSize == APP_AOCS_DR_ALGORITHM_TLM_SIZE
Entry == [partition : DrPartition, address : Uint, counter : Uint, stored : BOOLEAN]

\* The address of the next record, and of its end, are those of the unbounded integers.
Reachable == AddressOf(write_pointer) + RecordSize < UINT32

\* The next record goes on where the last one ended.
Joins(entries, p, address, c) ==
    entries # << >> =>
        /\ entries[Len(entries)].partition = p
        /\ entries[Len(entries)].address + RecordSize = address
        /\ Succ(entries[Len(entries)].counter) = c

Fit(entries) ==
    \A k \in DOMAIN entries : entries[k].address + RecordSize <= Size(entries[k].partition)

Readable(entries) ==
    \A k \in DOMAIN entries :
        /\ entries[k].partition = entries[1].partition
        /\ entries[k].address = entries[1].address + (k - 1) * RecordSize
        /\ entries[k].counter = (entries[1].counter + k - 1) % UINT32

\* What the telemetry shows is what the read pointer points to.
ShowsPointer ==
    shown # Garbage =>
        /\ shown.partition = read_partition_id
        /\ shown.address = AddressOf(read_pointer)
        /\ shown.address + RecordSize <= Size(read_partition_id)

LapInv ==
    /\ Joins(lap, write_partition_id, AddressOf(write_pointer), counter)
    /\ Fit(lap)
    /\ Readable(lap)

IInv == TypeOK /\ Reachable /\ LapInv /\ ShowsPointer

-----------------------------------------------------------------------------
(* Unsigned integers. *)

\* The remainder is the one number below the divisor that differs by a multiple of it.
LEMMA Remainder ==
    ASSUME NEW w \in Nat \ {0}, NEW q \in Int, NEW r \in 0 .. w - 1
    PROVE  (q * w + r) % w = r
BY SMT

LEMMA Division ==
    ASSUME NEW w \in Nat \ {0}, NEW x \in Nat
    PROVE  /\ x % w \in 0 .. w - 1
           /\ x \div w \in Nat
           /\ x = (x \div w) * w + (x % w)
BY SMT

\* Addresses and successors are unsigned integers.
LEMMA UintClosed ==
    ASSUME NEW n \in Nat
    PROVE  AddressOf(n) \in Uint /\ Succ(n) \in Uint
<1>1. UINT32 \in Nat \ {0} /\ RecordSize \in Nat
  BY RecorderAssumption DEF RecordSize
<1>2. n * RecordSize \in Nat /\ n + 1 \in Nat
  BY <1>1, SMT
<1>3. QED
  BY <1>1, <1>2, Division DEF AddressOf, Succ, Uint, RecordSize

\* One pointer on is one record on, unless that address wraps around.
LEMMA NextAddress ==
    ASSUME NEW n \in Uint, AddressOf(n) + RecordSize < UINT32
    PROVE  AddressOf(Succ(n)) = AddressOf(n) + RecordSize
<1> DEFINE w == UINT32
           R == RecordSize
           a == AddressOf(n)
<1>1. w \in Nat \ {0} /\ R \in Nat /\ n \in Nat
  BY RecorderAssumption DEF RecordSize, Uint
<1>2. n * R \in Nat /\ n + 1 \in Nat
  BY <1>1, SMT
<1>3. PICK q \in Nat : n * R = q * w + a
  BY <1>1, <1>2, Division DEF AddressOf, RecordSize
<1>4. PICK t \in Nat : n + 1 = t * w + Succ(n)
  BY <1>1, <1>2, Division DEF Succ
<1>5. a \in Nat /\ Succ(n) \in Nat
  BY <1>1, UintClosed DEF Uint
<1>6. Succ(n) * R = (q - t * R) * w + (a + R)
  <2> HIDE DEF w, R, a
  <2>1. Succ(n) * R = (n + 1) * R - (t * w) * R
    BY <1>1, <1>4, <1>5, SMT
  <2>2. (n + 1) * R = q * w + a + R
    BY <1>1, <1>3, <1>5, SMT
  <2>3. (q - t * R) * w = q * w - (t * w) * R
    BY <1>1, SMT
  <2>4. QED
    BY <1>1, <1>5, <2>1, <2>2, <2>3, SMT
<1>7. a + R \in 0 .. w - 1
  BY <1>1, <1>5
<1>8. q - t * R \in Int
  BY <1>1, SMT
<1>9. ((q - t * R) * w + (a + R)) % w = a + R
  BY <1>1, <1>7, <1>8, Remainder
<1>10. QED
  BY <1>6, <1>9 DEF AddressOf, RecordSize

\* The address of the first record of a partition.
LEMMA FirstAddress == AddressOf(0) = 0
BY RecorderAssumption DEF AddressOf

\* Counting on modulo the width.
LEMMA NextCounter ==
    ASSUME NEW c \in Uint, NEW k \in Nat \ {0}
    PROVE  Succ((c + k - 1) % UINT32) = (c + k) % UINT32
<1> DEFINE w == UINT32
           x == c + k - 1
<1>1. w \in Nat \ {0} /\ x \in Nat
  BY RecorderAssumption DEF Uint
<1>2. PICK q \in Nat : x = q * w + (x % w)
  BY <1>1, Division
<1>3. x % w \in Nat /\ (x % w) + 1 \in Nat
  <2>1. x % w \in 0 .. w - 1
    BY <1>1, Division
  <2>2. QED
    BY <1>1, <2>1
<1>4. PICK t \in Nat : (x % w) + 1 = t * w + Succ(x % w)
  BY <1>1, <1>3, Division DEF Succ
<1>5. Succ(x % w) \in 0 .. w - 1
  BY <1>3, UintClosed DEF Uint
<1>6. x + 1 = (q + t) * w + Succ(x % w)
  <2> HIDE DEF w, x
  <2>1. (q + t) * w = q * w + t * w
    BY <1>1, SMT
  <2>2. QED
    BY <1>1, <1>2, <1>3, <1>4, <1>5, <2>1, SMT
<1>7. (x + 1) % w = Succ(x % w)
  <2>1. q + t \in Int
    OBVIOUS
  <2> HIDE DEF w, x
  <2>2. QED
    BY <1>1, <1>5, <1>6, <2>1, Remainder
<1>8. x + 1 = c + k
  BY DEF Uint
<1>9. QED
  BY <1>7, <1>8

-----------------------------------------------------------------------------
(* One record. *)

\* Appending a record that fits and goes on where the last one ended.
LEMMA Appended ==
    ASSUME NEW before \in Seq(Entry), Fit(before), Readable(before),
           NEW e \in Entry,
           Joins(before, e.partition, e.address, e.counter),
           e.address + RecordSize <= Size(e.partition)
    PROVE  /\ Append(before, e) \in Seq(Entry)
           /\ Fit(Append(before, e))
           /\ Readable(Append(before, e))
           /\ Joins(Append(before, e), e.partition, e.address + RecordSize, Succ(e.counter))
<1> DEFINE n == Len(before)
           after == Append(before, e)
<1>1. /\ after \in Seq(Entry)
      /\ n \in Nat
      /\ Len(after) = n + 1
      /\ after[n + 1] = e
      /\ \A k \in 1 .. n : after[k] = before[k]
      /\ DOMAIN after = 1 .. n + 1
      /\ DOMAIN before = 1 .. n
  OBVIOUS
<1>2. RecordSize \in Nat /\ UINT32 \in Nat \ {0}
  BY RecorderAssumption DEF RecordSize
<1>3. Fit(after)
  BY <1>1 DEF Fit
<1>4. Joins(after, e.partition, e.address + RecordSize, Succ(e.counter))
  BY <1>1 DEF Joins
<1>5. Readable(after)
  <2>1. CASE n = 0
    <3>1. (e.counter + 1 - 1) % UINT32 = e.counter
      <4>1. e.counter \in 0 .. UINT32 - 1
        BY DEF Entry, Uint
      <4>2. \A r \in 0 .. UINT32 - 1 : (0 * UINT32 + r) % UINT32 = r
        BY <1>2, Remainder
      <4>3. e.counter + 1 - 1 = 0 * UINT32 + e.counter
        BY <1>2, <4>1
      <4>4. QED
        BY <4>1, <4>2, <4>3
    <3>2. QED
      BY <1>1, <1>2, <2>1, <3>1 DEF Readable, Entry, Uint
  <2>2. CASE n # 0
    <3>1. before # << >> /\ n \in 1 .. n /\ before[1] \in Entry /\ before[n] \in Entry
      BY <1>1, <2>2
    <3>2. /\ before[n].partition = e.partition
          /\ before[n].address + RecordSize = e.address
          /\ Succ(before[n].counter) = e.counter
      BY <3>1 DEF Joins
    <3>3. /\ before[n].partition = before[1].partition
          /\ before[n].address = before[1].address + (n - 1) * RecordSize
          /\ before[n].counter = (before[1].counter + n - 1) % UINT32
      BY <1>1, <3>1 DEF Readable
    <3>4. e.address = before[1].address + ((n + 1) - 1) * RecordSize
      <4>1. (n - 1) * RecordSize + RecordSize = ((n + 1) - 1) * RecordSize
        BY <1>1, <1>2, SMT
      <4>2. before[1].address \in Nat /\ (n - 1) * RecordSize \in Nat
        BY <1>1, <1>2, <2>2, <3>1, SMT DEF Entry, Uint
      <4>3. QED
        BY <1>2, <3>2, <3>3, <4>1, <4>2
    <3>5. e.counter = (before[1].counter + (n + 1) - 1) % UINT32
      <4>1. before[1].counter \in Uint /\ n \in Nat \ {0}
        BY <1>1, <2>2, <3>1 DEF Entry
      <4>2. Succ((before[1].counter + n - 1) % UINT32) = (before[1].counter + n) % UINT32
        BY <4>1, NextCounter
      <4>3. before[1].counter + (n + 1) - 1 = before[1].counter + n
        BY <4>1 DEF Uint
      <4>4. QED
        BY <3>2, <3>3, <4>2, <4>3
    <3>6. after[1] = before[1] /\ after[n + 1] = e
      BY <1>1, <3>1
    <3>7. ASSUME NEW k \in DOMAIN after
          PROVE  /\ after[k].partition = after[1].partition
                 /\ after[k].address = after[1].address + (k - 1) * RecordSize
                 /\ after[k].counter = (after[1].counter + k - 1) % UINT32
      <4>1. CASE k = n + 1
        BY <3>2, <3>3, <3>4, <3>5, <3>6, <4>1
      <4>2. CASE k # n + 1
        <5>1. k \in DOMAIN before /\ after[k] = before[k]
          BY <1>1, <3>7, <4>2
        <5>2. QED
          BY <3>6, <5>1 DEF Readable
      <4>3. QED
        BY <4>1, <4>2
    <3>8. QED
      BY <3>7 DEF Readable
  <2>3. QED
    BY <2>1, <2>2
<1>6. QED
  BY <1>1, <1>3, <1>4, <1>5

\* APP_AOCS_DR_record_data_ keeps the invariant, at a pointer where a record fits and
\* that goes on with the given records.
LEMMA RecordAtKeeps ==
    ASSUME TypeOK, ShowsPointer,
           NEW pointer \in Uint, NEW before \in Seq(Entry),
           Fit(before), Readable(before),
           Joins(before, write_partition_id, AddressOf(pointer), counter),
           AddressOf(pointer) + RecordSize <= Size(write_partition_id),
           RecordAt(pointer, before)
    PROVE  IInv'
<1>1. RecordSize \in Nat /\ UINT32 \in Nat \ {0} /\ pointer \in Nat /\ counter \in Uint
  BY RecorderAssumption DEF RecordSize, Uint, TypeOK
<1>2. AddressOf(pointer) \in Uint /\ Succ(pointer) \in Uint /\ Succ(counter) \in Uint
  BY <1>1, UintClosed DEF Uint
<1>3. /\ Size(write_partition_id) \in Nat
      /\ Size(write_partition_id) + RecordSize < UINT32
  BY RecorderAssumption, PartitionAssumption DEF TypeOK, Size, RecordSize
<1>4. AddressOf(Succ(pointer)) = AddressOf(pointer) + RecordSize
  BY <1>1, <1>2, <1>3, NextAddress DEF Uint
<1>5. PICK stored \in BOOLEAN :
        lap' = Append(before, [partition |-> write_partition_id, address |-> AddressOf(pointer),
                               counter |-> counter, stored |-> stored])
  BY DEF RecordAt
<1> DEFINE e == [partition |-> write_partition_id, address |-> AddressOf(pointer),
                 counter |-> counter, stored |-> stored]
<1>6. e \in Entry
  BY <1>1, <1>2 DEF Entry, TypeOK
<1>7. /\ lap' \in Seq(Entry)
      /\ Fit(lap')
      /\ Readable(lap')
      /\ Joins(lap', write_partition_id, AddressOf(pointer) + RecordSize, Succ(counter))
  BY <1>5, <1>6, Appended
<1>8. /\ counter' = Succ(counter)
      /\ write_pointer' = Succ(pointer)
      /\ UNCHANGED <<record_permission, overwrite_mode, write_partition_id, write_end_address, reading>>
  BY DEF RecordAt
<1>9. TypeOK'
  BY <1>2, <1>7, <1>8 DEF TypeOK, Entry, reading
<1>10. Reachable'
  BY <1>1, <1>2, <1>3, <1>4, <1>8 DEF Reachable, AddressOf, Uint
<1>11. LapInv'
  BY <1>4, <1>7, <1>8 DEF LapInv, AddressOf, Joins, Fit, Readable
<1>12. ShowsPointer'
  BY <1>8 DEF ShowsPointer, reading, AddressOf
<1>13. QED
  BY <1>9, <1>10, <1>11, <1>12 DEF IInv

-----------------------------------------------------------------------------
(* The invariant is inductive. *)

\* Sizes of the partitions, and what the invariant says of the one in use.
LEMMA WriteBounds ==
    ASSUME IInv
    PROVE  /\ RecordSize \in Nat \ {0} /\ UINT32 \in Nat \ {0}
           /\ \A p \in DrPartition : Size(p) \in Nat /\ RecordSize <= Size(p)
                                     /\ Size(p) + RecordSize < UINT32
           /\ write_pointer \in Uint /\ read_pointer \in Uint
           /\ AddressOf(write_pointer) \in Uint
           /\ AddressOf(Succ(write_pointer)) = AddressOf(write_pointer) + RecordSize
<1>1. /\ RecordSize \in Nat \ {0} /\ UINT32 \in Nat \ {0}
      /\ \A p \in DrPartition : Size(p) \in Nat /\ RecordSize <= Size(p)
                                /\ Size(p) + RecordSize < UINT32
  BY RecorderAssumption, PartitionAssumption DEF RecordSize, Size
<1>2. write_pointer \in Uint /\ read_pointer \in Uint
  BY DEF IInv, TypeOK
<1>3. AddressOf(write_pointer) \in Uint
  BY <1>2, UintClosed DEF Uint
<1>4. AddressOf(Succ(write_pointer)) = AddressOf(write_pointer) + RecordSize
  BY <1>2, NextAddress DEF IInv, Reachable
<1>5. QED
  BY <1>1, <1>2, <1>3, <1>4

\* The empty lap: nothing to join, nothing that could not fit.
LEMMA EmptyLap ==
    /\ << >> \in Seq(Entry)
    /\ Fit(<< >>)
    /\ Readable(<< >>)
    /\ \A p, a, c : Joins(<< >>, p, a, c)
BY DEF Fit, Readable, Joins

LEMMA InitInv == Init => IInv
<1> SUFFICES ASSUME Init PROVE IInv
  OBVIOUS
<1>1. /\ RecordSize \in Nat \ {0} /\ UINT32 \in Nat \ {0} /\ DefaultPartition \in DrPartition
      /\ Size(DefaultPartition) \in Nat /\ RecordSize <= Size(DefaultPartition)
      /\ Size(DefaultPartition) + RecordSize < UINT32
  BY RecorderAssumption, PartitionAssumption DEF RecordSize, Size
<1>2. 0 \in Uint
  BY <1>1 DEF Uint
<1>3. TypeOK
  BY <1>1, <1>2, EmptyLap DEF Init, TypeOK, Entry
<1>4. Reachable
  BY <1>1, FirstAddress DEF Init, Reachable
<1>5. LapInv
  BY EmptyLap DEF Init, LapInv
<1>6. ShowsPointer
  BY DEF Init, ShowsPointer
<1>7. QED
  BY <1>3, <1>4, <1>5, <1>6 DEF IInv

LEMMA RecordKeeps ==
    ASSUME IInv, Record PROVE IInv'
<1>1. AddressOf(write_pointer) + RecordSize <= Size(write_partition_id)
  <2>1. write_end_address = Size(write_partition_id) /\ write_partition_id \in DrPartition
    BY DEF IInv, TypeOK
  <2>2. ~(AddressOf(write_pointer) + RecordSize > Size(write_partition_id))
    BY <2>1, WriteBounds DEF Record, NoRoom
  <2>3. /\ AddressOf(write_pointer) \in Int /\ RecordSize \in Int
        /\ Size(write_partition_id) \in Int
    BY <2>1, WriteBounds DEF Uint
  <2>4. QED
    BY <2>2, <2>3
<1>2. write_pointer \in Uint /\ lap \in Seq(Entry)
  BY DEF IInv, TypeOK, Entry
<1>3. QED
  BY <1>1, <1>2, RecordAtKeeps DEF Record, IInv, LapInv

LEMMA RewindKeeps ==
    ASSUME IInv, Rewind PROVE IInv'
<1>1. AddressOf(0) + RecordSize <= Size(write_partition_id)
  BY WriteBounds, FirstAddress DEF IInv, TypeOK
<1>2. 0 \in Uint
  BY WriteBounds DEF Uint
<1>3. QED
  BY <1>1, <1>2, EmptyLap, RecordAtKeeps DEF Rewind, IInv

\* A new pointer was compared with the end of the old partition, and that is enough.
LEMMA SetEnableKeeps ==
    ASSUME IInv, NEW overwrite \in BOOLEAN, NEW p \in PartitionId, NEW pointer \in PointerParams,
           SetEnable(overwrite, p, pointer)
    PROVE  IInv'
<1>1. pointer \in Uint /\ p \in DrPartition
  BY RecorderAssumption DEF SetEnable, Accepts, Uint
<1>2. AddressOf(pointer) + RecordSize < UINT32
  <2>1. AddressOf(pointer) \in Uint
    BY <1>1, UintClosed DEF Uint
  <2>2. AddressOf(pointer) < Size(write_partition_id)
    BY DEF SetEnable, Accepts, IInv, TypeOK
  <2>3. QED
    BY <2>1, <2>2, WriteBounds DEF IInv, TypeOK, Uint
<1>3. TypeOK'
  BY <1>1, EmptyLap DEF IInv, TypeOK, SetEnable, Entry, reading
<1>4. Reachable'
  BY <1>2 DEF Reachable, SetEnable, AddressOf
<1>5. LapInv'
  BY EmptyLap DEF LapInv, SetEnable, Joins, Fit, Readable
<1>6. ShowsPointer'
  BY DEF IInv, ShowsPointer, SetEnable, reading, AddressOf
<1>7. QED
  BY <1>3, <1>4, <1>5, <1>6 DEF IInv

\* Reading leaves the recording alone; what it shows lies in the partition of the pointer.
LEMMA ReadKeeps ==
    ASSUME IInv, NEW p \in DrPartition, NEW pointer \in Uint,
           ReadAt(p, pointer), read_partition_id' = p, read_end_address' = Size(p)
    PROVE  IInv'
<1>1. AddressOf(pointer) \in Uint
  BY UintClosed DEF Uint
<1>2. TypeOK'
  BY <1>1 DEF IInv, TypeOK, ReadAt, writing, Place
<1>3. Reachable'
  BY DEF IInv, Reachable, ReadAt, writing, AddressOf
<1>4. LapInv'
  BY DEF IInv, LapInv, ReadAt, writing, Joins, Fit, Readable, AddressOf
<1>5. ShowsPointer'
  <2>1. MaySucceed(p, AddressOf(pointer)) => AddressOf(pointer) + RecordSize <= Size(p)
    <3>1. Size(p) \in Nat /\ RecordSize \in Nat
      BY WriteBounds
    <3>2. QED
      BY <1>1, <3>1 DEF MaySucceed, APP_NVM_PARTITION_check, Size, RecordSize, Uint
  <2>2. QED
    BY <2>1 DEF ShowsPointer, ReadAt, AddressOf
<1>6. QED
  BY <1>2, <1>3, <1>4, <1>5 DEF IInv

LEMMA StepInv == IInv /\ [Next]_vars => IInv'
<1> SUFFICES ASSUME IInv, [Next]_vars PROVE IInv'
  OBVIOUS
<1>1. CASE Record
  BY <1>1, RecordKeeps
<1>2. CASE Rewind
  BY <1>2, RewindKeeps
<1>3. CASE Stop
  <2>1. TypeOK'
    BY <1>3 DEF IInv, TypeOK, Stop, reading
  <2>2. Reachable' /\ LapInv' /\ ShowsPointer'
    BY <1>3 DEF IInv, Stop, reading, Reachable, LapInv, ShowsPointer, Joins, Fit, Readable, AddressOf
  <2>3. QED
    BY <2>1, <2>2 DEF IInv
<1>4. CASE \E overwrite \in BOOLEAN : SetDisable(overwrite)
  <2>1. PICK overwrite \in BOOLEAN : SetDisable(overwrite)
    BY <1>4
  <2>2. 0 \in Uint
    BY WriteBounds DEF Uint
  <2>3. TypeOK'
    BY <2>1, <2>2, EmptyLap DEF IInv, TypeOK, SetDisable, reading, Entry
  <2>4. Reachable' /\ ShowsPointer'
    BY <2>1 DEF IInv, SetDisable, reading, Reachable, ShowsPointer, AddressOf
  <2>5. LapInv'
    BY <2>1, EmptyLap DEF SetDisable, LapInv, Joins, Fit, Readable
  <2>6. QED
    BY <2>3, <2>4, <2>5 DEF IInv
<1>5. CASE \E overwrite \in BOOLEAN, p \in PartitionId, pointer \in PointerParams :
             SetEnable(overwrite, p, pointer)
  BY <1>5, SetEnableKeeps
<1>6. CASE \E overwrite \in BOOLEAN, p \in PartitionId, pointer \in PointerParams :
             SetEnableRefused(overwrite, p, pointer)
  <2>1. PICK overwrite \in BOOLEAN, p \in PartitionId, pointer \in PointerParams :
          SetEnableRefused(overwrite, p, pointer)
    BY <1>6
  <2>2. TypeOK'
    BY <2>1 DEF IInv, TypeOK, SetEnableRefused, reading
  <2>3. Reachable' /\ LapInv' /\ ShowsPointer'
    BY <2>1 DEF IInv, SetEnableRefused, reading, Reachable, LapInv, ShowsPointer,
                Joins, Fit, Readable, AddressOf
  <2>4. QED
    BY <2>2, <2>3 DEF IInv
<1>7. CASE \E p \in PartitionId, pointer \in PointerParams : ReadManual(p, pointer)
  <2>1. PICK p \in PartitionId, pointer \in PointerParams : ReadManual(p, pointer)
    BY <1>7
  <2>2. p \in DrPartition /\ pointer \in Uint
    BY <2>1, RecorderAssumption DEF ReadManual, ReadAccepts, Uint
  <2>3. QED
    BY <2>1, <2>2, ReadKeeps DEF ReadManual
<1>8. CASE ReadContinuous
  <2>1. Succ(read_pointer) \in Uint
    BY WriteBounds, UintClosed DEF Uint
  <2>2. /\ read_partition_id \in DrPartition
        /\ read_partition_id' = read_partition_id
        /\ read_end_address' = Size(read_partition_id)
    BY <1>8 DEF ReadContinuous, IInv, TypeOK
  <2>3. QED
    BY <1>8, <2>1, <2>2, ReadKeeps DEF ReadContinuous
<1>9. CASE UNCHANGED vars
  <2>1. TypeOK'
    BY <1>9 DEF IInv, TypeOK, vars, writing, reading
  <2>2. Reachable' /\ LapInv' /\ ShowsPointer'
    BY <1>9 DEF IInv, vars, writing, reading, Reachable, LapInv, ShowsPointer,
                Joins, Fit, Readable, AddressOf
  <2>3. QED
    BY <2>1, <2>2 DEF IInv
<1>10. QED
  BY <1>1, <1>2, <1>3, <1>4, <1>5, <1>6, <1>7, <1>8, <1>9
     DEF Next, APP_AOCS_DR_exec_, Cmd_APP_AOCS_DR_SET_WRITE, Cmd_APP_AOCS_DR_READ

LEMMA Invariance == Spec => []IInv
BY InitInv, StepInv, PTL DEF Spec

-----------------------------------------------------------------------------
(* The theorems. *)

\* Every variable keeps its type, and the ends belong to the partitions in use.
THEOREM TypeCorrect == Spec => []TypeOK
<1>1. IInv => TypeOK
  BY DEF IInv
<1>2. QED
  BY <1>1, Invariance, PTL

\* Whatever is commanded, no record is written beyond its partition.
THEOREM RecordsAlwaysFit == Spec => []RecordsFit
<1>1. IInv => RecordsFit
  BY DEF IInv, LapInv, Fit, RecordsFit, RecordSize
<1>2. QED
  BY <1>1, Invariance, PTL

\* The records of a lap lie one after the other, with counters that follow each other.
THEOREM LapsReadable == Spec => []LapIsReadable
<1>1. IInv => LapIsReadable
  BY DEF IInv, LapInv, Readable, LapIsReadable, RecordSize
<1>2. QED
  BY <1>1, Invariance, PTL

\* Continuous reads that show data show one record after the other.
THEOREM ReadsInOrder == Spec => ReadsFollow
<1>1. ASSUME IInv, ReadContinuous, shown # Garbage, shown' # Garbage
      PROVE  shown' = [shown EXCEPT !.address = @ + APP_AOCS_DR_ALGORITHM_TLM_SIZE]
  <2>1. shown \in Place /\ read_partition_id \in DrPartition
    BY <1>1 DEF IInv, TypeOK
  <2>2. /\ shown.partition = read_partition_id
        /\ shown.address = AddressOf(read_pointer)
        /\ shown.address + RecordSize <= Size(read_partition_id)
    BY <1>1 DEF IInv, ShowsPointer
  <2>3. shown' = [partition |-> read_partition_id, address |-> AddressOf(Succ(read_pointer))]
    BY <1>1 DEF ReadContinuous, ReadAt
  <2>4. AddressOf(read_pointer) + RecordSize < UINT32
    BY <1>1, <2>1, <2>2, WriteBounds DEF Place, Uint
  <2>5. AddressOf(Succ(read_pointer)) = AddressOf(read_pointer) + RecordSize
    BY <1>1, <2>4, WriteBounds, NextAddress
  <2>6. QED
    BY <2>1, <2>2, <2>3, <2>5 DEF Place, RecordSize
<1>2. IInv /\ [Next]_vars =>
        [ReadContinuous /\ shown # Garbage /\ shown' # Garbage =>
           shown' = [shown EXCEPT !.address = @ + APP_AOCS_DR_ALGORITHM_TLM_SIZE]]_vars
  BY <1>1
<1>3. QED
  BY <1>2, Invariance, PTL DEF Spec, ReadsFollow
=============================================================================
