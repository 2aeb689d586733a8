------------------------ MODULE NvmParametersProofs ------------------------
(***************************************************************************)
(* Theorems about the non-volatile memory and the parameters in it, for    *)
(* every number and size of the devices, every table of partitions and of  *)
(* parameters, any failures of accesses and any resets.                    *)
(***************************************************************************)
EXTENDS NvmParameters, SequenceTheorems, TLAPS

Content == [LocalAddress -> Byte]
Memory == [Device -> Content]

\* The devices f as one row of bytes.
RowOf(f) == [g \in GlobalAddress |-> f[DeviceOf(g)][LocalOf(g)]]

-----------------------------------------------------------------------------
(* Lemmas about bytes. *)

\* A sequence of bytes is a function on its places, and its first and last bytes are bytes.
LEMMA ByteSequence ==
    ASSUME NEW B, NEW bytes \in Seq(B)
    PROVE  /\ Len(bytes) \in Nat
           /\ DOMAIN bytes = 1 .. Len(bytes)
           /\ bytes \in [1 .. Len(bytes) -> B]
BY LenProperties

LEMMA FirstBytes ==
    ASSUME NEW B, NEW bytes \in Seq(B), NEW n \in 0 .. Len(bytes)
    PROVE  /\ First(bytes, n) \in Seq(B)
           /\ Len(First(bytes, n)) = n
           /\ \A k \in 0 .. n : First(First(bytes, n), k) = First(bytes, k)
<1>1. \A j \in 1 .. n : bytes[j] \in B
  BY ByteSequence
<1>2. n \in Nat
  BY ByteSequence
<1>3. First(bytes, n) \in [1 .. n -> B]
  BY <1>1 DEF First
<1>4. First(bytes, n) \in Seq(B) /\ Len(First(bytes, n)) = n
  BY <1>1, <1>2, IsASeq DEF First
<1>5. ASSUME NEW k \in 0 .. n
      PROVE  First(First(bytes, n), k) = First(bytes, k)
  BY <1>2, <1>3 DEF First
<1> QED
  BY <1>4, <1>5

LEMMA RestBytes ==
    ASSUME NEW B, NEW bytes \in Seq(B), NEW n \in 0 .. Len(bytes)
    PROVE  /\ Rest(bytes, n) \in Seq(B)
           /\ Len(Rest(bytes, n)) = Len(bytes) - n
<1>1. \A j \in 1 .. Len(bytes) - n : bytes[n + j] \in B
  BY ByteSequence
<1>2. Len(bytes) - n \in Nat
  BY ByteSequence
<1> QED
  BY <1>1, <1>2, IsASeq DEF Rest

\* All the bytes are the first bytes of a sequence, up to its end.
LEMMA FirstAll ==
    ASSUME NEW B, NEW bytes \in Seq(B)
    PROVE  First(bytes, Len(bytes)) = bytes
BY ByteSequence DEF First

\* Putting the bytes that are left behind the first ones is putting them all at once.
LEMMA PutInTwo ==
    ASSUME NEW B, NEW bytes \in Seq(B), NEW n \in 0 .. Len(bytes), NEW k \in 0 .. Len(bytes) - n,
           NEW m, NEW a \in Int, DOMAIN m \subseteq Int
    PROVE  Put(Put(m, a, First(bytes, n)), a + n, First(Rest(bytes, n), k))
             = Put(m, a, First(bytes, n + k))
<1> DEFINE once == Put(m, a, First(bytes, n))
           twice == Put(once, a + n, First(Rest(bytes, n), k))
<1>1. /\ Len(bytes) \in Nat /\ n \in Nat /\ k \in Nat
      /\ DOMAIN First(bytes, n) = 1 .. n
      /\ DOMAIN First(bytes, n + k) = 1 .. n + k
      /\ DOMAIN First(Rest(bytes, n), k) = 1 .. k
  BY ByteSequence DEF First
<1>2. /\ DOMAIN once = DOMAIN m
      /\ DOMAIN twice = DOMAIN m
  BY DEF Put
<1>3. ASSUME NEW h \in DOMAIN m
      PROVE  twice[h] = Put(m, a, First(bytes, n + k))[h]
  <2>1. h \in Int
    OBVIOUS
  <2>2. CASE h - a + 1 \in 1 .. n
    <3>1. ~(h - (a + n) + 1 \in 1 .. k)
      BY <1>1, <2>1, <2>2
    <3>2. twice[h] = once[h]
      BY <1>1, <1>2, <3>1 DEF Put
    <3>3. once[h] = bytes[h - a + 1]
      BY <1>1, <2>2 DEF Put, First
    <3>4. Put(m, a, First(bytes, n + k))[h] = bytes[h - a + 1]
      BY <1>1, <2>2 DEF Put, First
    <3> QED
      BY <3>2, <3>3, <3>4
  <2>3. CASE h - (a + n) + 1 \in 1 .. k
    <3>1. twice[h] = First(Rest(bytes, n), k)[h - (a + n) + 1]
      BY <1>1, <1>2, <2>3 DEF Put
    <3>2. /\ h - (a + n) + 1 \in 1 .. Len(bytes) - n
          /\ n + (h - (a + n) + 1) = h - a + 1
          /\ h - a + 1 \in 1 .. n + k
      BY <1>1, <2>1, <2>3
    <3>3. First(Rest(bytes, n), k)[h - (a + n) + 1] = bytes[h - a + 1]
      BY <2>3, <3>2 DEF First, Rest
    <3>4. Put(m, a, First(bytes, n + k))[h] = bytes[h - a + 1]
      BY <1>1, <3>2 DEF Put, First
    <3> QED
      BY <3>1, <3>3, <3>4
  <2>4. CASE ~(h - a + 1 \in 1 .. n) /\ ~(h - (a + n) + 1 \in 1 .. k)
    <3>1. ~(h - a + 1 \in 1 .. n + k)
      BY <1>1, <2>1, <2>4
    <3>2. twice[h] = once[h] /\ once[h] = m[h]
      BY <1>1, <1>2, <2>4 DEF Put
    <3> QED
      BY <1>1, <3>1, <3>2 DEF Put
  <2> QED
    BY <2>2, <2>3, <2>4
<1>4. /\ twice = [h \in DOMAIN m |-> twice[h]]
      /\ Put(m, a, First(bytes, n + k)) = [h \in DOMAIN m |-> Put(m, a, First(bytes, n + k))[h]]
  BY <1>2 DEF Put
<1> QED
  BY <1>3, <1>4

\* Putting nothing changes nothing.
LEMMA PutNothing ==
    ASSUME NEW X, NEW Y, NEW m \in [X -> Y], NEW a, NEW bytes
    PROVE  Put(m, a, First(bytes, 0)) = m
BY DEF Put, First

\* A memory with bytes put into it has the addresses it had.
LEMMA PutType ==
    ASSUME NEW X \in SUBSET Int, NEW Y, NEW m \in [X -> Y], NEW a \in Int, NEW bytes \in Seq(Y)
    PROVE  Put(m, a, bytes) \in [X -> Y]
<1>1. \A j \in DOMAIN bytes : bytes[j] \in Y
  BY ByteSequence
<1> QED
  BY <1>1 DEF Put

-----------------------------------------------------------------------------
(* Lemmas about addresses. *)

\* The sizes are positive numbers.
LEMMA Sizes ==
    /\ FM25V10_STOP_ADDRESS \in Nat \ {0}
    /\ FM25V10_IDX_MAX \in Nat \ {0}
    /\ FM25V10_MAX_LENGTH \in Nat
    /\ FM25V10_MAX_LENGTH <= FM25V10_STOP_ADDRESS
    /\ APP_NVM_MANAGER_STOP_ADDRESS \in Nat
BY StorageAssumption DEF APP_NVM_MANAGER_STOP_ADDRESS

\* Whole devices before another one.
LEMMA Multiples ==
    ASSUME NEW d \in Nat, NEW e \in Nat, NEW S \in Nat \ {0}
    PROVE  /\ d < e => d * S + S <= e * S
           /\ d * S \in Nat
           /\ (d + 1) * S = d * S + S
OBVIOUS

\* A number in terms of devices and an address in one, in one way only.
LEMMA Division ==
    ASSUME NEW g \in Nat
    PROVE  /\ DeviceOf(g) \in Nat
           /\ LocalOf(g) \in LocalAddress
           /\ g = DeviceOf(g) * FM25V10_STOP_ADDRESS + LocalOf(g)
<1>1. DeviceOf(g) \in Nat
  BY Sizes DEF DeviceOf
<1>2. /\ (g \div FM25V10_STOP_ADDRESS) * FM25V10_STOP_ADDRESS <= g
      /\ g < (g \div FM25V10_STOP_ADDRESS) * FM25V10_STOP_ADDRESS + FM25V10_STOP_ADDRESS
  BY Sizes
<1>3. DeviceOf(g) * FM25V10_STOP_ADDRESS \in Nat
  BY <1>1, Sizes, Multiples
<1> QED
  BY <1>1, <1>2, <1>3, Sizes DEF DeviceOf, LocalOf, LocalAddress

LEMMA OneWay ==
    ASSUME NEW d \in Nat, NEW a \in LocalAddress
    PROVE  /\ d * FM25V10_STOP_ADDRESS + a \in Nat
           /\ DeviceOf(d * FM25V10_STOP_ADDRESS + a) = d
           /\ LocalOf(d * FM25V10_STOP_ADDRESS + a) = a
<1> DEFINE S == FM25V10_STOP_ADDRESS
           g == d * S + a
           e == DeviceOf(g)
<1>1. d * S \in Nat /\ a \in Nat /\ a < S /\ g \in Nat
  BY Sizes, Multiples DEF LocalAddress
<1>2. e \in Nat /\ LocalOf(g) \in LocalAddress /\ g = e * S + LocalOf(g)
  BY <1>1, Division
<1>3. e * S \in Nat /\ LocalOf(g) \in Nat /\ LocalOf(g) < S
  BY <1>2, Sizes, Multiples DEF LocalAddress
<1>4. ~(d < e)
  BY <1>1, <1>2, <1>3, Sizes, Multiples
<1>5. ~(e < d)
  BY <1>1, <1>2, <1>3, Sizes, Multiples
<1>6. d = e
  BY <1>2, <1>4, <1>5
<1> QED
  BY <1>1, <1>2, <1>3, <1>6

\* The row has an address for every address of every device, and no other.
LEMMA RowAddress ==
    ASSUME NEW g \in Nat
    PROVE  /\ g \in GlobalAddress <=> g < APP_NVM_MANAGER_STOP_ADDRESS
           /\ g \in GlobalAddress <=> DeviceOf(g) \in Device
<1> DEFINE S == FM25V10_STOP_ADDRESS
           d == DeviceOf(g)
<1>1. d \in Nat /\ LocalOf(g) \in Nat /\ LocalOf(g) < S /\ g = d * S + LocalOf(g)
  BY Division, Sizes DEF LocalAddress
<1>2. g \in GlobalAddress <=> g < APP_NVM_MANAGER_STOP_ADDRESS
  BY Sizes DEF GlobalAddress
<1>3. APP_NVM_MANAGER_STOP_ADDRESS = FM25V10_IDX_MAX * S
  BY DEF APP_NVM_MANAGER_STOP_ADDRESS
<1>4. ASSUME d < FM25V10_IDX_MAX
      PROVE  g < FM25V10_IDX_MAX * S
  <2>1. d * S + S <= FM25V10_IDX_MAX * S /\ d * S \in Nat /\ FM25V10_IDX_MAX * S \in Nat
    BY <1>1, <1>4, Sizes, Multiples
  <2> QED
    BY <1>1, <2>1, Sizes
<1>5. ASSUME ~(d < FM25V10_IDX_MAX)
      PROVE  ~(g < FM25V10_IDX_MAX * S)
  <2>1. FM25V10_IDX_MAX = d \/ FM25V10_IDX_MAX < d
    BY <1>1, <1>5, Sizes
  <2>2. FM25V10_IDX_MAX * S <= d * S
    BY <1>1, <2>1, Sizes, Multiples
  <2>3. d * S \in Nat /\ FM25V10_IDX_MAX * S \in Nat
    BY <1>1, Sizes, Multiples
  <2> QED
    BY <1>1, <2>2, <2>3
<1>6. d \in Device <=> d < FM25V10_IDX_MAX
  BY <1>1, Sizes DEF Device
<1> QED
  BY <1>2, <1>3, <1>4, <1>5, <1>6

\* The row is a row of bytes.
LEMMA RowType ==
    ASSUME NEW f \in Memory
    PROVE  /\ RowOf(f) \in [GlobalAddress -> Byte]
           /\ GlobalAddress \subseteq Nat
           /\ LocalAddress \subseteq Nat
<1>1. GlobalAddress \subseteq Nat /\ LocalAddress \subseteq Nat
  BY Sizes DEF GlobalAddress, LocalAddress
<1>2. ASSUME NEW g \in GlobalAddress
      PROVE  f[DeviceOf(g)][LocalOf(g)] \in Byte
  BY <1>1, <1>2, Division, RowAddress DEF Memory, Content
<1> QED
  BY <1>1, <1>2 DEF RowOf

\* An address of another device is none of those that are written.
LEMMA Apart ==
    ASSUME NEW x \in Nat, NEW y \in Nat, NEW a \in Nat, NEW l \in Nat, NEW n \in Nat, NEW S \in Nat,
           l < S, a + n <= S, y + S <= x \/ x + S <= y
    PROVE  ~((y + l) - (x + a) + 1 \in 1 .. n)
OBVIOUS

\* Bytes put into one device are put into the row.
LEMMA PutInDevice ==
    ASSUME NEW f \in Memory, NEW idx \in Device, NEW a \in Nat, NEW bytes \in Seq(Byte),
           a + Len(bytes) <= FM25V10_STOP_ADDRESS
    PROVE  LET g == [f EXCEPT ![idx] = Put(f[idx], a, bytes)]
           IN  /\ g \in Memory
               /\ RowOf(g) = Put(RowOf(f), idx * FM25V10_STOP_ADDRESS + a, bytes)
<1> DEFINE S == FM25V10_STOP_ADDRESS
           g == [f EXCEPT ![idx] = Put(f[idx], a, bytes)]
           at == idx * S + a
<1>1. LocalAddress \subseteq Int /\ GlobalAddress \subseteq Nat /\ idx \in Nat
  BY RowType, Sizes DEF Device
<1>2. f[idx] \in Content
  BY DEF Memory
<1>3. Put(f[idx], a, bytes) \in Content
  BY <1>1, <1>2, PutType DEF Content
<1>4. g \in Memory
  BY <1>3 DEF Memory
<1>5. DOMAIN bytes = 1 .. Len(bytes) /\ Len(bytes) \in Nat
  BY ByteSequence
<1>6. idx * S \in Nat /\ S \in Nat
  BY <1>1, Sizes, Multiples
<1>7. ASSUME NEW h \in GlobalAddress
      PROVE  g[DeviceOf(h)][LocalOf(h)]
               = IF h - at + 1 \in DOMAIN bytes THEN bytes[h - at + 1] ELSE f[DeviceOf(h)][LocalOf(h)]
  <2> DEFINE d == DeviceOf(h)
  <2>1. h \in Nat /\ d \in Device /\ d \in Nat /\ LocalOf(h) \in LocalAddress /\ h = d * S + LocalOf(h)
    BY <1>1, Division, RowAddress
  <2>2. LocalOf(h) \in Nat /\ LocalOf(h) < S /\ d * S \in Nat
    BY <1>1, <2>1, Sizes, Multiples DEF LocalAddress
  <2>3. CASE d = idx
    <3>1. h - at + 1 = LocalOf(h) - a + 1
      BY <1>6, <2>1, <2>2, <2>3
    <3>2. g[d] = Put(f[idx], a, bytes)
      BY <2>1, <2>3 DEF Memory
    <3>3. DOMAIN f[idx] = LocalAddress
      BY <1>2 DEF Content
    <3> QED
      BY <2>1, <2>3, <3>1, <3>2, <3>3 DEF Put
  <2>4. CASE d # idx
    <3>1. d < idx \/ idx < d
      BY <1>1, <2>1, <2>4
    <3>2. d * S + S <= idx * S \/ idx * S + S <= d * S
      BY <1>1, <2>1, <3>1, Sizes, Multiples
    <3>3. ~(h - at + 1 \in 1 .. Len(bytes))
      BY <1>5, <1>6, <2>1, <2>2, <3>2, Apart
    <3>4. g[d] = f[d]
      BY <2>1, <2>4 DEF Memory
    <3> QED
      BY <1>5, <3>3, <3>4
  <2> QED
    BY <2>3, <2>4
<1>8. RowOf(g) = Put(RowOf(f), at, bytes)
  BY <1>7 DEF RowOf, Put
<1> QED
  BY <1>4, <1>8

-----------------------------------------------------------------------------
(* What a write does to the row. *)

\* A device takes some first bytes, all of them if the write ends well, and none if it
\* does not accept them.
LEMMA DriverWrites ==
    ASSUME NEW device \in Content, NEW start \in Nat, NEW bytes \in Seq(Byte),
           NEW w \in FM25V10_write_bytes(device, start, bytes)
    PROVE  /\ w.ok \in BOOLEAN
           /\ \E k \in 0 .. Len(bytes) :
                /\ w.device = Put(device, start, First(bytes, k))
                /\ w.ok => k = Len(bytes)
                /\ w.ok \/ k # 0 => start + Len(bytes) <= FM25V10_STOP_ADDRESS
<1>1. Len(bytes) \in Nat /\ Put(device, start, First(bytes, 0)) = device
  BY ByteSequence, PutNothing DEF Content
<1>2. First(bytes, Len(bytes)) = bytes
  BY FirstAll
<1>3. CASE ~FM25V10_accepts(start, Len(bytes))
  <2>1. w.ok = FALSE /\ w.device = device
    BY <1>3 DEF FM25V10_write_bytes
  <2>2. 0 \in 0 .. Len(bytes)
    BY <1>1
  <2> QED
    BY <1>1, <2>1, <2>2
<1>4. CASE FM25V10_accepts(start, Len(bytes))
  <2>1. start + Len(bytes) <= FM25V10_STOP_ADDRESS
    BY <1>4 DEF FM25V10_accepts
  <2>2. CASE w = [ok |-> TRUE, device |-> Put(device, start, bytes)]
    <3>1. Len(bytes) \in 0 .. Len(bytes)
      BY <1>1
    <3>2. w.ok = TRUE /\ w.device = Put(device, start, First(bytes, Len(bytes)))
      BY <1>2, <2>2
    <3> QED
      BY <2>1, <3>1, <3>2
  <2>3. CASE \E k \in 0 .. Len(bytes) : w = [ok |-> FALSE, device |-> Put(device, start, First(bytes, k))]
    <3>1. PICK k \in 0 .. Len(bytes) : w = [ok |-> FALSE, device |-> Put(device, start, First(bytes, k))]
      BY <2>3
    <3>2. w.ok = FALSE /\ w.device = Put(device, start, First(bytes, k))
      BY <3>1
    <3> QED
      BY <2>1, <3>2
  <2> QED
    BY <1>4, <2>2, <2>3 DEF FM25V10_write_bytes
<1> QED
  BY <1>3, <1>4

\* What a write to one device does to the row.
DevicePart(f, idx, start, bytes, w) ==
    LET g == [f EXCEPT ![idx] = w.device]
    IN  /\ w.ok \in BOOLEAN
        /\ g \in Memory
        /\ \E k \in 0 .. Len(bytes) :
             /\ RowOf(g) = Put(RowOf(f), idx * FM25V10_STOP_ADDRESS + start, First(bytes, k))
             /\ w.ok => k = Len(bytes)
             /\ w.ok \/ k # 0 => start + Len(bytes) <= FM25V10_STOP_ADDRESS

LEMMA DeviceWrites ==
    ASSUME NEW f \in Memory, NEW idx \in Device, NEW start \in Nat, NEW bytes \in Seq(Byte),
           NEW w \in FM25V10_write_bytes(f[idx], start, bytes)
    PROVE  DevicePart(f, idx, start, bytes, w)
<1>1. f[idx] \in Content
  BY DEF Memory
<1>2. PICK k \in 0 .. Len(bytes) :
        /\ w.device = Put(f[idx], start, First(bytes, k))
        /\ w.ok => k = Len(bytes)
        /\ w.ok \/ k # 0 => start + Len(bytes) <= FM25V10_STOP_ADDRESS
  BY <1>1, DriverWrites
<1>3. w.ok \in BOOLEAN
  BY <1>1, DriverWrites
<1>4. CASE k = 0
  <2>1. w.device = f[idx]
    BY <1>1, <1>2, <1>4, PutNothing DEF Content
  <2>2. [f EXCEPT ![idx] = w.device] = f
    BY <2>1 DEF Memory
  <2>3. Put(RowOf(f), idx * FM25V10_STOP_ADDRESS + start, First(bytes, k)) = RowOf(f)
    BY <1>4, RowType, PutNothing
  <2> QED
    BY <1>2, <1>3, <2>2, <2>3 DEF DevicePart
<1>5. CASE k # 0
  <2>1. First(bytes, k) \in Seq(Byte) /\ Len(First(bytes, k)) = k
    BY FirstBytes
  <2>2. start + Len(First(bytes, k)) <= FM25V10_STOP_ADDRESS
    BY <1>2, <1>5, <2>1, ByteSequence, Sizes
  <2>3. /\ [f EXCEPT ![idx] = Put(f[idx], start, First(bytes, k))] \in Memory
        /\ RowOf([f EXCEPT ![idx] = Put(f[idx], start, First(bytes, k))])
             = Put(RowOf(f), idx * FM25V10_STOP_ADDRESS + start, First(bytes, k))
    BY <2>1, <2>2, PutInDevice
  <2> QED
    BY <1>2, <1>3, <2>3 DEF DevicePart
<1> QED
  BY <1>4, <1>5

\* What the storage may do to the memory f when it is asked to write bytes from g on.
Writes(f, g, bytes, o) ==
    /\ o.fram \in Memory
    /\ o.ret \in {"OK", "NG_ADDRESS", "NG_LENGTH", "NG_WRITE"}
    /\ \E k \in 0 .. Len(bytes) :
        /\ RowOf(o.fram) = Put(RowOf(f), g, First(bytes, k))
        /\ o.ret = "OK" => k = Len(bytes)
        /\ o.ret = "OK" \/ k # 0 => g + Len(bytes) <= APP_NVM_MANAGER_STOP_ADDRESS

\* A refused write does nothing.
LEMMA WritesNothing ==
    ASSUME NEW f \in Memory, NEW g \in Nat, NEW bytes \in Seq(Byte),
           NEW ret \in {"NG_ADDRESS", "NG_LENGTH", "NG_WRITE"}
    PROVE  Writes(f, g, bytes, [ret |-> ret, fram |-> f])
<1>1. Put(RowOf(f), g, First(bytes, 0)) = RowOf(f) /\ 0 \in 0 .. Len(bytes)
  BY RowType, PutNothing, ByteSequence
<1> QED
  BY <1>1 DEF Writes

\* How many bytes of an access go to the first device.
LEMMA FirstLength ==
    ASSUME NEW g \in Nat, NEW n \in Nat, DI_FM25V10_check(g, n) = "OK"
    PROVE  LET idx == DeviceOf(g)
               m == LengthInFirstDevice(g, n)
           IN  /\ g + n <= APP_NVM_MANAGER_STOP_ADDRESS
               /\ idx \in Device
               /\ LocalOf(g) \in Nat
               /\ g = idx * FM25V10_STOP_ADDRESS + LocalOf(g)
               /\ m \in 0 .. n
               /\ m # n => /\ idx + 1 \in Device
                           /\ g + m = (idx + 1) * FM25V10_STOP_ADDRESS
<1> DEFINE S == FM25V10_STOP_ADDRESS
           idx == DeviceOf(g)
           local == LocalOf(g)
           m == LengthInFirstDevice(g, n)
<1>1. n <= FM25V10_MAX_LENGTH /\ g + n <= APP_NVM_MANAGER_STOP_ADDRESS /\ g < APP_NVM_MANAGER_STOP_ADDRESS
  BY Sizes DEF DI_FM25V10_check
<1>2. idx \in Device /\ idx \in Nat /\ local \in LocalAddress /\ g = idx * S + local
  BY <1>1, Division, RowAddress
<1>3. local \in Nat /\ local < S /\ S \in Nat /\ n <= S
  BY <1>1, <1>2, Sizes DEF LocalAddress
<1>4. idx * S \in Nat /\ (idx + 1) * S = idx * S + S
  BY <1>2, Sizes, Multiples
<1>5. m = IF local + n < S THEN n ELSE S - local
  BY <1>3 DEF LengthInFirstDevice, DI_FM25V10_calc_device_overrun_length_
<1>6. m \in 0 .. n
  BY <1>3, <1>5
<1>7. ASSUME m # n
      PROVE  idx + 1 \in Device /\ g + m = (idx + 1) * S
  <2>1. m = S - local /\ m < n
    BY <1>3, <1>5, <1>6, <1>7
  <2>2. g + m = (idx + 1) * S
    BY <1>2, <1>3, <1>4, <2>1
  <2>3. (idx + 1) * S + 0 < APP_NVM_MANAGER_STOP_ADDRESS /\ (idx + 1) * S + 0 \in Nat
    BY <1>1, <1>3, <1>4, <2>1, <2>2, Sizes
  <2>4. DeviceOf((idx + 1) * S + 0) = idx + 1
    BY <1>2, Sizes, OneWay DEF LocalAddress
  <2> QED
    BY <2>2, <2>3, <2>4, RowAddress
<1> QED
  BY <1>1, <1>2, <1>3, <1>6, <1>7

\* A write to the row, in one or two devices, writes some first bytes, all of them if it
\* ends well, and changes no other byte.
LEMMA GlobalWrites ==
    ASSUME NEW f \in Memory, NEW g \in Nat, NEW bytes \in Seq(Byte), NEW o \in GlobalWrite(f, g, bytes)
    PROVE  Writes(f, g, bytes, o)
<1> DEFINE S == FM25V10_STOP_ADDRESS
           idx == DeviceOf(g)
           n == LengthInFirstDevice(g, Len(bytes))
           firsts == FM25V10_write_bytes(f[idx], LocalOf(g), First(bytes, n))
           seconds == FM25V10_write_bytes(f[idx + 1], 0, OverrunData(bytes, n))
<1>1. Len(bytes) \in Nat
  BY ByteSequence
<1>2. CASE DI_FM25V10_check(g, Len(bytes)) # "OK"
  <2>1. o = [ret |-> DI_FM25V10_check(g, Len(bytes)), fram |-> f]
    BY <1>2 DEF GlobalWrite
  <2>2. DI_FM25V10_check(g, Len(bytes)) \in {"NG_ADDRESS", "NG_LENGTH"}
    BY <1>2 DEF DI_FM25V10_check
  <2> QED
    BY <2>1, <2>2, WritesNothing
<1>3. CASE DI_FM25V10_check(g, Len(bytes)) = "OK"
  <2>1. /\ g + Len(bytes) <= APP_NVM_MANAGER_STOP_ADDRESS
        /\ idx \in Device
        /\ LocalOf(g) \in Nat
        /\ g = idx * S + LocalOf(g)
        /\ n \in 0 .. Len(bytes)
        /\ n # Len(bytes) => idx + 1 \in Device /\ g + n = (idx + 1) * S
    BY <1>1, <1>3, FirstLength
  <2>2. First(bytes, n) \in Seq(Byte) /\ Len(First(bytes, n)) = n
    BY <2>1, FirstBytes
  <2> HIDE DEF n, idx
  <2>3. ASSUME NEW w \in firsts
        PROVE  /\ w.ok \in BOOLEAN
               /\ [f EXCEPT ![idx] = w.device] \in Memory
               /\ \E k \in 0 .. n :
                    /\ RowOf([f EXCEPT ![idx] = w.device]) = Put(RowOf(f), g, First(bytes, k))
                    /\ w.ok => k = n
    <3> DEFINE part == First(bytes, n)
    <3>0. part \in Seq(Byte) /\ Len(part) = n /\ w \in FM25V10_write_bytes(f[idx], LocalOf(g), part)
      BY <2>2, <2>3
    <3> HIDE DEF part
    <3>part. DevicePart(f, idx, LocalOf(g), part, w)
      BY <2>1, <3>0, DeviceWrites
    <3>1. PICK k \in 0 .. Len(part) :
            /\ RowOf([f EXCEPT ![idx] = w.device]) = Put(RowOf(f), idx * S + LocalOf(g), First(part, k))
            /\ w.ok => k = Len(part)
      BY <3>part DEF DevicePart
    <3>2. First(part, k) = First(bytes, k)
      BY <2>1, <3>0, FirstBytes DEF part
    <3>3. w.ok \in BOOLEAN /\ [f EXCEPT ![idx] = w.device] \in Memory
      BY <3>part DEF DevicePart
    <3> QED
      BY <2>1, <3>0, <3>1, <3>2, <3>3
  <2>4. \/ \E w \in firsts : ~w.ok /\ o = [ret |-> "NG_WRITE", fram |-> [f EXCEPT ![idx] = w.device]]
        \/ \E w \in firsts : /\ w.ok /\ n = Len(bytes)
                             /\ o = [ret |-> "OK", fram |-> [f EXCEPT ![idx] = w.device]]
        \/ \E w \in firsts, v \in seconds :
             /\ w.ok /\ n # Len(bytes)
             /\ o = [ret |-> IF v.ok THEN "OK" ELSE "NG_WRITE",
                     fram |-> [f EXCEPT ![idx] = w.device, ![idx + 1] = v.device]]
    BY <1>3 DEF GlobalWrite, n, idx
  <2>5. ASSUME NEW w \in firsts, ~w.ok, o = [ret |-> "NG_WRITE", fram |-> [f EXCEPT ![idx] = w.device]]
        PROVE  Writes(f, g, bytes, o)
    <3>1. PICK k \in 0 .. n : RowOf([f EXCEPT ![idx] = w.device]) = Put(RowOf(f), g, First(bytes, k))
      BY <2>3
    <3>2. k \in 0 .. Len(bytes)
      BY <1>1, <2>1
    <3>3. o.ret = "NG_WRITE" /\ o.fram = [f EXCEPT ![idx] = w.device]
      BY <2>5
    <3>4. o.fram \in Memory
      BY <2>3, <3>3
    <3> QED
      BY <2>1, <3>1, <3>2, <3>3, <3>4 DEF Writes
  <2>6. ASSUME NEW w \in firsts, w.ok, n = Len(bytes),
               o = [ret |-> "OK", fram |-> [f EXCEPT ![idx] = w.device]]
        PROVE  Writes(f, g, bytes, o)
    BY <1>1, <2>1, <2>3, <2>6 DEF Writes
  <2>7. ASSUME NEW w \in firsts, NEW v \in seconds, w.ok, n # Len(bytes),
               o = [ret |-> IF v.ok THEN "OK" ELSE "NG_WRITE",
                    fram |-> [f EXCEPT ![idx] = w.device, ![idx + 1] = v.device]]
        PROVE  Writes(f, g, bytes, o)
    <3> DEFINE between == [f EXCEPT ![idx] = w.device]
    <3>1. between \in Memory /\ RowOf(between) = Put(RowOf(f), g, First(bytes, n))
      BY <2>3, <2>7
    <3>2. idx + 1 \in Device /\ g + n = (idx + 1) * S + 0 /\ idx \in Nat
      BY <2>1, <2>7, Sizes DEF Device
    <3>3. Rest(bytes, n) \in Seq(Byte) /\ Len(Rest(bytes, n)) = Len(bytes) - n
      BY <2>1, RestBytes
    <3>4. between[idx + 1] = f[idx + 1]
      BY <3>2 DEF Memory
    <3>5. v \in FM25V10_write_bytes(between[idx + 1], 0, Rest(bytes, n))
      BY <3>4 DEF OverrunData
    <3> DEFINE rest == Rest(bytes, n)
               next == idx + 1
    <3> HIDE DEF between, rest, next
    <3>part. DevicePart(between, next, 0, rest, v)
      BY <3>1, <3>2, <3>3, <3>5, DeviceWrites DEF rest, next
    <3>6. PICK k \in 0 .. Len(rest) :
            /\ RowOf([between EXCEPT ![next] = v.device])
                 = Put(RowOf(between), next * S + 0, First(rest, k))
            /\ v.ok => k = Len(rest)
      BY <3>part DEF DevicePart
    <3> USE DEF rest, next
    <3>7. v.ok \in BOOLEAN /\ [between EXCEPT ![idx + 1] = v.device] \in Memory
      BY <3>part DEF DevicePart
    <3>8. o.fram = [between EXCEPT ![idx + 1] = v.device]
      BY <2>1, <2>7, <3>2 DEF between, Memory
    <3>9. Put(Put(RowOf(f), g, First(bytes, n)), g + n, First(Rest(bytes, n), k))
            = Put(RowOf(f), g, First(bytes, n + k))
      BY <2>1, <3>3, RowType, PutInTwo
    <3>10. RowOf(o.fram) = Put(RowOf(f), g, First(bytes, n + k))
      BY <3>1, <3>2, <3>6, <3>8, <3>9
    <3>11. n + k \in 0 .. Len(bytes) /\ (v.ok => n + k = Len(bytes))
      BY <1>1, <2>1, <3>3, <3>6
    <3> QED
      BY <2>1, <2>7, <3>7, <3>8, <3>10, <3>11 DEF Writes
  <2> QED
    BY <2>4, <2>5, <2>6, <2>7
<1> QED
  BY <1>2, <1>3

\* A write to a partition does so, and does nothing if it leaves the partition.
LEMMA PartitionWrites ==
    ASSUME NEW f \in Memory, NEW id \in PartitionId, NEW a \in Nat, NEW bytes \in Seq(Byte),
           NEW o \in APP_NVM_PARTITION_write_bytes(f, id, a, bytes)
    PROVE  /\ Writes(f, Elements[id].start_address + a, bytes, o)
           /\ APP_NVM_PARTITION_check(id, a, Len(bytes)) # "OK" => o.ret # "OK" /\ o.fram = f
<1>1. Elements[id].start_address + a \in Nat
  BY PartitionAssumption
<1>2. CASE APP_NVM_PARTITION_check(id, a, Len(bytes)) # "OK"
  <2>1. o = [ret |-> APP_NVM_PARTITION_check(id, a, Len(bytes)), fram |-> f]
    BY <1>2 DEF APP_NVM_PARTITION_write_bytes
  <2>2. APP_NVM_PARTITION_check(id, a, Len(bytes)) \in {"NG_ADDRESS", "NG_LENGTH"}
    BY <1>2 DEF APP_NVM_PARTITION_check
  <2> QED
    BY <1>1, <2>1, <2>2, WritesNothing
<1>3. CASE APP_NVM_PARTITION_check(id, a, Len(bytes)) = "OK"
  BY <1>1, <1>3, GlobalWrites DEF APP_NVM_PARTITION_write_bytes
<1> QED
  BY <1>2, <1>3

-----------------------------------------------------------------------------
(* What a read returns. *)

\* The bytes of one device are those of the row.
LEMMA DeviceBytes ==
    ASSUME NEW f \in Memory, NEW idx \in Device, NEW start \in Nat, NEW n \in Nat,
           start + n <= FM25V10_STOP_ADDRESS
    PROVE  /\ Get(f[idx], start, n) = Get(RowOf(f), idx * FM25V10_STOP_ADDRESS + start, n)
           /\ Get(f[idx], start, n) \in Seq(Byte)
           /\ Len(Get(f[idx], start, n)) = n
<1> DEFINE S == FM25V10_STOP_ADDRESS
<1>1. idx \in Nat /\ idx * S \in Nat /\ S \in Nat
  BY Sizes, Multiples DEF Device
<1>2. ASSUME NEW k \in 1 .. n
      PROVE  /\ f[idx][start + k - 1] = RowOf(f)[idx * S + start + k - 1]
             /\ f[idx][start + k - 1] \in Byte
  <2> DEFINE a == start + k - 1
             g == idx * S + a
  <2>1. a \in LocalAddress
    BY <1>1 DEF LocalAddress
  <2>2. g \in Nat /\ DeviceOf(g) = idx /\ LocalOf(g) = a
    BY <1>1, <2>1, OneWay
  <2>3. g \in GlobalAddress
    BY <2>2, RowAddress
  <2>4. RowOf(f)[g] = f[idx][a]
    BY <2>2, <2>3 DEF RowOf
  <2>5. g = idx * S + start + k - 1
    <3> HIDE DEF S
    <3> QED
      BY <1>1
  <2> QED
    BY <2>1, <2>4, <2>5 DEF Memory, Content
<1>3. ASSUME NEW k \in 1 .. n
      PROVE  f[idx][start + k - 1] = RowOf(f)[(idx * S + start) + k - 1]
  BY <1>2
<1>4. Get(f[idx], start, n) = Get(RowOf(f), idx * S + start, n)
  BY <1>3 DEF Get
<1>5. Get(f[idx], start, n) \in Seq(Byte) /\ Len(Get(f[idx], start, n)) = n
  BY <1>2, IsASeq DEF Get
<1> QED
  BY <1>4, <1>5

\* Getting bytes in two is getting them at once.
LEMMA GetInTwo ==
    ASSUME NEW B, NEW m, NEW g \in Int, NEW n \in Nat, NEW k \in 0 .. n,
           Get(m, g, k) \in Seq(B), Get(m, g + k, n - k) \in Seq(B)
    PROVE  Get(m, g, k) \o Get(m, g + k, n - k) = Get(m, g, n)
<1>1. Len(Get(m, g, k)) = k /\ Len(Get(m, g + k, n - k)) = n - k
  BY ByteSequence DEF Get
<1>2. Get(m, g, k) \o Get(m, g + k, n - k)
        = [i \in 1 .. n |-> IF i <= k THEN Get(m, g, k)[i] ELSE Get(m, g + k, n - k)[i - k]]
  BY <1>1
<1>3. ASSUME NEW i \in 1 .. n
      PROVE  (IF i <= k THEN Get(m, g, k)[i] ELSE Get(m, g + k, n - k)[i - k]) = m[g + i - 1]
  <2>1. CASE i <= k
    BY <2>1 DEF Get
  <2>2. CASE ~(i <= k)
    <3>1. i - k \in 1 .. n - k /\ (g + k) + (i - k) - 1 = g + i - 1
      BY <2>2
    <3> QED
      BY <2>2, <3>1 DEF Get
  <2> QED
    BY <2>1, <2>2
<1> QED
  BY <1>2, <1>3 DEF Get

\* What the storage may return from the memory f when it is asked for n bytes from g on.
Reads(f, g, n, o) ==
    /\ o.ret \in {"OK", "NG_ADDRESS", "NG_LENGTH", "NG_READ"}
    /\ o.ret = "OK" => /\ o.data = Get(RowOf(f), g, n)
                       /\ g + n <= APP_NVM_MANAGER_STOP_ADDRESS
    /\ o.ret # "OK" => o.data = << >>
    /\ o.data \in Seq(Byte)

\* Nothing is a sequence of bytes.
LEMMA NoBytes ==
    << >> \in Seq(Byte) /\ Len(<< >>) = 0
OBVIOUS

\* A read of the row, in one or two devices, returns the bytes that are there, or fails.
LEMMA GlobalReads ==
    ASSUME NEW f \in Memory, NEW g \in Nat, NEW n \in Nat, NEW o \in GlobalRead(f, g, n)
    PROVE  Reads(f, g, n, o)
<1> DEFINE S == FM25V10_STOP_ADDRESS
           idx == DeviceOf(g)
           m == LengthInFirstDevice(g, n)
           firsts == FM25V10_read_bytes(f[idx], LocalOf(g), m)
           seconds == IF m = n THEN {[ok |-> TRUE, bytes |-> << >>]}
                               ELSE FM25V10_read_bytes(f[idx + 1], 0, n - m)
<1>1. CASE DI_FM25V10_check(g, n) # "OK"
  <2>1. o = [ret |-> DI_FM25V10_check(g, n), data |-> << >>]
    BY <1>1 DEF GlobalRead
  <2>2. DI_FM25V10_check(g, n) \in {"NG_ADDRESS", "NG_LENGTH"}
    BY <1>1 DEF DI_FM25V10_check
  <2> QED
    BY <2>1, <2>2, NoBytes DEF Reads
<1>2. CASE DI_FM25V10_check(g, n) = "OK"
  <2>1. /\ g + n <= APP_NVM_MANAGER_STOP_ADDRESS
        /\ idx \in Device
        /\ LocalOf(g) \in Nat
        /\ g = idx * S + LocalOf(g)
        /\ m \in 0 .. n
        /\ m # n => idx + 1 \in Device /\ g + m = (idx + 1) * S
    BY <1>2, FirstLength
  <2> HIDE DEF m, idx
  <2>2. PICK r \in firsts \X seconds :
          o = IF r[1].ok /\ r[2].ok THEN [ret |-> "OK", data |-> r[1].bytes \o r[2].bytes]
                                    ELSE [ret |-> "NG_READ", data |-> << >>]
    BY <1>2 DEF GlobalRead, m, idx
  <2>3. CASE ~(r[1].ok /\ r[2].ok)
    BY <2>2, <2>3, NoBytes DEF Reads
  <2>4. CASE r[1].ok /\ r[2].ok
    <3>1. r[1] \in firsts /\ r[2] \in seconds
      BY <2>2
    <3>2. /\ m <= FM25V10_MAX_LENGTH /\ LocalOf(g) + m <= S
          /\ r[1].bytes = Get(f[idx], LocalOf(g), m)
      BY <2>4, <3>1 DEF FM25V10_read_bytes, FM25V10_accepts
    <3>3. /\ r[1].bytes = Get(RowOf(f), g, m)
          /\ r[1].bytes \in Seq(Byte)
      BY <2>1, <3>2, DeviceBytes
    <3>4. /\ r[2].bytes = Get(RowOf(f), g + m, n - m)
          /\ r[2].bytes \in Seq(Byte)
      <4>1. CASE m = n
        <5>1. r[2].bytes = << >>
          BY <3>1, <4>1
        <5>2. Get(RowOf(f), g + m, n - m) = << >>
          BY <4>1 DEF Get
        <5> QED
          BY <5>1, <5>2, NoBytes
      <4>2. CASE m # n
        <5>1. r[2] \in FM25V10_read_bytes(f[idx + 1], 0, n - m)
          BY <3>1, <4>2
        <5>2. 0 + (n - m) <= S /\ r[2].bytes = Get(f[idx + 1], 0, n - m)
          BY <2>4, <5>1 DEF FM25V10_read_bytes, FM25V10_accepts
        <5>3. n - m \in Nat /\ idx + 1 \in Device /\ g + m = (idx + 1) * S + 0
          BY <2>1, <4>2, Sizes
        <5> QED
          BY <5>2, <5>3, DeviceBytes
      <4> QED
        BY <4>1, <4>2
    <3>5. r[1].bytes \o r[2].bytes = Get(RowOf(f), g, n)
      BY <2>1, <3>3, <3>4, GetInTwo
    <3>6. r[1].bytes \o r[2].bytes \in Seq(Byte)
      BY <3>3, <3>4
    <3> QED
      BY <2>1, <2>2, <2>4, <3>5, <3>6 DEF Reads
  <2> QED
    BY <2>3, <2>4
<1> QED
  BY <1>1, <1>2

\* A read of a partition does so, and fails if it leaves the partition.
LEMMA PartitionReads ==
    ASSUME NEW f \in Memory, NEW id \in PartitionId, NEW a \in Nat, NEW n \in Nat,
           NEW o \in APP_NVM_PARTITION_read_bytes(f, id, a, n)
    PROVE  /\ Reads(f, Elements[id].start_address + a, n, o)
           /\ o.ret = "OK" => APP_NVM_PARTITION_check(id, a, n) = "OK"
<1>1. Elements[id].start_address + a \in Nat
  BY PartitionAssumption
<1>2. CASE APP_NVM_PARTITION_check(id, a, n) # "OK"
  <2>1. o = [ret |-> APP_NVM_PARTITION_check(id, a, n), data |-> << >>]
    BY <1>2 DEF APP_NVM_PARTITION_read_bytes
  <2>2. APP_NVM_PARTITION_check(id, a, n) \in {"NG_ADDRESS", "NG_LENGTH"}
    BY <1>2 DEF APP_NVM_PARTITION_check
  <2> QED
    BY <2>1, <2>2, NoBytes DEF Reads
<1>3. CASE APP_NVM_PARTITION_check(id, a, n) = "OK"
  BY <1>1, <1>3, GlobalReads DEF APP_NVM_PARTITION_read_bytes
<1> QED
  BY <1>2, <1>3

-----------------------------------------------------------------------------
(* What a step does to the storage. *)

\* An access to what is named by, as steps see it: a write or a read from g on.  One to a
\* partition changes nothing or lies inside it.
WriteStep(by, g, bytes) ==
    \E o : /\ Writes(fram, g, bytes, o)
           /\ Wrote(by, g, bytes, o)
           /\ by \in PartitionId =>
                \/ o.ret # "OK" /\ o.fram = fram
                \/ /\ Elements[by].start_address <= g
                   /\ g + Len(bytes) <= Elements[by].start_address + Elements[by].size_byte

ReadStep(by, g, n) ==
    \E o : Reads(fram, g, n, o) /\ HasRead(by, g, n, o)

Access ==
    \E by \in PartitionId \cup {"GLOBAL"}, g \in Nat :
        \/ \E bytes \in Seq(Byte) : WriteStep(by, g, bytes)
        \/ \E n \in Nat : ReadStep(by, g, n)

\* What is stored is a memory.
LEMMA MemoryType ==
    ASSUME TypeOK
    PROVE  fram \in Memory
BY DEF TypeOK, Memory, Content

\* A parameter has one place or three.
LEMMA PlacesType ==
    ASSUME NEW p
    PROVE  /\ DOMAIN Places(p) = 1 .. Len(Places(p))
           /\ p \in RedundantParam => Len(Places(p)) = 3
           /\ p \notin RedundantParam => Len(Places(p)) = 1
<1>1. CASE p \in RedundantParam
  BY <1>1 DEF Places
<1>2. CASE p \notin RedundantParam
  BY <1>2 DEF Places
<1> QED
  BY <1>1, <1>2

\* The data and the place of a call.
LEMMA CallType ==
    ASSUME NEW c \in Call
    PROVE  /\ c.param \in Param
           /\ Registered[c.param].start_address \in Nat
           /\ Registered[c.param].size_byte \in Nat
           /\ c.data \in [1 .. Registered[c.param].size_byte -> Byte]
           /\ c.data \in Seq(Byte)
           /\ Len(c.data) = Registered[c.param].size_byte
           /\ c.copy \in 1 .. Len(Places(c.param))
           /\ Places(c.param)[c.copy] \in PartitionId
           /\ c = [param |-> c.param, data |-> c.data, copy |-> c.copy]
<1>1. PICK p \in Param :
        c \in [param : {p}, data : [1 .. Registered[p].size_byte -> Byte], copy : DOMAIN Places(p)]
  BY DEF Call
<1>2. c.param = p /\ c.data \in [1 .. Registered[p].size_byte -> Byte] /\ c.copy \in DOMAIN Places(p)
  BY <1>1
<1>3. Registered[p].start_address \in Nat /\ Registered[p].size_byte \in Nat
  BY ParameterAssumption
<1>4. DOMAIN Places(p) = 1 .. Len(Places(p))
  BY PlacesType
<1>5. Places(p)[c.copy] \in PartitionId
  BY <1>2, ParameterAssumption DEF Copies
<1>6. c.data \in Seq(Byte) /\ Len(c.data) = Registered[p].size_byte
  <2>1. c.data \in Seq(Byte)
    BY <1>2, <1>3
  <2>2. DOMAIN c.data = 1 .. Registered[p].size_byte
    BY <1>2
  <2> QED
    BY <1>3, <2>1, <2>2, LenProperties
<1>7. c = [param |-> c.param, data |-> c.data, copy |-> c.copy]
  BY <1>1
<1> QED
  BY <1>2, <1>3, <1>4, <1>5, <1>6, <1>7

\* A call, and the same call at its next copy.
LEMMA IsCall ==
    ASSUME NEW p \in Param, NEW data \in [1 .. Registered[p].size_byte -> Byte],
           NEW k \in 1 .. Len(Places(p))
    PROVE  [param |-> p, data |-> data, copy |-> k] \in Call
<1>1. k \in DOMAIN Places(p)
  BY PlacesType
<1> QED
  BY <1>1 DEF Call

\* A write to a partition is an access.
LEMMA PartitionStep ==
    ASSUME TypeOK, NEW id \in PartitionId, NEW a \in Nat, NEW bytes \in Seq(Byte),
           PartitionWrite(id, a, bytes)
    PROVE  WriteStep(id, Elements[id].start_address + a, bytes)
<1> DEFINE g == Elements[id].start_address + a
<1>1. PICK o \in APP_NVM_PARTITION_write_bytes(fram, id, a, bytes) : Wrote(id, g, bytes, o)
  BY DEF PartitionWrite
<1>2. /\ Writes(fram, g, bytes, o)
      /\ APP_NVM_PARTITION_check(id, a, Len(bytes)) # "OK" => o.ret # "OK" /\ o.fram = fram
  BY MemoryType, PartitionWrites
<1>3. Elements[id].start_address \in Nat /\ Elements[id].size_byte \in Nat /\ Len(bytes) \in Nat
  BY PartitionAssumption, ByteSequence
<1>4. CASE APP_NVM_PARTITION_check(id, a, Len(bytes)) = "OK"
  <2>1. a + Len(bytes) <= Elements[id].size_byte
    BY <1>3, <1>4 DEF APP_NVM_PARTITION_check
  <2>2. /\ Elements[id].start_address <= g
        /\ g + Len(bytes) <= Elements[id].start_address + Elements[id].size_byte
    BY <1>3, <2>1
  <2> QED
    BY <1>1, <1>2, <2>2 DEF WriteStep
<1> QED
  BY <1>1, <1>2, <1>4 DEF WriteStep

\* A copy of a parameter is written by an access.
LEMMA CopyStep ==
    ASSUME TypeOK, WriteCopy
    PROVE  LET c == Head(calls)
               place == Places(c.param)[c.copy]
           IN  /\ c \in Call
               /\ place \in PartitionId
               /\ Elements[place].start_address + Registered[c.param].start_address \in Nat
               /\ WriteStep(place, Elements[place].start_address + Registered[c.param].start_address, c.data)
<1> DEFINE c == Head(calls)
           place == Places(c.param)[c.copy]
<1>1. c \in Call
  BY DEF WriteCopy, TypeOK
<1>2. place \in PartitionId /\ Registered[c.param].start_address \in Nat /\ c.data \in Seq(Byte)
  BY <1>1, CallType
<1>3. PartitionWrite(place, Registered[c.param].start_address, c.data)
  BY DEF WriteCopy
<1>4. Elements[place].start_address \in Nat
  BY <1>2, PartitionAssumption
<1> QED
  BY <1>1, <1>2, <1>3, <1>4, PartitionStep

\* The data of commands are bytes.
LEMMA CmdDataType ==
    /\ CmdData \subseteq Seq(Byte)
    /\ CmdAddress \subseteq Nat
    /\ 0 .. APP_NVM_MANAGER_MAX_CMD_DATA_SIZE \subseteq Nat
<1>1. ASSUME NEW n \in 0 .. APP_NVM_MANAGER_MAX_CMD_DATA_SIZE, NEW b \in [1 .. n -> Byte]
      PROVE  b \in Seq(Byte)
  <2>1. n \in Nat
    BY Sizes, StorageAssumption
  <2> QED
    BY <2>1
<1>2. CmdData \subseteq Seq(Byte)
  BY <1>1 DEF CmdData
<1>3. CmdAddress \subseteq Nat
  BY StorageAssumption DEF CmdAddress
<1>4. 0 .. APP_NVM_MANAGER_MAX_CMD_DATA_SIZE \subseteq Nat
  BY Sizes, StorageAssumption
<1> QED
  BY <1>2, <1>3, <1>4

\* Every command from ground is an access.
LEMMA GroundStep ==
    ASSUME TypeOK, GroundAccess
    PROVE  Access
<1>1. CASE Cmd_APP_NVM_PARTITION_WRITE_BYTES
  <2>1. PICK id \in GroundPartitions, a \in CmdAddress, bytes \in CmdData : PartitionWrite(id, a, bytes)
    BY <1>1 DEF Cmd_APP_NVM_PARTITION_WRITE_BYTES
  <2>2. id \in PartitionId /\ a \in Nat /\ bytes \in Seq(Byte) /\ Elements[id].start_address + a \in Nat
    BY CmdDataType, StorageAssumption, PartitionAssumption
  <2> QED
    BY <2>1, <2>2, PartitionStep DEF Access
<1>2. CASE Cmd_APP_NVM_PARTITION_READ_BYTES
  <2>1. PICK id \in GroundPartitions, a \in CmdAddress, n \in 0 .. APP_NVM_MANAGER_MAX_CMD_DATA_SIZE :
          \E o \in APP_NVM_PARTITION_read_bytes(fram, id, a, n) :
            HasRead(id, Elements[id].start_address + a, n, o)
    BY <1>2 DEF Cmd_APP_NVM_PARTITION_READ_BYTES
  <2>2. id \in PartitionId /\ a \in Nat /\ n \in Nat /\ Elements[id].start_address + a \in Nat
    BY CmdDataType, StorageAssumption, PartitionAssumption
  <2>3. ReadStep(id, Elements[id].start_address + a, n)
    BY <2>1, <2>2, MemoryType, PartitionReads DEF ReadStep
  <2> QED
    BY <2>2, <2>3 DEF Access
<1>3. CASE Cmd_APP_NVM_MANAGER_WRITE_BYTES
  <2>1. PICK a \in CmdAddress, bytes \in CmdData \ {<< >>} :
          \E o \in GlobalWrite(fram, a, bytes) : Wrote("GLOBAL", a, bytes, o)
    BY <1>3 DEF Cmd_APP_NVM_MANAGER_WRITE_BYTES
  <2>2. a \in Nat /\ bytes \in Seq(Byte)
    BY CmdDataType
  <2>3. WriteStep("GLOBAL", a, bytes)
    BY <2>1, <2>2, MemoryType, GlobalWrites, StorageAssumption DEF WriteStep
  <2> QED
    BY <2>2, <2>3 DEF Access
<1>4. CASE Cmd_APP_NVM_MANAGER_READ_BYTES
  <2>1. PICK a \in CmdAddress, n \in 0 .. APP_NVM_MANAGER_MAX_CMD_DATA_SIZE :
          \E o \in GlobalRead(fram, a, n) : HasRead("GLOBAL", a, n, o)
    BY <1>4 DEF Cmd_APP_NVM_MANAGER_READ_BYTES
  <2>2. a \in Nat /\ n \in Nat
    BY CmdDataType
  <2>3. ReadStep("GLOBAL", a, n)
    BY <2>1, <2>2, MemoryType, GlobalReads DEF ReadStep
  <2> QED
    BY <2>2, <2>3 DEF Access
<1>5. CASE Cmd_DI_FM25V10_WRITE_BYTE
  <2> DEFINE S == FM25V10_STOP_ADDRESS
  <2>1. PICK idx \in Device, a \in {a \in GroundAddresses : a < S}, byte \in Byte :
          \E w \in FM25V10_write_bytes(fram[idx], a, <<byte>>) :
            Wrote("GLOBAL", idx * S + a, <<byte>>,
                  [ret |-> IF w.ok THEN "OK" ELSE "NG_WRITE",
                   fram |-> [fram EXCEPT ![idx] = w.device]])
    BY <1>5 DEF Cmd_DI_FM25V10_WRITE_BYTE
  <2> DEFINE g == idx * S + a
             bytes == <<byte>>
  <2>2. PICK w \in FM25V10_write_bytes(fram[idx], a, bytes) :
          Wrote("GLOBAL", g, bytes, [ret |-> IF w.ok THEN "OK" ELSE "NG_WRITE",
                                     fram |-> [fram EXCEPT ![idx] = w.device]])
    BY <2>1
  <2>3. a \in LocalAddress /\ a \in Nat /\ bytes \in Seq(Byte) /\ Len(bytes) = 1 /\ idx \in Nat
    BY StorageAssumption DEF LocalAddress, Device
  <2>4. g \in Nat /\ g + 1 <= APP_NVM_MANAGER_STOP_ADDRESS
    <3>1. g \in Nat /\ DeviceOf(g) = idx
      BY <2>3, OneWay
    <3>2. g < APP_NVM_MANAGER_STOP_ADDRESS
      BY <3>1, RowAddress
    <3> HIDE DEF g
    <3> QED
      BY <3>1, <3>2, Sizes
  <2>5. DevicePart(fram, idx, a, bytes, w)
    BY <2>3, MemoryType, DeviceWrites
  <2> DEFINE o == [ret |-> IF w.ok THEN "OK" ELSE "NG_WRITE", fram |-> [fram EXCEPT ![idx] = w.device]]
  <2> HIDE DEF g, bytes
  <2>6. Writes(fram, g, bytes, o)
    <3>1. PICK k \in 0 .. Len(bytes) :
            /\ RowOf([fram EXCEPT ![idx] = w.device]) = Put(RowOf(fram), g, First(bytes, k))
            /\ w.ok => k = Len(bytes)
      BY <2>5 DEF DevicePart, g
    <3>2. w.ok \in BOOLEAN /\ [fram EXCEPT ![idx] = w.device] \in Memory
      BY <2>5 DEF DevicePart
    <3> QED
      BY <2>3, <2>4, <3>1, <3>2 DEF Writes
  <2>7. WriteStep("GLOBAL", g, bytes)
    BY <2>2, <2>6, StorageAssumption DEF WriteStep, g, bytes
  <2> QED
    BY <2>3, <2>4, <2>7 DEF Access, g
<1> QED
  BY <1>1, <1>2, <1>3, <1>4, <1>5 DEF GroundAccess

\* A step makes one access, or none; a reset forgets the last one.
LEMMA StorageStep ==
    ASSUME TypeOK, [Next]_vars
    PROVE  \/ Access
           \/ UNCHANGED <<fram, last>>
           \/ last' = NoAccess /\ UNCHANGED fram
<1>1. ASSUME NEW p \in Param, NEW data \in ParamData[p], Begin(p, data)
      PROVE  UNCHANGED <<fram, last>>
  BY <1>1 DEF Begin
<1>2. CASE WriteCopy
  <2>1. /\ Head(calls).data \in Seq(Byte)
        /\ Places(Head(calls).param)[Head(calls).copy] \in PartitionId
    BY <1>2, CopyStep, CallType
  <2> QED
    BY <1>2, <2>1, CopyStep DEF Access
<1>3. CASE GroundCommand
  BY <1>3, GroundStep DEF GroundCommand
<1>4. CASE Reset
  BY <1>4 DEF Reset
<1>5. CASE UNCHANGED vars
  BY <1>5 DEF vars
<1> QED
  BY <1>1, <1>2, <1>3, <1>4, <1>5 DEF Next

-----------------------------------------------------------------------------
(* Type correctness. *)

\* The types of the storage.
StorageType ==
    /\ fram \in [Device -> [LocalAddress -> Byte]]
    /\ last.by \in PartitionId \cup {"GLOBAL"}
    /\ last.req \in Flat!WriteRequest \cup Flat!ReadRequest \cup {Flat!NoRequest}
    /\ last.ret \in {"OK", "NG_ADDRESS", "NG_LENGTH", "NG_READ", "NG_WRITE"}
    /\ last.data \in Seq(Byte)

LEMMA AccessTypes ==
    ASSUME TypeOK, Access
    PROVE  StorageType'
<1>1. PICK by \in PartitionId \cup {"GLOBAL"}, g \in Nat :
        \/ \E bytes \in Seq(Byte) : WriteStep(by, g, bytes)
        \/ \E n \in Nat : ReadStep(by, g, n)
  BY DEF Access
<1>2. ASSUME NEW bytes \in Seq(Byte), WriteStep(by, g, bytes)
      PROVE  StorageType'
  <2>1. PICK o : Writes(fram, g, bytes, o) /\ Wrote(by, g, bytes, o)
    BY <1>2 DEF WriteStep
  <2>2. fram' \in [Device -> [LocalAddress -> Byte]]
    BY <2>1 DEF Writes, Wrote, Memory, Content
  <2>3. last' = [by |-> by, req |-> [op |-> "write", at |-> g, bytes |-> bytes],
                 ret |-> o.ret, data |-> << >>]
    BY <2>1 DEF Wrote
  <2>4. last'.req \in Flat!WriteRequest
    BY <2>3 DEF Flat!WriteRequest
  <2> QED
    BY <2>1, <2>2, <2>3, <2>4, NoBytes DEF StorageType, Writes
<1>3. ASSUME NEW n \in Nat, ReadStep(by, g, n)
      PROVE  StorageType'
  <2>1. PICK o : Reads(fram, g, n, o) /\ HasRead(by, g, n, o)
    BY <1>3 DEF ReadStep
  <2>2. fram' \in [Device -> [LocalAddress -> Byte]]
    BY <2>1 DEF HasRead, TypeOK
  <2>3. last' = [by |-> by, req |-> [op |-> "read", at |-> g, n |-> n],
                 ret |-> o.ret, data |-> o.data]
    BY <2>1 DEF HasRead
  <2>4. last'.req \in Flat!ReadRequest
    BY <2>3 DEF Flat!ReadRequest
  <2> QED
    BY <2>1, <2>2, <2>3, <2>4 DEF StorageType, Reads
<1> QED
  BY <1>1, <1>2, <1>3

\* The types of what an application has called, and of the histories.
CallsType ==
    /\ calls \in Seq(Call)
    /\ DOMAIN written = Param
    /\ DOMAIN tried = Param
    /\ \A p \in Param : {written[p], tried[p]} \subseteq
                            [1 .. Registered[p].size_byte -> Byte] \cup {Unknown}

LEMMA TypeInTwo ==
    TypeOK <=> StorageType /\ CallsType
BY DEF TypeOK, StorageType, CallsType

\* The histories when a call has started or ended.
LEMMA HistoryTypes ==
    ASSUME TypeOK, NEW c \in Call, Start(c) \/ Complete(c) \/ UNCHANGED <<written, tried>>
    PROVE  /\ DOMAIN written' = Param
           /\ DOMAIN tried' = Param
           /\ \A p \in Param : {written'[p], tried'[p]} \subseteq
                                   [1 .. Registered[p].size_byte -> Byte] \cup {Unknown}
<1>1. c.param \in Param /\ c.data \in [1 .. Registered[c.param].size_byte -> Byte]
  BY CallType
<1>2. CASE Start(c)
  <2>1. /\ DOMAIN written' = Param
        /\ DOMAIN tried' = Param
        /\ \A p \in Param : p # c.param => written'[p] = written[p] /\ tried'[p] = tried[p]
        /\ written'[c.param] \in {Unknown, written[c.param]}
        /\ tried'[c.param] \in {Unknown, c.data}
    BY <1>1, <1>2 DEF Start, TypeOK
  <2> QED
    BY <1>1, <2>1 DEF TypeOK
<1>3. CASE Complete(c)
  <2>1. /\ DOMAIN written' = Param
        /\ DOMAIN tried' = Param
        /\ \A p \in Param : p # c.param => written'[p] = written[p] /\ tried'[p] = tried[p]
        /\ written'[c.param] = c.data
        /\ tried'[c.param] = Unknown
    BY <1>1, <1>3 DEF Complete, TypeOK
  <2> QED
    BY <1>1, <2>1 DEF TypeOK
<1>4. CASE UNCHANGED <<written, tried>>
  BY <1>4 DEF TypeOK
<1> QED
  BY <1>2, <1>3, <1>4

\* The calls that are left.
LEMMA LeftTypes ==
    ASSUME TypeOK, calls # << >>, NEW ret
    PROVE  /\ Left(Head(calls), ret) \in Seq(Call)
           /\ Tail(calls) \in Seq(Call)
           /\ Head(calls).copy < Len(Places(Head(calls).param)) =>
                [Head(calls) EXCEPT !.copy = @ + 1] \in Call
<1> DEFINE c == Head(calls)
           next == [c EXCEPT !.copy = @ + 1]
<1>1. c \in Call /\ Tail(calls) \in Seq(Call)
  BY DEF TypeOK
<1>2. ASSUME c.copy < Len(Places(c.param))
      PROVE  next \in Call
  <2>1. next = [param |-> c.param, data |-> c.data, copy |-> c.copy + 1]
    BY <1>1, CallType
  <2>2. c.copy + 1 \in 1 .. Len(Places(c.param))
    BY <1>1, <1>2, CallType, PlacesType
  <2>3. c.param \in Param /\ c.data \in [1 .. Registered[c.param].size_byte -> Byte]
    BY <1>1, CallType
  <2>4. [param |-> c.param, data |-> c.data, copy |-> c.copy + 1] \in Call
    BY <2>2, <2>3, IsCall
  <2> QED
    BY <2>1, <2>4
<1>3. Left(c, ret) \in Seq(Call)
  <2>1. CASE ret = "OK" /\ c.copy < Len(Places(c.param))
    <3>1. <<next>> \in Seq(Call)
      BY <1>2, <2>1
    <3>2. Left(c, ret) = <<next>> \o Tail(calls)
      BY <2>1 DEF Left
    <3> HIDE DEF next
    <3> QED
      BY <1>1, <3>1, <3>2
  <2>2. CASE ~(ret = "OK" /\ c.copy < Len(Places(c.param)))
    BY <1>1, <2>2 DEF Left
  <2> QED
    BY <2>1, <2>2
<1> QED
  BY <1>1, <1>2, <1>3

\* Before the first step everything has its type.
LEMMA TypeInit ==
    Init => TypeOK
<1> SUFFICES ASSUME Init
             PROVE  TypeOK
  OBVIOUS
<1>1. fram \in [Device -> [LocalAddress -> Byte]]
  BY StorageAssumption DEF Init, StorageInit
<1>2. last.req = Flat!NoRequest
  BY DEF Init, StorageInit, NoAccess, Flat!NoRequest
<1>3. last.by = "GLOBAL" /\ last.ret = "OK" /\ last.data = << >>
  BY DEF Init, StorageInit, NoAccess
<1>4. CallsType
  BY ParameterAssumption DEF Init, CallsType
<1> QED
  BY <1>1, <1>2, <1>3, <1>4, NoBytes, TypeInTwo DEF StorageType

LEMMA TypeStep ==
    ASSUME TypeOK, [Next]_vars
    PROVE  TypeOK'
<1>1. StorageType'
  <2>1. CASE UNCHANGED <<fram, last>>
    BY <2>1 DEF TypeOK, StorageType
  <2>2. CASE last' = NoAccess /\ UNCHANGED fram
    <3>1. last'.req = Flat!NoRequest
      BY <2>2 DEF NoAccess, Flat!NoRequest
    <3>2. last'.by = "GLOBAL" /\ last'.ret = "OK" /\ last'.data = << >>
      BY <2>2 DEF NoAccess
    <3> QED
      BY <2>2, <3>1, <3>2, NoBytes DEF TypeOK, StorageType
  <2> QED
    BY <2>1, <2>2, StorageStep, AccessTypes
<1>2. CallsType'
  <2>1. ASSUME NEW p \in Param, NEW data \in ParamData[p], Begin(p, data)
        PROVE  CallsType'
    <3>1. data \in [1 .. Registered[p].size_byte -> Byte] /\ 1 \in 1 .. Len(Places(p))
      BY ParameterAssumption, PlacesType
    <3>2. <<[param |-> p, data |-> data, copy |-> 1]>> \in Seq(Call)
      BY <3>1, IsCall
    <3> QED
      BY <2>1, <3>2 DEF Begin, TypeOK, CallsType
  <2>2. CASE WriteCopy
    <3>1. Head(calls) \in Call
      BY <2>2, CopyStep
    <3>2. calls' \in Seq(Call)
      BY <2>2, LeftTypes DEF WriteCopy
    <3>3. Start(Head(calls)) \/ Complete(Head(calls)) \/ UNCHANGED <<written, tried>>
      BY <2>2 DEF WriteCopy
    <3> QED
      BY <3>1, <3>2, <3>3, HistoryTypes DEF CallsType
  <2>3. CASE GroundCommand
    BY <2>3 DEF GroundCommand, TypeOK, CallsType
  <2>4. CASE Reset
    BY <2>4, ParameterAssumption DEF Reset, TypeOK, CallsType
  <2>5. CASE UNCHANGED vars
    BY <2>5 DEF vars, TypeOK, CallsType
  <2> QED
    BY <2>1, <2>2, <2>3, <2>4, <2>5 DEF Next
<1> QED
  BY <1>1, <1>2, TypeInTwo DEF TypeOK, StorageType, CallsType

\* Every byte stays a byte, every access and every call is one: for any devices, tables,
\* failures and resets.
THEOREM TypeCorrect == Spec => []TypeOK
<1>1. Init => TypeOK
  BY TypeInit
<1>2. TypeOK /\ [Next]_vars => TypeOK'
  BY TypeStep
<1> QED
  BY <1>1, <1>2, PTL DEF Spec

-----------------------------------------------------------------------------
(* One row of bytes, and partitions in it. *)

\* A write leaves every byte it is not asked for.
LEMMA WritesInside ==
    ASSUME NEW f \in Memory, NEW g \in Nat, NEW bytes \in Seq(Byte), NEW o, Writes(f, g, bytes, o),
           NEW h \in GlobalAddress, RowOf(o.fram)[h] # RowOf(f)[h]
    PROVE  g <= h /\ h < g + Len(bytes)
<1>1. PICK k \in 0 .. Len(bytes) : RowOf(o.fram) = Put(RowOf(f), g, First(bytes, k))
  BY DEF Writes
<1>2. Len(bytes) \in Nat /\ h \in Nat
  BY ByteSequence, RowType
<1>3. RowOf(f) \in [GlobalAddress -> Byte]
  BY RowType
<1>4. DOMAIN First(bytes, k) = 1 .. k
  BY DEF First
<1>5. h - g + 1 \in 1 .. k
  BY <1>1, <1>3, <1>4 DEF Put
<1> QED
  BY <1>2, <1>5

\* The devices in a state and after a step, as one row.
LEMMA RowNames ==
    Row = RowOf(fram) /\ Row' = RowOf(fram')
BY DEF Row, RowOf

\* An access to a partition changes no byte outside it.
THEOREM Isolation == Spec => PartitionsIsolated
<1>1. ASSUME TypeOK, [Next]_vars, last'.by \in PartitionId,
             NEW g \in GlobalAddress, Row'[g] # Row[g]
      PROVE  g \in Extent(last'.by)
  <2>1. RowOf(fram')[g] # RowOf(fram)[g] /\ fram' # fram
    BY <1>1, RowNames
  <2>2. PICK by \in PartitionId \cup {"GLOBAL"}, at \in Nat :
          \/ \E bytes \in Seq(Byte) : WriteStep(by, at, bytes)
          \/ \E n \in Nat : ReadStep(by, at, n)
    BY <1>1, <2>1, StorageStep DEF Access
  <2>3. PICK bytes \in Seq(Byte) : WriteStep(by, at, bytes)
    BY <2>1, <2>2 DEF ReadStep, HasRead
  <2>4. PICK o : /\ Writes(fram, at, bytes, o)
                 /\ Wrote(by, at, bytes, o)
                 /\ by \in PartitionId =>
                      \/ o.ret # "OK" /\ o.fram = fram
                      \/ /\ Elements[by].start_address <= at
                         /\ at + Len(bytes) <= Elements[by].start_address + Elements[by].size_byte
    BY <2>3 DEF WriteStep
  <2>5. fram' = o.fram /\ last'.by = by
    BY <2>4 DEF Wrote
  <2>6. at <= g /\ g < at + Len(bytes)
    BY <1>1, <2>1, <2>4, <2>5, MemoryType, WritesInside
  <2>7. /\ Elements[by].start_address <= at
        /\ at + Len(bytes) <= Elements[by].start_address + Elements[by].size_byte
        /\ Elements[by].start_address \in Nat /\ Elements[by].size_byte \in Nat
    BY <1>1, <2>1, <2>4, <2>5, PartitionAssumption
  <2>8. g \in Nat /\ Len(bytes) \in Nat
    BY RowType, ByteSequence, Sizes DEF GlobalAddress
  <2> QED
    BY <2>5, <2>6, <2>7, <2>8 DEF Extent
<1>2. TypeOK /\ [Next]_vars =>
        [last'.by \in PartitionId => \A g \in GlobalAddress : Row'[g] # Row[g] => g \in Extent(last'.by)]_vars
  BY <1>1
<1> QED
  BY <1>2, TypeCorrect, PTL DEF Spec, PartitionsIsolated

\* The row starts as a row of bytes, with no request.
LEMMA RefinesInit ==
    Init => Flat!Init
<1> SUFFICES ASSUME Init
             PROVE  Flat!Init
  OBVIOUS
<1>1. fram \in Memory
  BY TypeInit, MemoryType
<1>2. Row \in [0 .. APP_NVM_MANAGER_STOP_ADDRESS - 1 -> Byte]
  BY <1>1, RowNames, RowType DEF GlobalAddress
<1>3. last = NoAccess
  BY DEF Init, StorageInit
<1> QED
  BY <1>2, <1>3 DEF Flat!Init, Flat!NoRequest, NoAccess

\* A write is a write to the row, or fails without having written anything.
LEMMA RefinesWrite ==
    ASSUME TypeOK, NEW by, NEW g \in Nat, NEW bytes \in Seq(Byte), WriteStep(by, g, bytes)
    PROVE  Flat!Write \/ Flat!Fail
<1>1. PICK o : Writes(fram, g, bytes, o) /\ Wrote(by, g, bytes, o)
  BY DEF WriteStep
<1>2. /\ fram' = o.fram
      /\ last' = [by |-> by, req |-> [op |-> "write", at |-> g, bytes |-> bytes],
                  ret |-> o.ret, data |-> << >>]
  BY <1>1 DEF Wrote
<1>3. PICK k \in 0 .. Len(bytes) :
        /\ RowOf(o.fram) = Put(RowOf(fram), g, First(bytes, k))
        /\ o.ret = "OK" => k = Len(bytes)
        /\ o.ret = "OK" \/ k # 0 => g + Len(bytes) <= APP_NVM_MANAGER_STOP_ADDRESS
  BY <1>1 DEF Writes
<1>4. /\ last'.req \in Flat!WriteRequest
      /\ last'.req.at = g /\ last'.req.bytes = bytes
      /\ last'.ret = o.ret
      /\ last'.data = << >>
  BY <1>2 DEF Flat!WriteRequest
<1>5. Row' = Put(Row, g, First(bytes, k))
  BY <1>2, <1>3, RowNames
<1>6. CASE o.ret = "OK"
  <2>1. Row' = Put(Row, g, bytes)
    BY <1>3, <1>5, <1>6, FirstAll
  <2>2. Row' = Flat!Put(Row, last'.req.at, last'.req.bytes)
    BY <1>4, <2>1 DEF Put, Flat!Put
  <2> QED
    BY <1>3, <1>4, <1>6, <2>2 DEF Flat!Write
<1>7. CASE o.ret # "OK" /\ k = 0
  <2>1. Row' = Row
    BY <1>5, <1>7, MemoryType, RowType, RowNames, PutNothing
  <2> QED
    BY <1>4, <1>7, <2>1 DEF Flat!Fail
<1>8. CASE o.ret # "OK" /\ k # 0
  <2>1. Row' = Flat!Put(Row, last'.req.at, Flat!First(last'.req.bytes, k))
    BY <1>4, <1>5 DEF Put, First, Flat!Put, Flat!First
  <2> QED
    BY <1>3, <1>4, <1>8, <2>1 DEF Flat!Write
<1> QED
  BY <1>6, <1>7, <1>8

\* A read is a read of the row, or fails.
LEMMA RefinesRead ==
    ASSUME TypeOK, NEW by, NEW g \in Nat, NEW n \in Nat, ReadStep(by, g, n)
    PROVE  Flat!Read \/ Flat!Fail
<1>1. PICK o : Reads(fram, g, n, o) /\ HasRead(by, g, n, o)
  BY DEF ReadStep
<1>2. /\ fram' = fram
      /\ last' = [by |-> by, req |-> [op |-> "read", at |-> g, n |-> n], ret |-> o.ret, data |-> o.data]
  BY <1>1 DEF HasRead
<1>3. /\ last'.req \in Flat!ReadRequest
      /\ last'.req.at = g /\ last'.req.n = n
      /\ last'.ret = o.ret
      /\ last'.data = o.data
  BY <1>2 DEF Flat!ReadRequest
<1>4. Row' = Row
  BY <1>2, RowNames
<1>5. CASE o.ret = "OK"
  <2>1. last'.data = Flat!Get(Row, last'.req.at, last'.req.n)
    BY <1>1, <1>3, <1>5, RowNames DEF Reads, Get, Flat!Get
  <2>2. g + n <= APP_NVM_MANAGER_STOP_ADDRESS
    BY <1>1, <1>5 DEF Reads
  <2> QED
    BY <1>3, <1>4, <1>5, <2>1, <2>2 DEF Flat!Read
<1>6. CASE o.ret # "OK"
  BY <1>1, <1>3, <1>4, <1>6 DEF Reads, Flat!Fail
<1> QED
  BY <1>5, <1>6

LEMMA RefinesStep ==
    ASSUME TypeOK, [Next]_vars
    PROVE  [Flat!Next]_(Flat!vars)
<1>1. CASE Access
  <2>1. PICK by \in PartitionId \cup {"GLOBAL"}, g \in Nat :
          \/ \E bytes \in Seq(Byte) : WriteStep(by, g, bytes)
          \/ \E n \in Nat : ReadStep(by, g, n)
    BY <1>1 DEF Access
  <2>2. Flat!Write \/ Flat!Read \/ Flat!Fail
    BY <2>1, RefinesWrite, RefinesRead
  <2> QED
    BY <2>2 DEF Flat!Next
<1>2. CASE UNCHANGED <<fram, last>>
  <2>1. Row' = Row
    BY <1>2, RowNames
  <2> QED
    BY <1>2, <2>1 DEF Flat!vars
<1>3. CASE last' = NoAccess /\ UNCHANGED fram
  <2>1. Row' = Row
    BY <1>3, RowNames
  <2>2. last'.req = Flat!NoRequest /\ last'.ret = "OK" /\ last'.data = << >>
    BY <1>3 DEF NoAccess, Flat!NoRequest
  <2> QED
    BY <2>1, <2>2 DEF Flat!Next, Flat!Forget
<1> QED
  BY <1>1, <1>2, <1>3, StorageStep

\* The storage implements one row of bytes, whatever the number and the size of the devices,
\* wherever a partition lies, and however accesses fail.
THEOREM Refinement == Spec => StoresBytes
<1>1. Init => Flat!Init
  BY RefinesInit
<1>2. TypeOK /\ [Next]_vars => [Flat!Next]_(Flat!vars)
  BY RefinesStep
<1> QED
  BY <1>1, <1>2, TypeCorrect, PTL DEF Spec, StoresBytes, Flat!Spec

-----------------------------------------------------------------------------
(* The copies of a parameter. *)

\* Whether every copy of a parameter lies inside its partition: the registration checks the
\* first one only, and an access to another one is refused if it does not fit.
Fits(p) ==
    \A i \in DOMAIN Places(p) :
        APP_NVM_PARTITION_check(Places(p)[i], Registered[p].start_address, Registered[p].size_byte) = "OK"

\* Where a copy is, and what is there.
AddressOf(p, i) == Elements[Places(p)[i]].start_address + Registered[p].start_address
Stored(p, i) == Get(Row, AddressOf(p, i), Registered[p].size_byte)

\* The numbers of a parameter, and where its copies lie.
LEMMA CopyPlace ==
    ASSUME NEW p \in Param, NEW i \in DOMAIN Places(p)
    PROVE  /\ Places(p)[i] \in PartitionId
           /\ Places(p)[i] \in Copies(p)
           /\ Registered[p].start_address \in Nat
           /\ Registered[p].size_byte \in Nat
           /\ Elements[Places(p)[i]].start_address \in Nat
           /\ Elements[Places(p)[i]].size_byte \in Nat
           /\ Elements[Places(p)[i]].start_address + Elements[Places(p)[i]].size_byte
                <= APP_NVM_MANAGER_STOP_ADDRESS
           /\ AddressOf(p, i) \in Nat
<1>1. Places(p)[i] \in Copies(p) /\ Places(p)[i] \in PartitionId
  BY ParameterAssumption DEF Copies
<1>2. Registered[p].start_address \in Nat /\ Registered[p].size_byte \in Nat
  BY ParameterAssumption
<1>3. Elements[Places(p)[i]].start_address \in Nat /\ Elements[Places(p)[i]].size_byte \in Nat
  BY <1>1, PartitionAssumption
<1> QED
  BY <1>1, <1>2, <1>3, StorageAssumption DEF AddressOf

\* A byte of a copy that fits is a byte of the row, of the copy's partition, and of the
\* parameter's space in it.
LEMMA CopyByte ==
    ASSUME NEW p \in Param, NEW i \in DOMAIN Places(p), Fits(p), NEW j \in 1 .. Registered[p].size_byte
    PROVE  /\ AddressOf(p, i) + j - 1 \in GlobalAddress
           /\ AddressOf(p, i) + j - 1 \in Extent(Places(p)[i])
           /\ (AddressOf(p, i) + j - 1) - Elements[Places(p)[i]].start_address \in Space(p)
<1> DEFINE place == Places(p)[i]
           base == Elements[place].start_address
           size == Elements[place].size_byte
           start == Registered[p].start_address
           n == Registered[p].size_byte
<1>1. /\ base \in Nat /\ size \in Nat /\ start \in Nat /\ n \in Nat
      /\ base + size <= APP_NVM_MANAGER_STOP_ADDRESS
      /\ AddressOf(p, i) = base + start
  BY CopyPlace DEF AddressOf
<1>2. start + n <= size
  BY <1>1 DEF Fits, APP_NVM_PARTITION_check
<1> HIDE DEF base, size, start, n, place
<1>3. j \in 1 .. n
  BY DEF n
<1>4. /\ (base + start) + j - 1 \in 0 .. APP_NVM_MANAGER_STOP_ADDRESS - 1
      /\ (base + start) + j - 1 \in base .. base + size - 1
      /\ ((base + start) + j - 1) - base \in start .. start + n - 1
  BY <1>1, <1>2, <1>3, Sizes
<1> QED
  BY <1>1, <1>4 DEF GlobalAddress, Extent, Space, base, size, start, n, place

\* What is stored does not change if no byte of it does.
LEMMA StoredKept ==
    ASSUME NEW p \in Param, NEW i \in DOMAIN Places(p),
           \A j \in 1 .. Registered[p].size_byte :
               Row'[AddressOf(p, i) + j - 1] = Row[AddressOf(p, i) + j - 1]
    PROVE  Stored(p, i)' = Stored(p, i)
<1>1. Stored(p, i)' = Get(Row', AddressOf(p, i), Registered[p].size_byte)
  BY DEF Stored, AddressOf, Get
<1> QED
  BY <1>1 DEF Stored, Get

\* Two copies share no byte.
LEMMA CopiesApart ==
    ASSUME NEW p \in Param, NEW i \in DOMAIN Places(p), NEW q \in Param, NEW k \in DOMAIN Places(q),
           p # q \/ i # k, NEW h \in Int,
           h \in Extent(Places(p)[i]), h - Elements[Places(p)[i]].start_address \in Space(p),
           h \in Extent(Places(q)[k]), h - Elements[Places(q)[k]].start_address \in Space(q)
    PROVE  FALSE
<1>1. Places(p)[i] \in PartitionId /\ Places(q)[k] \in PartitionId
  BY CopyPlace
<1>2. Places(p)[i] = Places(q)[k]
  BY <1>1, StorageAssumption
<1>3. CASE p # q
  <2>1. Copies(p) \cap Copies(q) # {}
    BY <1>2, CopyPlace
  <2>2. Space(p) \cap Space(q) = {}
    BY <1>3, <2>1, ParameterAssumption
  <2> QED
    BY <1>2, <2>2
<1>4. CASE p = q /\ i # k
  <2>1. CASE p \in RedundantParam
    BY <1>2, <1>4, <2>1 DEF Places
  <2>2. CASE p \notin RedundantParam
    BY <1>4, <2>2, PlacesType
  <2> QED
    BY <2>1, <2>2
<1> QED
  BY <1>3, <1>4

\* Writing a copy leaves the others as they are, whatever happens to the write.
LEMMA OtherCopies ==
    ASSUME TypeOK, WriteCopy, NEW q \in Param, NEW k \in DOMAIN Places(q), Fits(q),
           Head(calls).param # q \/ Head(calls).copy # k
    PROVE  Stored(q, k)' = Stored(q, k)
<1> DEFINE c == Head(calls)
           p == c.param
           i == c.copy
           place == Places(p)[i]
           g == AddressOf(p, i)
<1>1. /\ c \in Call /\ place \in PartitionId
      /\ g \in Nat
      /\ WriteStep(place, g, c.data)
  BY CopyStep DEF AddressOf
<1>2. /\ p \in Param /\ i \in DOMAIN Places(p)
      /\ c.data \in Seq(Byte) /\ Len(c.data) = Registered[p].size_byte
  BY <1>1, CallType, PlacesType
<1>3. PICK o : /\ Writes(fram, g, c.data, o)
               /\ Wrote(place, g, c.data, o)
               /\ place \in PartitionId =>
                    \/ o.ret # "OK" /\ o.fram = fram
                    \/ /\ Elements[place].start_address <= g
                       /\ g + Len(c.data) <= Elements[place].start_address + Elements[place].size_byte
  BY <1>1 DEF WriteStep
<1>4. fram' = o.fram
  BY <1>3 DEF Wrote
<1>5. ASSUME NEW j \in 1 .. Registered[q].size_byte,
             Row'[AddressOf(q, k) + j - 1] # Row[AddressOf(q, k) + j - 1]
      PROVE  FALSE
  <2> DEFINE h == AddressOf(q, k) + j - 1
  <2>1. /\ h \in GlobalAddress
        /\ h \in Extent(Places(q)[k])
        /\ h - Elements[Places(q)[k]].start_address \in Space(q)
    BY CopyByte
  <2> HIDE DEF h
  <2>2. RowOf(fram')[h] # RowOf(fram)[h]
    BY <1>5, RowNames DEF h
  <2>3. g <= h /\ h < g + Len(c.data)
    BY <1>1, <1>2, <1>3, <1>4, <2>1, <2>2, MemoryType, WritesInside
  <2>4. g + Len(c.data) <= Elements[place].start_address + Elements[place].size_byte
    BY <1>1, <1>3, <1>4, <2>2
  <2>5. /\ Registered[p].start_address \in Nat /\ Registered[p].size_byte \in Nat
        /\ Elements[place].start_address \in Nat /\ Elements[place].size_byte \in Nat
        /\ h \in Int
        /\ g = Elements[place].start_address + Registered[p].start_address
    BY <1>2, <2>1, CopyPlace, Sizes DEF GlobalAddress, AddressOf
  <2>6. h \in Extent(place) /\ h - Elements[place].start_address \in Space(p)
    <3> DEFINE base == Elements[place].start_address
               size == Elements[place].size_byte
               start == Registered[p].start_address
               n == Registered[p].size_byte
    <3>1. /\ base + start <= h /\ h < (base + start) + n /\ (base + start) + n <= base + size
          /\ start \in Nat /\ n \in Nat /\ base \in Nat /\ size \in Nat /\ h \in Int
      BY <1>2, <2>3, <2>4, <2>5
    <3> HIDE DEF base, size, start, n
    <3>2. h \in base .. base + size - 1 /\ h - base \in start .. start + n - 1
      BY <3>1
    <3> QED
      BY <3>2 DEF Extent, Space, base, size, start, n
  <2> QED
    BY <1>2, <2>1, <2>5, <2>6, CopiesApart
<1> QED
  BY <1>5, StoredKept

\* A copy that was written without error is what was to be written.
LEMMA WrittenCopy ==
    ASSUME TypeOK, WriteCopy, last'.ret = "OK", NEW c, c = Head(calls)
    PROVE  Stored(c.param, c.copy)' = c.data
<1> DEFINE p == c.param
           i == c.copy
           g == AddressOf(p, i)
           n == Registered[p].size_byte
<1>1. /\ c \in Call /\ Places(p)[i] \in PartitionId
      /\ g \in Nat
      /\ WriteStep(Places(p)[i], g, c.data)
  BY CopyStep DEF AddressOf
<1>2. /\ n \in Nat
      /\ c.data \in [1 .. n -> Byte]
      /\ c.data \in Seq(Byte) /\ Len(c.data) = n
  BY <1>1, CallType
<1>3. PICK o : Writes(fram, g, c.data, o) /\ Wrote(Places(p)[i], g, c.data, o)
  BY <1>1 DEF WriteStep
<1>4. fram' = o.fram /\ o.ret = "OK"
  BY <1>3 DEF Wrote
<1>5. /\ RowOf(fram') = Put(RowOf(fram), g, First(c.data, Len(c.data)))
      /\ g + n <= APP_NVM_MANAGER_STOP_ADDRESS
  BY <1>2, <1>3, <1>4 DEF Writes
<1>6. Row' = Put(Row, g, c.data)
  BY <1>2, <1>5, FirstAll, RowNames
<1> HIDE DEF n, g
<1>7. ASSUME NEW j \in 1 .. n
      PROVE  Row'[g + j - 1] = c.data[j]
  <2>1. g + j - 1 \in GlobalAddress
    BY <1>1, <1>2, <1>5, Sizes DEF GlobalAddress
  <2>2. g + j - 1 \in DOMAIN Row
    BY <2>1 DEF Row
  <2>3. (g + j - 1) - g + 1 = j /\ j \in DOMAIN c.data
    BY <1>1, <1>2
  <2> QED
    BY <1>6, <2>2, <2>3 DEF Put
<1>8. Stored(p, i)' = Get(Row', g, n)
  BY DEF Stored, AddressOf, Get, g, n
<1>9. Get(Row', g, n) = [j \in 1 .. n |-> c.data[j]]
  BY <1>7 DEF Get
<1> QED
  BY <1>2, <1>8, <1>9

-----------------------------------------------------------------------------
(* The inductive invariant of the copies. *)

\* The call under way has written some copies of p and is at copy k.
UnderWay(p, k) == calls # << >> /\ Head(calls).param = p /\ Head(calls).copy = k

\* The calls to come start with the first copy.
OneUnderWay == \A k \in 2 .. Len(calls) : calls[k].copy = 1

\* Without a call since, every copy is what the last call wrote.
Settled ==
    \A p \in Param : Fits(p) /\ written[p] # Unknown /\ tried[p] = Unknown =>
        \A i \in DOMAIN Places(p) : Stored(p, i) = written[p]

\* With one call since, the first copy is new or the last one is still old.
OneEnd ==
    \A p \in RedundantParam : Fits(p) /\ written[p] # Unknown /\ tried[p] # Unknown =>
        Stored(p, 1) = tried[p] \/ Stored(p, 3) = written[p]

\* In the middle of a call, the copies before its place are new and the others still old.
Halfway ==
    \A p \in Param, k \in 2 .. 3 : Fits(p) /\ UnderWay(p, k) =>
        /\ \A i \in 1 .. k - 1 : Stored(p, i) = Head(calls).data
        /\ written[p] # Unknown =>
            /\ tried[p] = Head(calls).data
            /\ \A i \in k .. 3 : Stored(p, i) = written[p]

CopiesInv == OneUnderWay /\ Settled /\ OneEnd /\ Halfway

IInv == TypeOK /\ CopiesInv

\* The calls of a list that starts every call with the first copy.
LEMMA FirstCopies ==
    ASSUME \A k \in DOMAIN calls' : calls'[k].copy = 1, calls' \in Seq(Call)
    PROVE  /\ OneUnderWay'
           /\ \A p, k : UnderWay(p, k)' => k = 1
<1>1. ASSUME calls' # << >>
      PROVE  1 \in DOMAIN calls' /\ Head(calls') = calls'[1]
  BY <1>1
<1>2. \A p, k : UnderWay(p, k)' => k = 1
  BY <1>1 DEF UnderWay
<1>3. \A k \in 2 .. Len(calls') : k \in DOMAIN calls'
  BY LenProperties
<1> QED
  BY <1>2, <1>3 DEF OneUnderWay

\* If the bytes are as before, the copies are.
LEMMA SameRow ==
    ASSUME Row' = Row
    PROVE  \A p \in Param : \A i \in DOMAIN Places(p) : Stored(p, i)' = Stored(p, i)
BY StoredKept

\* Three copies of a redundant parameter, one of a normal one.
LEMMA CopyNumbers ==
    ASSUME NEW p \in Param
    PROVE  /\ p \in RedundantParam => DOMAIN Places(p) = 1 .. 3
           /\ p \notin RedundantParam => DOMAIN Places(p) = 1 .. 1
BY PlacesType

\* A parameter that the step leaves alone keeps what the invariant says of it.
Undisturbed(p) ==
    /\ Fits(p) => \A i \in DOMAIN Places(p) : Stored(p, i)' = Stored(p, i)
    /\ written'[p] = written[p]
    /\ tried'[p] = tried[p]

LEMMA KeptCopies ==
    ASSUME TypeOK, CopiesInv, OneUnderWay',
           \A p \in Param : Undisturbed(p) \/ written'[p] = Unknown,
           \A p, k : UnderWay(p, k)' => k = 1
    PROVE  CopiesInv'
<1>1. Settled'
  <2> SUFFICES ASSUME NEW p \in Param, Fits(p), written'[p] # Unknown, tried'[p] = Unknown,
                      NEW i \in DOMAIN Places(p)
               PROVE  Stored(p, i)' = written'[p]
    BY DEF Settled, Fits
  <2> QED
    BY DEF CopiesInv, Settled, Undisturbed
<1>2. OneEnd'
  <2> SUFFICES ASSUME NEW p \in RedundantParam, Fits(p), written'[p] # Unknown, tried'[p] # Unknown
               PROVE  Stored(p, 1)' = tried'[p] \/ Stored(p, 3)' = written'[p]
    BY DEF OneEnd, Fits
  <2>1. p \in Param /\ 1 \in DOMAIN Places(p) /\ 3 \in DOMAIN Places(p)
    BY CopyNumbers DEF Param
  <2> QED
    BY <2>1 DEF CopiesInv, OneEnd, Undisturbed
<1>3. Halfway'
  <2> SUFFICES ASSUME NEW p \in Param, NEW k \in 2 .. 3, UnderWay(p, k)'
               PROVE  FALSE
    BY DEF Halfway
  <2> QED
    OBVIOUS
<1> QED
  BY <1>1, <1>2, <1>3 DEF CopiesInv

\* Before the first step nothing has been written.
LEMMA CopiesInit ==
    Init => CopiesInv
<1> SUFFICES ASSUME Init
             PROVE  CopiesInv
  OBVIOUS
<1>1. /\ calls = BootCalls /\ BootCalls \in Seq(Call)
      /\ \A k \in DOMAIN BootCalls : BootCalls[k].copy = 1
      /\ \A p \in Param : written[p] = Unknown
  BY ParameterAssumption DEF Init
<1>2. \A k \in 2 .. Len(calls) : k \in DOMAIN calls
  BY <1>1, LenProperties
<1>3. OneUnderWay
  BY <1>1, <1>2 DEF OneUnderWay
<1>4. Settled /\ OneEnd
  BY <1>1 DEF Settled, OneEnd, Param
<1>5. Halfway
  <2> SUFFICES ASSUME NEW p \in Param, NEW k \in 2 .. 3, UnderWay(p, k)
               PROVE  FALSE
    BY DEF Halfway
  <2>1. 1 \in DOMAIN calls /\ Head(calls) = calls[1]
    BY <1>1 DEF UnderWay
  <2> QED
    BY <1>1, <2>1 DEF UnderWay
<1> QED
  BY <1>3, <1>4, <1>5 DEF CopiesInv

\* What is left to call after a copy.
LEMMA LeftCalls ==
    ASSUME TypeOK, CopiesInv, WriteCopy, NEW c, c = Head(calls)
    PROVE  /\ OneUnderWay'
           /\ \A p, k : UnderWay(p, k)' /\ k # 1 =>
                /\ p = c.param /\ k = c.copy + 1
                /\ Head(calls').data = c.data
                /\ last'.ret = "OK" /\ c.copy < Len(Places(p))
<1> DEFINE next == [c EXCEPT !.copy = @ + 1]
           goesOn == last'.ret = "OK" /\ c.copy < Len(Places(c.param))
<1>1. /\ calls # << >> /\ calls \in Seq(Call) /\ calls' = Left(c, last'.ret)
      /\ Tail(calls) \in Seq(Call)
      /\ c \in Call
  BY CopyStep, LeftTypes DEF WriteCopy, TypeOK
<1>2. \A k \in 1 .. Len(Tail(calls)) : Tail(calls)[k].copy = 1
  <2>1. Len(Tail(calls)) = Len(calls) - 1 /\ Len(calls) \in Nat
    BY <1>1
  <2>2. \A k \in 1 .. Len(Tail(calls)) : Tail(calls)[k] = calls[k + 1] /\ k + 1 \in 2 .. Len(calls)
    BY <1>1, <2>1
  <2> QED
    BY <2>2 DEF CopiesInv, OneUnderWay
<1>3. CASE goesOn
  <2>1. calls' = <<next>> \o Tail(calls) /\ next \in Call
    BY <1>1, <1>3, LeftTypes DEF Left
  <2>2. next.param = c.param /\ next.copy = c.copy + 1 /\ next.data = c.data
    BY <1>1, CallType
  <2> HIDE DEF next
  <2>3. /\ Len(calls') = 1 + Len(Tail(calls)) /\ Len(Tail(calls)) \in Nat
        /\ calls' # << >> /\ Head(calls') = next
        /\ \A k \in 2 .. 1 + Len(Tail(calls)) : calls'[k] = Tail(calls)[k - 1]
    BY <1>1, <2>1
  <2>4. \A k \in 2 .. Len(calls') : calls'[k].copy = 1
    <3>1. \A k \in 2 .. Len(calls') : k - 1 \in 1 .. Len(Tail(calls))
      BY <2>3
    <3> QED
      BY <1>2, <2>3, <3>1
  <2> QED
    BY <1>3, <2>2, <2>3, <2>4 DEF OneUnderWay, UnderWay
<1>4. CASE ~goesOn
  <2>1. calls' = Tail(calls)
    BY <1>1, <1>4 DEF Left
  <2>2. \A k \in DOMAIN calls' : calls'[k].copy = 1
    BY <1>1, <1>2, <2>1, LenProperties
  <2> QED
    BY <1>1, <2>1, <2>2, FirstCopies
<1> QED
  BY <1>3, <1>4

\* What WriteCopy does to the histories.
LEMMA CopyHistory ==
    ASSUME TypeOK, WriteCopy, NEW c, c = Head(calls)
    PROVE  /\ c \in Call
           /\ \A p \in Param : p # c.param => written'[p] = written[p] /\ tried'[p] = tried[p]
           /\ last'.ret = "OK" /\ c.copy = Len(Places(c.param)) =>
                written'[c.param] = c.data /\ tried'[c.param] = Unknown
           /\ ~(last'.ret = "OK" /\ c.copy = Len(Places(c.param))) =>
                /\ c.copy # 1 => written'[c.param] = written[c.param] /\ tried'[c.param] = tried[c.param]
                /\ c.copy = 1 /\ written'[c.param] # Unknown =>
                    /\ tried[c.param] = Unknown
                    /\ written'[c.param] = written[c.param]
                    /\ tried'[c.param] = c.data
<1>1. c \in Call /\ c.param \in Param
  BY CopyStep, CallType
<1>2. DOMAIN written = Param /\ DOMAIN tried = Param
  BY DEF TypeOK
<1>3. IF last'.ret = "OK" /\ c.copy = Len(Places(c.param)) THEN Complete(c)
      ELSE IF c.copy = 1 THEN Start(c)
      ELSE UNCHANGED <<written, tried>>
  BY DEF WriteCopy
<1>4. CASE last'.ret = "OK" /\ c.copy = Len(Places(c.param))
  BY <1>1, <1>2, <1>3, <1>4 DEF Complete
<1>5. CASE ~(last'.ret = "OK" /\ c.copy = Len(Places(c.param))) /\ c.copy = 1
  <2>1. Start(c)
    BY <1>3, <1>5
  <2>2. \A p \in Param : p # c.param => written'[p] = written[p] /\ tried'[p] = tried[p]
    BY <1>1, <1>2, <2>1 DEF Start
  <2>3. ASSUME written'[c.param] # Unknown
        PROVE  /\ tried[c.param] = Unknown
               /\ written'[c.param] = written[c.param]
               /\ tried'[c.param] = c.data
    BY <1>1, <1>2, <2>1, <2>3 DEF Start
  <2> QED
    BY <1>1, <1>5, <2>2, <2>3
<1>6. CASE ~(last'.ret = "OK" /\ c.copy = Len(Places(c.param))) /\ c.copy # 1
  BY <1>1, <1>3, <1>6
<1> QED
  BY <1>4, <1>5, <1>6

\* Nothing but a parameter without bytes has data that look like no call.
LEMMA KnownData ==
    ASSUME TypeOK, NEW p \in Param, written[p] # Unknown,
           NEW data \in [1 .. Registered[p].size_byte -> Byte]
    PROVE  data # Unknown
<1>1. written[p] \in [1 .. Registered[p].size_byte -> Byte] /\ Registered[p].size_byte \in Nat
  BY ParameterAssumption DEF TypeOK
<1>2. CASE Registered[p].size_byte = 0
  <2>1. written[p] = << >>
    BY <1>1, <1>2
  <2> QED
    BY <2>1 DEF Unknown
<1>3. CASE Registered[p].size_byte # 0
  <2>1. 1 \in DOMAIN data
    BY <1>1, <1>3
  <2>2. 1 \notin DOMAIN << >>
    OBVIOUS
  <2> HIDE DEF Unknown
  <2>3. 1 \notin DOMAIN Unknown
    BY <2>2 DEF Unknown
  <2> QED
    BY <2>1, <2>3
<1> QED
  BY <1>2, <1>3

\* Writing a copy keeps the invariant of the parameter that it is a copy of.
LEMMA CopyKeeps ==
    ASSUME TypeOK, CopiesInv, WriteCopy, NEW c, c = Head(calls), Fits(c.param)
    PROVE  /\ written'[c.param] # Unknown /\ tried'[c.param] = Unknown =>
                \A i \in DOMAIN Places(c.param) : Stored(c.param, i)' = written'[c.param]
           /\ c.param \in RedundantParam /\ written'[c.param] # Unknown /\ tried'[c.param] # Unknown =>
                Stored(c.param, 1)' = tried'[c.param] \/ Stored(c.param, 3)' = written'[c.param]
           /\ last'.ret = "OK" /\ c.copy < Len(Places(c.param)) =>
                /\ \A i \in 1 .. c.copy : Stored(c.param, i)' = c.data
                /\ written'[c.param] # Unknown =>
                    /\ tried'[c.param] = c.data
                    /\ \A i \in c.copy + 1 .. 3 : Stored(c.param, i)' = written'[c.param]
<1> DEFINE p == c.param
           k == c.copy
           isLast == last'.ret = "OK" /\ k = Len(Places(p))
<1>1. /\ c \in Call /\ p \in Param
      /\ c.data \in [1 .. Registered[p].size_byte -> Byte]
      /\ k \in DOMAIN Places(p)
      /\ calls # << >>
  BY CopyStep, CallType, PlacesType DEF WriteCopy
<1>2. ASSUME NEW i \in DOMAIN Places(p), i # k
      PROVE  Stored(p, i)' = Stored(p, i)
  BY <1>1, <1>2, OtherCopies
<1>3. last'.ret = "OK" => Stored(p, k)' = c.data
  BY WrittenCopy
<1>4. /\ p \in RedundantParam => DOMAIN Places(p) = 1 .. 3 /\ Len(Places(p)) = 3
      /\ p \notin RedundantParam => DOMAIN Places(p) = 1 .. 1 /\ Len(Places(p)) = 1
  BY <1>1, CopyNumbers, PlacesType
<1>5. /\ isLast => written'[p] = c.data /\ tried'[p] = Unknown
      /\ ~isLast => /\ k # 1 => written'[p] = written[p] /\ tried'[p] = tried[p]
                    /\ k = 1 /\ written'[p] # Unknown =>
                        /\ tried[p] = Unknown
                        /\ written'[p] = written[p]
                        /\ tried'[p] = c.data
  BY CopyHistory
<1>6. written[p] # Unknown => c.data # Unknown
  BY <1>1, KnownData
<1>7. ASSUME k # 1
      PROVE  /\ p \in RedundantParam /\ k \in 2 .. 3
             /\ \A i \in 1 .. k - 1 : Stored(p, i) = c.data
             /\ written[p] # Unknown =>
                 /\ tried[p] = c.data
                 /\ \A i \in k .. 3 : Stored(p, i) = written[p]
  <2>1. p \in RedundantParam /\ k \in 2 .. 3
    BY <1>1, <1>4, <1>7
  <2>2. UnderWay(p, k)
    BY <1>1 DEF UnderWay
  <2> QED
    BY <1>1, <2>1, <2>2 DEF CopiesInv, Halfway
<1> HIDE DEF p, k
<1>8. CASE isLast
  <2>1. \A i \in DOMAIN Places(p) : Stored(p, i)' = c.data
    <3>1. CASE k = 1
      BY <1>3, <1>4, <1>8, <3>1
    <3>2. CASE k # 1
      <4>1. k = 3 /\ DOMAIN Places(p) = 1 .. 3
        BY <1>4, <1>7, <1>8, <3>2
      <4>2. \A i \in 1 .. 2 : Stored(p, i)' = c.data
        BY <1>2, <1>7, <4>1
      <4> QED
        BY <1>3, <1>8, <4>1, <4>2
    <3> QED
      BY <3>1, <3>2
  <2> QED
    BY <1>4, <1>5, <1>8, <2>1 DEF p, k
<1>9. CASE ~isLast /\ k = 1
  <2>1. ASSUME written'[p] # Unknown
        PROVE  /\ written'[p] = written[p] /\ tried'[p] = c.data /\ c.data # Unknown
               /\ \A i \in DOMAIN Places(p) : i # 1 => Stored(p, i)' = written'[p]
    <3>1. tried[p] = Unknown /\ written'[p] = written[p] /\ tried'[p] = c.data /\ c.data # Unknown
      BY <1>5, <1>6, <1>9, <2>1
    <3>2. \A i \in DOMAIN Places(p) : Stored(p, i) = written[p]
      BY <1>1, <2>1, <3>1 DEF CopiesInv, Settled, p
    <3> QED
      BY <1>2, <1>9, <3>1, <3>2
  <2>2. written'[p] # Unknown => tried'[p] # Unknown
    BY <2>1
  <2>3. p \in RedundantParam /\ written'[p] # Unknown => Stored(p, 3)' = written'[p]
    BY <1>4, <2>1
  <2>4. ASSUME last'.ret = "OK", k < Len(Places(p))
        PROVE  /\ \A i \in 1 .. k : Stored(p, i)' = c.data
               /\ written'[p] # Unknown =>
                    /\ tried'[p] = c.data
                    /\ \A i \in k + 1 .. 3 : Stored(p, i)' = written'[p]
    BY <1>3, <1>4, <1>9, <2>1, <2>4
  <2> QED
    BY <2>2, <2>3, <2>4 DEF p, k
<1>10. CASE ~isLast /\ k # 1
  <2>1. written'[p] = written[p] /\ tried'[p] = tried[p]
    BY <1>5, <1>10
  <2>2. p \in RedundantParam /\ k \in 2 .. 3 /\ DOMAIN Places(p) = 1 .. 3 /\ Len(Places(p)) = 3
    BY <1>4, <1>7, <1>10
  <2>3. \A i \in 1 .. k - 1 : Stored(p, i)' = c.data
    BY <1>2, <1>7, <1>10, <2>2
  <2>4. written'[p] # Unknown => tried'[p] = c.data /\ c.data # Unknown
    BY <1>6, <1>7, <1>10, <2>1
  <2>5. written'[p] # Unknown => Stored(p, 1)' = tried'[p]
    BY <2>2, <2>3, <2>4
  <2>6. ASSUME last'.ret = "OK", k < Len(Places(p))
        PROVE  /\ \A i \in 1 .. k : Stored(p, i)' = c.data
               /\ written'[p] # Unknown => \A i \in k + 1 .. 3 : Stored(p, i)' = written'[p]
    <3>1. k = 2
      BY <2>2, <2>6
    <3>2. Stored(p, 1)' = c.data /\ Stored(p, 2)' = c.data
      BY <1>3, <2>3, <2>6, <3>1
    <3>3. written'[p] # Unknown => Stored(p, 3)' = written'[p]
      BY <1>2, <1>7, <1>10, <2>1, <2>2, <3>1
    <3> QED
      BY <3>1, <3>2, <3>3
  <2> QED
    BY <2>4, <2>5, <2>6 DEF p, k
<1> QED
  BY <1>8, <1>9, <1>10

\* Writing a copy keeps the invariant.
LEMMA WriteKeepsCopies ==
    ASSUME TypeOK, CopiesInv, WriteCopy
    PROVE  CopiesInv'
<1> SUFFICES ASSUME NEW c, c = Head(calls)
             PROVE  CopiesInv'
  OBVIOUS
<1>1. c \in Call /\ c.param \in Param
  BY CopyStep, CallType
<1>2. OneUnderWay'
  BY LeftCalls
<1>3. ASSUME NEW p \in Param, p # c.param
      PROVE  Undisturbed(p)
  <2>1. written'[p] = written[p] /\ tried'[p] = tried[p]
    BY <1>3, CopyHistory
  <2>2. ASSUME Fits(p), NEW i \in DOMAIN Places(p)
        PROVE  Stored(p, i)' = Stored(p, i)
    BY <1>3, <2>2, OtherCopies
  <2> QED
    BY <2>1, <2>2 DEF Undisturbed
<1>4. Settled'
  <2> SUFFICES ASSUME NEW p \in Param, Fits(p), written'[p] # Unknown, tried'[p] = Unknown,
                      NEW i \in DOMAIN Places(p)
               PROVE  Stored(p, i)' = written'[p]
    BY DEF Settled, Fits
  <2>1. CASE p = c.param
    BY <2>1, CopyKeeps
  <2>2. CASE p # c.param
    BY <1>3, <2>2 DEF CopiesInv, Settled, Undisturbed
  <2> QED
    BY <2>1, <2>2
<1>5. OneEnd'
  <2> SUFFICES ASSUME NEW p \in RedundantParam, Fits(p), written'[p] # Unknown, tried'[p] # Unknown
               PROVE  Stored(p, 1)' = tried'[p] \/ Stored(p, 3)' = written'[p]
    BY DEF OneEnd, Fits
  <2>1. p \in Param /\ 1 \in DOMAIN Places(p) /\ 3 \in DOMAIN Places(p)
    BY CopyNumbers DEF Param
  <2>2. CASE p = c.param
    BY <2>2, CopyKeeps
  <2>3. CASE p # c.param
    BY <1>3, <2>1, <2>3 DEF CopiesInv, OneEnd, Undisturbed
  <2> QED
    BY <2>2, <2>3
<1>6. Halfway'
  <2> SUFFICES ASSUME NEW p \in Param, NEW k \in 2 .. 3, Fits(p), UnderWay(p, k)'
               PROVE  /\ \A i \in 1 .. k - 1 : Stored(p, i)' = Head(calls').data
                      /\ written'[p] # Unknown =>
                          /\ tried'[p] = Head(calls').data
                          /\ \A i \in k .. 3 : Stored(p, i)' = written'[p]
    BY DEF Halfway, Fits
  <2>1. /\ p = c.param /\ k = c.copy + 1
        /\ Head(calls').data = c.data
        /\ last'.ret = "OK" /\ c.copy < Len(Places(c.param))
    BY LeftCalls
  <2>2. c.copy \in Nat /\ k - 1 = c.copy
    BY <1>1, <2>1, CallType, PlacesType
  <2>3. /\ \A i \in 1 .. c.copy : Stored(c.param, i)' = c.data
        /\ written'[c.param] # Unknown =>
            /\ tried'[c.param] = c.data
            /\ \A i \in c.copy + 1 .. 3 : Stored(c.param, i)' = written'[c.param]
    BY <2>1, CopyKeeps
  <2> QED
    BY <2>1, <2>2, <2>3
<1> QED
  BY <1>2, <1>4, <1>5, <1>6 DEF CopiesInv

\* A command from ground that changes no byte of a parameter leaves its copies as they are.
LEMMA GroundKeeps ==
    ASSUME TypeOK, NEW p \in Param, Fits(p), ~Changed(p), NEW i \in DOMAIN Places(p)
    PROVE  Stored(p, i)' = Stored(p, i)
<1> DEFINE n == Registered[p].size_byte
<1>1. /\ Places(p)[i] \in Copies(p)
      /\ n \in Nat
      /\ Elements[Places(p)[i]].start_address \in Nat
      /\ Registered[p].start_address \in Nat
  BY CopyPlace
<1>2. ASSUME NEW j \in 1 .. n
      PROVE  Row'[AddressOf(p, i) + j - 1] = Row[AddressOf(p, i) + j - 1]
  <2> DEFINE h == AddressOf(p, i) + j - 1
  <2>1. h \in GlobalAddress
    BY CopyByte
  <2>2. /\ j - 1 \in 0 .. n - 1
        /\ h = Elements[Places(p)[i]].start_address + Registered[p].start_address + (j - 1)
    <3> HIDE DEF n
    <3> QED
      BY <1>1 DEF AddressOf
  <2>3. fram'[DeviceOf(h)][LocalOf(h)] = fram[DeviceOf(h)][LocalOf(h)]
    BY <1>1, <2>2 DEF Changed
  <2> HIDE DEF h
  <2>4. RowOf(fram')[h] = RowOf(fram)[h]
    BY <2>1, <2>3 DEF RowOf
  <2> QED
    BY <2>4, RowNames DEF h
<1> QED
  BY <1>2, StoredKept

LEMMA CopiesStep ==
    ASSUME TypeOK, CopiesInv, [Next]_vars
    PROVE  CopiesInv'
<1>1. ASSUME UNCHANGED fram
      PROVE  \A p \in Param : \A i \in DOMAIN Places(p) : Stored(p, i)' = Stored(p, i)
  BY <1>1, RowNames, SameRow
<1>2. ASSUME NEW p \in Param, NEW data \in ParamData[p], Begin(p, data)
      PROVE  CopiesInv'
  <2>1. calls' = <<[param |-> p, data |-> data, copy |-> 1]>> /\ UNCHANGED <<fram, written, tried>>
    BY <1>2 DEF Begin
  <2>2. \A k \in DOMAIN calls' : calls'[k].copy = 1
    BY <2>1
  <2>3. calls' \in Seq(Call)
    BY TypeStep DEF TypeOK
  <2>4. \A q \in Param : Undisturbed(q)
    BY <1>1, <2>1 DEF Undisturbed
  <2> QED
    BY <2>2, <2>3, <2>4, FirstCopies, KeptCopies
<1>3. CASE WriteCopy
  BY <1>3, WriteKeepsCopies
<1>4. CASE GroundCommand
  <2>1. calls = << >> /\ calls' = << >>
    BY <1>4 DEF GroundCommand
  <2>2. \A k \in DOMAIN calls' : calls'[k].copy = 1
    <3>1. DOMAIN << >> = 1 .. 0
      BY NoBytes, LenProperties
    <3> QED
      BY <2>1, <3>1
  <2>3. calls' \in Seq(Call)
    BY TypeStep DEF TypeOK
  <2>4. \A p \in Param : Undisturbed(p) \/ written'[p] = Unknown
    <3> SUFFICES ASSUME NEW p \in Param, written'[p] # Unknown
                 PROVE  Undisturbed(p)
      OBVIOUS
    <3>1. ~Changed(p) /\ written'[p] = written[p] /\ tried'[p] = tried[p]
      BY <1>4 DEF GroundCommand
    <3> QED
      BY <3>1, GroundKeeps DEF Undisturbed
  <2> QED
    BY <2>2, <2>3, <2>4, FirstCopies, KeptCopies
<1>5. CASE Reset
  <2>1. calls' = BootCalls /\ UNCHANGED <<fram, written, tried>>
    BY <1>5 DEF Reset
  <2>2. calls' \in Seq(Call) /\ \A k \in DOMAIN calls' : calls'[k].copy = 1
    BY <2>1, ParameterAssumption
  <2>3. \A q \in Param : Undisturbed(q)
    BY <1>1, <2>1 DEF Undisturbed
  <2> QED
    BY <2>2, <2>3, FirstCopies, KeptCopies
<1>6. CASE UNCHANGED vars
  <2>1. UNCHANGED <<fram, calls, written, tried>>
    BY <1>6 DEF vars
  <2>2. OneUnderWay'
    BY <2>1 DEF CopiesInv, OneUnderWay
  <2>3. Settled'
    <3> SUFFICES ASSUME NEW p \in Param, Fits(p), written'[p] # Unknown, tried'[p] = Unknown,
                        NEW i \in DOMAIN Places(p)
                 PROVE  Stored(p, i)' = written'[p]
      BY DEF Settled, Fits
    <3> QED
      BY <1>1, <2>1 DEF CopiesInv, Settled
  <2>4. OneEnd'
    <3> SUFFICES ASSUME NEW p \in RedundantParam, Fits(p), written'[p] # Unknown, tried'[p] # Unknown
                 PROVE  Stored(p, 1)' = tried'[p] \/ Stored(p, 3)' = written'[p]
      BY DEF OneEnd, Fits
    <3>1. p \in Param /\ 1 \in DOMAIN Places(p) /\ 3 \in DOMAIN Places(p)
      BY CopyNumbers DEF Param
    <3> QED
      BY <1>1, <2>1, <3>1 DEF CopiesInv, OneEnd
  <2>5. Halfway'
    <3> SUFFICES ASSUME NEW p \in Param, NEW k \in 2 .. 3, Fits(p), UnderWay(p, k)'
                 PROVE  /\ \A i \in 1 .. k - 1 : Stored(p, i)' = Head(calls').data
                        /\ written'[p] # Unknown =>
                            /\ tried'[p] = Head(calls').data
                            /\ \A i \in k .. 3 : Stored(p, i)' = written'[p]
      BY DEF Halfway, Fits
    <3>1. UnderWay(p, k) /\ p \in RedundantParam
      <4>1. UnderWay(p, k)
        BY <2>1 DEF UnderWay
      <4>2. Head(calls) \in Call
        BY <4>1 DEF UnderWay, TypeOK
      <4> QED
        BY <4>1, <4>2, CallType, PlacesType DEF UnderWay
    <3>2. DOMAIN Places(p) = 1 .. 3
      BY <3>1, CopyNumbers
    <3>3. \A i \in 1 .. 3 : Stored(p, i)' = Stored(p, i)
      BY <1>1, <2>1, <3>2
    <3> QED
      BY <2>1, <3>1, <3>3 DEF CopiesInv, Halfway
  <2> QED
    BY <2>2, <2>3, <2>4, <2>5 DEF CopiesInv
<1> QED
  BY <1>2, <1>3, <1>4, <1>5, <1>6 DEF Next

\* The invariant that the theorems about parameters rest on.
THEOREM CopiesCorrect == Spec => []IInv
<1>1. Init => IInv
  BY TypeInit, CopiesInit DEF IInv
<1>2. IInv /\ [Next]_vars => IInv'
  BY TypeStep, CopiesStep DEF IInv
<1> QED
  BY <1>1, <1>2, PTL DEF Spec

-----------------------------------------------------------------------------
(* What is read. *)

\* A copy that was read without error is what is stored, and fits.
LEMMA CopyRead ==
    ASSUME TypeOK, NEW p \in Param, NEW i \in DOMAIN Places(p),
           NEW o \in ReadCopy(Places(p)[i], p), o.ret = "OK"
    PROVE  /\ o.data = Stored(p, i)
           /\ APP_NVM_PARTITION_check(Places(p)[i], Registered[p].start_address, Registered[p].size_byte) = "OK"
<1>1. Places(p)[i] \in PartitionId /\ Registered[p].start_address \in Nat /\ Registered[p].size_byte \in Nat
  BY CopyPlace
<1>2. o \in APP_NVM_PARTITION_read_bytes(fram, Places(p)[i], Registered[p].start_address, Registered[p].size_byte)
  BY DEF ReadCopy
<1>3. /\ Reads(fram, AddressOf(p, i), Registered[p].size_byte, o)
      /\ APP_NVM_PARTITION_check(Places(p)[i], Registered[p].start_address, Registered[p].size_byte) = "OK"
  BY <1>1, <1>2, MemoryType, PartitionReads DEF AddressOf
<1> QED
  BY <1>3, RowNames DEF Reads, Stored

\* What a parameter read without error has: the value of every one of its copies.
LEMMA ParamRead ==
    ASSUME TypeOK, NEW p \in Param, NEW o \in ReadParam(p), o.ret = "OK"
    PROVE  Fits(p) /\ \A i \in DOMAIN Places(p) : o.data = Stored(p, i)
<1>1. CASE p \notin RedundantParam
  <2>1. DOMAIN Places(p) = 1 .. 1
    BY <1>1, CopyNumbers
  <2>2. o \in ReadCopy(Places(p)[1], p)
    BY <1>1 DEF ReadParam, APP_NVM_PARAM_read_normal_param
  <2>3. \A i \in DOMAIN Places(p) : i = 1
    BY <2>1
  <2> QED
    BY <2>1, <2>2, <2>3, CopyRead DEF Fits
<1>2. CASE p \in RedundantParam
  <2> DEFINE R(i) == ReadCopy(Places(p)[i], p)
             V(r) == Vote(r[1].data, r[2].data, r[3].data)
  <2>1. DOMAIN Places(p) = 1 .. 3
    BY <1>2, CopyNumbers
  <2>2. PICK r \in R(1) \X R(2) \X R(3) :
          o = [ret |-> IF (\E k \in 1 .. 3 : r[k].ret # "OK") \/ ~V(r).match THEN "NG_OTHERS" ELSE "OK",
               data |-> V(r).data]
    BY <1>2 DEF ReadParam, APP_NVM_PARAM_read_redundant_param
  <2>3. r[1] \in R(1) /\ r[2] \in R(2) /\ r[3] \in R(3)
    BY <2>2
  <2>4. \A k \in 1 .. 3 : r[k].ret = "OK"
    BY <2>2
  <2>5. V(r).match /\ o.data = V(r).data
    BY <2>2
  <2>6. r[1].data = r[2].data /\ r[2].data = r[3].data /\ o.data = r[1].data
    BY <2>5 DEF Vote
  <2>7. \A i \in 1 .. 3 : r[i] \in R(i) /\ o.data = r[i].data /\ r[i].ret = "OK"
    <3>1. \A i \in 1 .. 3 : i = 1 \/ i = 2 \/ i = 3
      OBVIOUS
    <3> QED
      BY <2>3, <2>4, <2>6, <3>1
  <2> QED
    BY <2>1, <2>7, CopyRead DEF Fits
<1> QED
  BY <1>1, <1>2

\* A parameter read without error has the value that was last written without error, if no
\* call has been since: whatever resets, failures and commands from ground came before.
THEOREM ReadsBackAlways == Spec => []ReadsBack
<1>1. IInv => ReadsBack
  <2> SUFFICES ASSUME IInv, NEW p \in Param, written[p] # Unknown, tried[p] = Unknown,
                      NEW o \in ReadParam(p), o.ret = "OK"
               PROVE  o.data = written[p]
    BY DEF ReadsBack
  <2>1. Fits(p) /\ \A i \in DOMAIN Places(p) : o.data = Stored(p, i)
    BY ParamRead DEF IInv
  <2>2. 1 \in DOMAIN Places(p)
    BY CopyNumbers
  <2> QED
    BY <2>1, <2>2 DEF IInv, CopiesInv, Settled
<1> QED
  BY <1>1, CopiesCorrect, PTL

\* A redundant parameter read without error is never a mixture of two values: it has the
\* value from before the one call since, or the value of that call.
THEOREM NeverMixedAlways == Spec => []NeverMixed
<1>1. IInv => NeverMixed
  <2> SUFFICES ASSUME IInv, NEW p \in RedundantParam, written[p] # Unknown, tried[p] # Unknown,
                      NEW o \in ReadParam(p), o.ret = "OK"
               PROVE  o.data \in {written[p], tried[p]}
    BY DEF NeverMixed
  <2>1. p \in Param /\ 1 \in DOMAIN Places(p) /\ 3 \in DOMAIN Places(p)
    BY CopyNumbers DEF Param
  <2>2. Fits(p) /\ \A i \in DOMAIN Places(p) : o.data = Stored(p, i)
    BY <2>1, ParamRead DEF IInv
  <2>3. Stored(p, 1) = tried[p] \/ Stored(p, 3) = written[p]
    BY <2>2 DEF IInv, CopiesInv, OneEnd
  <2> QED
    BY <2>1, <2>2, <2>3
<1> QED
  BY <1>1, CopiesCorrect, PTL

=============================================================================
