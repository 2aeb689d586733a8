----------------------- MODULE AocsModeManagerProofs -----------------------
(***************************************************************************)
(* Theorems about AocsModeManager, for all times and limits and all        *)
(* commands from ground.                                                   *)
(***************************************************************************)
EXTENDS AocsModeManager, TLAPS

Entry == Nat \X Command \X BOOLEAN

-----------------------------------------------------------------------------
(* Lemmas about the transitions. *)

\* The entries of a block.
LEMMA BlockType ==
    ASSUME NEW m \in Mode, NEW n \in Successors[m]
    PROVE  /\ n \in Mode
           /\ Block(m, n) \subseteq Nat \X Command
           /\ \A b \in Block(m, n) : b = <<b[1], b[2]>>
<1>1. n \in Mode
  BY DEF Successors, Mode
<1>2. /\ OneSecond \in Nat /\ 2 * OneSecond \in Nat /\ NopTime \in Nat
      /\ SetupTime[n] \in Nat /\ SetupTime[n] + StartTime[n] \in Nat
  BY <1>1, TimeAssumption
<1>3. SetsLimit(n) \subseteq Nat \X Command
  BY <1>2 DEF SetsLimit, LimitOf, Command, Limit, RoughModes
<1>4. AutoOn(n) \subseteq Nat \X Command
  BY <1>2 DEF AutoOn, Command
<1>5. Block(m, n) \subseteq Nat \X Command
  BY <1>2, <1>3, <1>4 DEF Block, Command
<1> QED
  BY <1>1, <1>5

\* In a block, AUTO_OFF is followed by an AUTO_ON.
LEMMA BlockSwitchesOn ==
    ASSUME NEW m \in Mode, NEW n \in Successors[m],
           NEW b \in Block(m, n), b[2] = "AUTO_OFF"
    PROVE  \E c \in Block(m, n) : c[2] = "AUTO_ON" /\ b[1] < c[1]
<1>1. n \in Mode
  BY BlockType
<1>2. ~(m = n) /\ ~({m, n} = {"INITIAL", "BDOT"})
  BY DEF Block
<1>3. Block(m, n) = {<<OneSecond, "AUTO_OFF">>} \cup SetsLimit(n)
                      \cup {<<SetupTime[n], "FINISH">>} \cup AutoOn(n)
  BY <1>2 DEF Block
<1>4. b = <<OneSecond, "AUTO_OFF">>
  BY <1>3 DEF SetsLimit, LimitOf, RoughModes, AutoOn
<1>5. <<SetupTime[n] + StartTime[n], "AUTO_ON">> \in Block(m, n)
  BY <1>3 DEF AutoOn
<1>6. OneSecond < SetupTime[n] + StartTime[n]
  BY <1>1, TimeAssumption
<1> QED
  BY <1>4, <1>5, <1>6

\* A block finishes once.
LEMMA BlockFinishesOnce ==
    ASSUME NEW m \in Mode, NEW n \in Successors[m],
           NEW b \in Block(m, n), b[2] = "FINISH",
           NEW c \in Block(m, n), c[2] = "FINISH"
    PROVE  b[1] = c[1]
<1>1. CASE m = n
  BY <1>1 DEF Block
<1>2. CASE m # n /\ {m, n} = {"INITIAL", "BDOT"}
  BY <1>2 DEF Block
<1>3. CASE ~(m = n) /\ ~({m, n} = {"INITIAL", "BDOT"})
  BY <1>3 DEF Block, AutoOn, SetsLimit, LimitOf, RoughModes
<1> QED
  BY <1>1, <1>2, <1>3

\* A block sets the limits of its mode, if that has any, before it finishes.
LEMMA BlockSetsLimits ==
    ASSUME NEW m \in Mode, NEW n \in Successors[m]
    PROVE  /\ \A b \in Block(m, n) : b[2] \in Limit =>
                 /\ n \in DOMAIN LimitOf
                 /\ b[2] = LimitOf[n]
                 /\ \A c \in Block(m, n) : c[2] = "FINISH" => b[1] < c[1]
           /\ n # m /\ n \in DOMAIN LimitOf => \E b \in Block(m, n) : b[2] = LimitOf[n]
<1>1. n \in Mode /\ 2 * OneSecond < SetupTime[n]
  BY BlockType, TimeAssumption
<1>2. CASE m = n
  BY <1>2 DEF Block, Limit
<1>3. CASE m # n /\ {m, n} = {"INITIAL", "BDOT"}
  <2>1. n \notin DOMAIN LimitOf
    BY <1>3 DEF LimitOf, RoughModes
  <2> QED
    BY <1>3, <2>1 DEF Block, Limit
<1>4. CASE ~(m = n) /\ ~({m, n} = {"INITIAL", "BDOT"})
  <2>1. Block(m, n) = {<<OneSecond, "AUTO_OFF">>} \cup SetsLimit(n)
                        \cup {<<SetupTime[n], "FINISH">>} \cup AutoOn(n)
    BY <1>4 DEF Block
  <2>2. ASSUME NEW b \in Block(m, n), b[2] \in Limit
        PROVE  n \in DOMAIN LimitOf /\ b = <<2 * OneSecond, LimitOf[n]>>
    <3>1. b \in SetsLimit(n)
      BY <2>1, <2>2 DEF AutoOn, Limit
    <3> QED
      BY <3>1 DEF SetsLimit
  <2>3. ASSUME NEW c \in Block(m, n), c[2] = "FINISH"
        PROVE  c[1] = SetupTime[n]
    BY <2>1, <2>3 DEF AutoOn, SetsLimit, LimitOf, RoughModes
  <2>4. n \in DOMAIN LimitOf => <<2 * OneSecond, LimitOf[n]>> \in Block(m, n)
    BY <2>1 DEF SetsLimit
  <2> QED
    BY <1>1, <2>2, <2>3, <2>4
<1> QED
  BY <1>2, <1>3, <1>4

-----------------------------------------------------------------------------
(* What a transition does to the timeline. *)

\* The parts of an entry.
LEMMA TripleParts ==
    ASSUME NEW x, NEW y, NEW z
    PROVE  <<x, y, z>>[1] = x /\ <<x, y, z>>[2] = y /\ <<x, y, z>>[3] = z
OBVIOUS

\* An entry of the timeline.
LEMMA EntryType ==
    ASSUME TypeOK, NEW e \in timeline
    PROVE  /\ e \in Entry
           /\ e = <<e[1], e[2], e[3]>>
           /\ e[1] \in Nat /\ e[2] \in Command /\ e[3] \in BOOLEAN
BY DEF TypeOK, Entry

\* After the beginning of a transition each entry comes from an earlier one or from
\* the block of the transition, and each of these has an entry.
LEMMA BeginEntries ==
    ASSUME NEW m, Begin(m)
    PROVE  /\ \A e \in timeline' :
                 \/ \E o \in timeline : e[1] = o[1] /\ e[2] = o[2]
                 \/ \E b \in Block(mode, m) : e[1] = b[1] /\ e[2] = b[2]
           /\ \A o \in timeline : \E e \in timeline' : e[1] = o[1] /\ e[2] = o[2]
           /\ \A b \in Block(mode, m) : \E e \in timeline' : e[1] = b[1] /\ e[2] = b[2]
<1> DEFINE waits == \E b \in Block(mode, m) : b[2] = "AUTO_ON"
<1>1. timeline' = {<<e[1], e[2], e[3] \/ waits>> : e \in timeline}
                    \cup {<<b[1], b[2], FALSE>> : b \in Block(mode, m)}
  BY DEF Begin
<1> HIDE DEF waits
<1>2. \A e \in timeline' :
         \/ \E o \in timeline : e = <<o[1], o[2], o[3] \/ waits>>
         \/ \E b \in Block(mode, m) : e = <<b[1], b[2], FALSE>>
  BY <1>1, Zenon
<1>3. \A o \in timeline : <<o[1], o[2], o[3] \/ waits>> \in timeline'
  BY <1>1, Zenon
<1>4. \A b \in Block(mode, m) : <<b[1], b[2], FALSE>> \in timeline'
  BY <1>1, Zenon
<1>5. \A e \in timeline' :
         \/ \E o \in timeline : e[1] = o[1] /\ e[2] = o[2]
         \/ \E b \in Block(mode, m) : e[1] = b[1] /\ e[2] = b[2]
  <2> TAKE e \in timeline'
  <2>1. CASE \E o \in timeline : e = <<o[1], o[2], o[3] \/ waits>>
    <3>1. PICK o \in timeline : e = <<o[1], o[2], o[3] \/ waits>>
      BY <2>1
    <3>2. e[1] = o[1] /\ e[2] = o[2]
      BY <3>1, TripleParts, Zenon
    <3> QED
      BY <3>2
  <2>2. CASE \E b \in Block(mode, m) : e = <<b[1], b[2], FALSE>>
    <3>1. PICK b \in Block(mode, m) : e = <<b[1], b[2], FALSE>>
      BY <2>2
    <3>2. e[1] = b[1] /\ e[2] = b[2]
      BY <3>1, TripleParts, Zenon
    <3> QED
      BY <3>2
  <2> QED
    BY <1>2, <2>1, <2>2
<1>6. \A o \in timeline : \E e \in timeline' : e[1] = o[1] /\ e[2] = o[2]
  BY <1>3, TripleParts, Zenon
<1>7. \A b \in Block(mode, m) : \E e \in timeline' : e[1] = b[1] /\ e[2] = b[2]
  BY <1>4, TripleParts, Zenon
<1> QED
  BY <1>5, <1>6, <1>7

\* If there is no FINISH on the timeline, one that is there after the beginning of a
\* transition comes from its block.
LEMMA BeginFinish ==
    ASSUME NEW m, Begin(m),
           \A o \in timeline : o[2] # "FINISH",
           NEW e \in timeline', e[2] = "FINISH"
    PROVE  \E b \in Block(mode, m) : e = <<b[1], b[2], FALSE>>
<1> DEFINE waits == \E b \in Block(mode, m) : b[2] = "AUTO_ON"
<1>1. timeline' = {<<o[1], o[2], o[3] \/ waits>> : o \in timeline}
                    \cup {<<b[1], b[2], FALSE>> : b \in Block(mode, m)}
  BY DEF Begin
<1> HIDE DEF waits
<1>2. ASSUME NEW o \in timeline, e = <<o[1], o[2], o[3] \/ waits>>
      PROVE  FALSE
  <2>1. e[2] = o[2]
    BY <1>2, TripleParts, Zenon
  <2> QED
    BY <2>1
<1> QED
  BY <1>1, <1>2, Zenon

\* A transition that begins keeps the invariant, as far as it is about what it changes.
LEMMA BeginKeeps ==
    ASSUME IInv, NEW m \in Mode, Possible(m), Begin(m),
           three_axis_limit' = three_axis_limit,
           is_enabled_auto_mode_transition' = is_enabled_auto_mode_transition,
           ground_off' = ground_off
    PROVE  /\ mode' \in Mode /\ in_progress' = TRUE /\ converging' \in BOOLEAN
           /\ timeline' \subseteq Entry
           /\ OffIsFollowed' /\ NotLeftOff' /\ OneFinish' /\ LimitsInTime'
<1> USE DEF IInv
<1>1. /\ mode \in Mode /\ m \in Successors[mode] /\ mode' = m /\ in_progress = FALSE
      /\ in_progress' = TRUE
  BY DEF Possible, Begin, TypeOK
<1>2. mode' \in Mode /\ in_progress' = TRUE /\ converging' \in BOOLEAN
  BY <1>1 DEF Begin, TypeOK
<1>3. timeline' \subseteq Entry
  <2> DEFINE waits == \E b \in Block(mode, m) : b[2] = "AUTO_ON"
  <2>1. timeline' = {<<e[1], e[2], e[3] \/ waits>> : e \in timeline}
                      \cup {<<b[1], b[2], FALSE>> : b \in Block(mode, m)}
    BY DEF Begin
  <2>2. \A b \in Block(mode, m) : b[1] \in Nat /\ b[2] \in Command
    BY <1>1, BlockType
  <2>3. \A e \in timeline : e[1] \in Nat /\ e[2] \in Command
    BY EntryType
  <2>4. waits \in BOOLEAN
    OBVIOUS
  <2> HIDE DEF waits
  <2>5. \A e \in timeline : <<e[1], e[2], e[3] \/ waits>> \in Entry
    <3> TAKE e \in timeline
    <3> DEFINE z == e[3] \/ waits
    <3>1. z \in BOOLEAN
      OBVIOUS
    <3> HIDE DEF z
    <3>2. <<e[1], e[2], z>> \in Entry
      BY <2>3, <3>1 DEF Entry
    <3> QED
      BY <3>2 DEF z
  <2>6. \A b \in Block(mode, m) : <<b[1], b[2], FALSE>> \in Entry
    BY <2>2 DEF Entry
  <2> QED
    BY <2>1, <2>5, <2>6, Zenon
<1>4. OffIsFollowed'
  <2> SUFFICES ASSUME NEW e \in timeline', e[2] = "AUTO_OFF"
               PROVE  \E f \in timeline' : f[2] = "AUTO_ON" /\ e[1] < f[1]
    BY DEF OffIsFollowed
  <2>1. CASE \E o \in timeline : e[1] = o[1] /\ e[2] = o[2]
    BY <2>1, BeginEntries DEF OffIsFollowed
  <2>2. CASE \E b \in Block(mode, m) : e[1] = b[1] /\ e[2] = b[2]
    <3>1. PICK b \in Block(mode, m) : e[1] = b[1] /\ e[2] = b[2]
      BY <2>2
    <3>2. PICK c \in Block(mode, m) : c[2] = "AUTO_ON" /\ b[1] < c[1]
      BY <1>1, <3>1, BlockSwitchesOn
    <3> QED
      BY <3>1, <3>2, BeginEntries
  <2> QED
    BY <2>1, <2>2, BeginEntries
<1>5. NotLeftOff'
  BY BeginEntries DEF NotLeftOff
<1>6. \A o \in timeline : o[2] # "FINISH" /\ o[2] \notin Limit
  BY <1>1 DEF LimitsInTime, OneFinish
<1>7. OneFinish'
  <2> SUFFICES ASSUME NEW e \in timeline', e[2] = "FINISH",
                      NEW f \in timeline', f[2] = "FINISH"
               PROVE  f = e
    BY <1>1 DEF OneFinish
  <2>1. PICK b \in Block(mode, m) : e = <<b[1], b[2], FALSE>>
    BY <1>6, BeginFinish
  <2>2. PICK c \in Block(mode, m) : f = <<c[1], c[2], FALSE>>
    BY <1>6, BeginFinish
  <2>3. b[2] = "FINISH" /\ c[2] = "FINISH"
    BY <2>1, <2>2, TripleParts, Zenon
  <2>4. b[1] = c[1]
    BY <1>1, <2>3, BlockFinishesOnce
  <2> QED
    BY <2>1, <2>2, <2>3, <2>4, Zenon
<1>8. LimitsInTime'
  <2>1. ASSUME NEW e \in timeline', e[2] \in Limit
        PROVE  /\ m \in DOMAIN LimitOf
               /\ e[2] = LimitOf[m]
               /\ \A f \in timeline' : f[2] = "FINISH" => e[1] < f[1]
    <3>1. PICK b \in Block(mode, m) : e[1] = b[1] /\ e[2] = b[2]
      BY <1>6, <2>1, BeginEntries
    <3>2. /\ m \in DOMAIN LimitOf
          /\ e[2] = LimitOf[m]
          /\ \A c \in Block(mode, m) : c[2] = "FINISH" => e[1] < c[1]
      BY <1>1, <2>1, <3>1, BlockSetsLimits
    <3>3. ASSUME NEW f \in timeline', f[2] = "FINISH"
          PROVE  e[1] < f[1]
      <4>1. PICK c \in Block(mode, m) : f[1] = c[1] /\ f[2] = c[2]
        BY <1>6, <3>3, BeginEntries
      <4> QED
        BY <3>2, <3>3, <4>1
    <3> QED
      BY <3>2, <3>3
  <2>2. ASSUME m \in DOMAIN LimitOf
        PROVE  three_axis_limit' = LimitOf[m] \/ \E e \in timeline' : e[2] = LimitOf[m]
    <3>1. CASE m = mode
      <4>1. LimitOf[m] \in Limit
        BY <2>2 DEF LimitOf, Limit, RoughModes
      <4> QED
        BY <1>6, <2>2, <3>1, <4>1 DEF LimitsInTime
    <3>2. CASE m # mode
      BY <1>1, <2>2, <3>2, BlockSetsLimits, BeginEntries
    <3> QED
      BY <3>1, <3>2
  <2> QED
    BY <1>1, <2>1, <2>2 DEF LimitsInTime
<1> QED
  BY <1>2, <1>3, <1>4, <1>5, <1>7, <1>8

-----------------------------------------------------------------------------
(* What the manager does. *)

\* A judge counter is a number.
LEMMA JudgedType ==
    ASSUME TypeOK, NEW condition \in BOOLEAN, NEW counter \in Nat, NEW limit \in Nat
    PROVE  Judged(condition, counter, limit) \in Nat
BY ModeAssumption DEF Judged, AtMost, TypeOK

\* At the end of a cycle each entry is one cycle closer.
LEMMA CycleEntries ==
    ASSUME TypeOK, NEW d, EndCycle(d)
    PROVE  /\ \A e \in timeline' : \E o \in timeline : e = <<o[1] - 1, o[2], o[3]>>
           /\ \A o \in timeline : <<o[1] - 1, o[2], o[3]>> \in timeline'
           /\ timeline' \subseteq Entry
<1>1. timeline' = {<<o[1] - 1, o[2], o[3]>> : o \in timeline}
  BY DEF EndCycle
<1>2. \A o \in timeline : o[1] - 1 \in Nat /\ o[2] \in Command /\ o[3] \in BOOLEAN
  BY EntryType DEF EndCycle, Due
<1>3. \A o \in timeline : <<o[1] - 1, o[2], o[3]>> \in Entry
  BY <1>2 DEF Entry
<1> QED
  BY <1>1, <1>3

\* The end of a cycle keeps what the invariant says of the timeline.
LEMMA CycleKeeps ==
    ASSUME IInv, NEW d \in Nat, EndCycle(d),
           ang_div_judge_counter' \in Nat
    PROVE  /\ timeline' \subseteq Entry
           /\ since_judged' \in 0 .. LimitDiffTime
                /\ OffIsFollowed' /\ NotLeftOff' /\ OneFinish' /\ LimitsInTime'
<1> USE DEF IInv
<1>1. /\ mode' = mode /\ in_progress' = in_progress /\ three_axis_limit' = three_axis_limit
      /\ is_enabled_auto_mode_transition' = is_enabled_auto_mode_transition
      /\ ground_off' = ground_off
  BY DEF EndCycle
<1>2. since_judged' \in 0 .. LimitDiffTime
  BY ModeAssumption DEF EndCycle, AtMost
<1>4. \A e \in timeline' : \E o \in timeline : e = <<o[1] - 1, o[2], o[3]>> /\ o[1] \in Nat
  BY CycleEntries, EntryType
<1>5. \A o \in timeline : <<o[1] - 1, o[2], o[3]>> \in timeline' /\ o[1] \in Nat
  BY CycleEntries, EntryType
<1>6. OffIsFollowed'
  <2> SUFFICES ASSUME NEW e \in timeline', e[2] = "AUTO_OFF"
               PROVE  \E f \in timeline' : f[2] = "AUTO_ON" /\ e[1] < f[1]
    BY DEF OffIsFollowed
  <2>1. PICK o \in timeline : e = <<o[1] - 1, o[2], o[3]>> /\ o[1] \in Nat
    BY <1>4
  <2>2. PICK p \in timeline : p[2] = "AUTO_ON" /\ o[1] < p[1]
    BY <2>1 DEF OffIsFollowed
  <2>3. <<p[1] - 1, p[2], p[3]>> \in timeline' /\ p[1] \in Nat
    BY <1>5
  <2>4. e[1] = o[1] - 1
    BY <2>1
  <2> QED
    BY <2>1, <2>2, <2>3, <2>4
<1>7. NotLeftOff'
  <2>1. CASE \E o \in timeline : o[2] = "AUTO_ON"
    BY <1>5, <2>1 DEF NotLeftOff
  <2> QED
    BY <1>1, <2>1 DEF NotLeftOff
<1>8. OneFinish'
  BY <1>1, <1>4 DEF OneFinish
<1>9. LimitsInTime'
  <2>1. ASSUME NEW e \in timeline', e[2] \in Limit
        PROVE  /\ in_progress
               /\ mode \in DOMAIN LimitOf
               /\ e[2] = LimitOf[mode]
               /\ \A f \in timeline' : f[2] = "FINISH" => e[1] < f[1]
    <3>1. PICK o \in timeline : e = <<o[1] - 1, o[2], o[3]>> /\ o[1] \in Nat
      BY <1>4
    <3>2. ASSUME NEW f \in timeline', f[2] = "FINISH"
          PROVE  e[1] < f[1]
      <4>1. PICK p \in timeline : f = <<p[1] - 1, p[2], p[3]>> /\ p[1] \in Nat
        BY <1>4
      <4> QED
        BY <2>1, <3>1, <3>2, <4>1 DEF LimitsInTime
    <3> QED
      BY <2>1, <3>1, <3>2 DEF LimitsInTime
  <2>2. ASSUME mode \in DOMAIN LimitOf
        PROVE  \/ three_axis_limit = LimitOf[mode]
               \/ \E e \in timeline' : e[2] = LimitOf[mode]
    <3>1. CASE \E o \in timeline : o[2] = LimitOf[mode]
      BY <1>5, <3>1
    <3> QED
      BY <2>2, <3>1 DEF LimitsInTime
  <2> QED
    BY <1>1, <2>1, <2>2 DEF LimitsInTime
<1> QED
  BY <1>2, <1>6, <1>7, <1>8, <1>9, CycleEntries

\* A manager that asks for a mode of the table, or for none, keeps the invariant.
LEMMA ChangeModeKeeps ==
    ASSUME IInv, NEW wanted \in Successors[mode] \cup {None},
           NEW conv \in Nat, NEW div \in Nat, NEW sensor \in Nat,
           NEW d \in Nat,
           ChangeMode(wanted, conv, div, sensor), EndCycle(d)
    PROVE  /\ request' \in Mode \cup {None} /\ judged_in' \in Mode
           /\ {ang_vel_conv_judge_counter', ang_div_judge_counter',
               sensor_error_judge_counter'} \subseteq Nat
           /\ RequestIsCurrent'
<1>1. mode \in Mode /\ mode' = mode /\ phase' = "ground"
  BY DEF IInv, TypeOK, EndCycle
<1>2. wanted \in Mode \cup {None}
  BY <1>1, BlockType
<1>3. request' \in {wanted, None} /\ judged_in' = mode
  BY DEF ChangeMode
<1>4. {ang_vel_conv_judge_counter', ang_div_judge_counter', sensor_error_judge_counter'}
         \subseteq Nat
  BY DEF ChangeMode
<1>5. RequestIsCurrent'
  BY <1>1, <1>3 DEF RequestIsCurrent, RequestsAreDefined
<1> QED
  BY <1>1, <1>2, <1>3, <1>4, <1>5

\* A manager that does nothing keeps the invariant.
LEMMA IdleKeeps ==
    ASSUME IInv, Idle PROVE IInv'
<1>1. /\ since_judged \in Nat /\ ang_div_judge_counter' \in Nat
      /\ EndCycle(since_judged)
      /\ request = None
  BY ModeAssumption DEF IInv, TypeOK, Idle, counters, RequestIsCurrent, EndCycle
<1>2. /\ timeline' \subseteq Entry
      /\ since_judged' \in 0 .. LimitDiffTime
      /\ OffIsFollowed' /\ NotLeftOff' /\ OneFinish' /\ LimitsInTime'
  BY <1>1, CycleKeeps
<1>3. TypeOK'
  BY <1>1, <1>2 DEF IInv, TypeOK, Idle, EndCycle, counters, norm, seen, Entry
<1>4. RequestIsCurrent'
  BY <1>1 DEF RequestIsCurrent, Idle, EndCycle
<1> QED
  BY <1>2, <1>3, <1>4 DEF IInv

\* So does the manager of B-dot.
LEMMA BdotExecKeeps ==
    ASSUME IInv, NEW slow \in BOOLEAN, NEW faster \in BOOLEAN, BdotExec(slow, faster)
    PROVE  IInv'
<1> DEFINE conv == Judged(slow, ang_vel_conv_judge_counter, ConvTime)
           is_conv == conv > ConvTime
           check == ang_vel_update_timing >= PeriodTime
           wanted == CASE is_conv -> "ROUGH_SUN_POINTING"
                       [] ~is_conv /\ check /\ ang_vel_prev_known /\ faster -> "INITIAL"
                       [] OTHER -> None
           d == IF is_conv THEN since_judged ELSE AfterJudging
<1>1. mode = "BDOT"
  BY DEF BdotExec, IsJudging, JudgedModes, Mode, RoughModes
<1>2. /\ conv \in Nat /\ since_judged \in Nat
      /\ ang_div_judge_counter \in Nat /\ sensor_error_judge_counter \in Nat
      /\ ang_vel_update_timing \in Nat
  BY JudgedType, ModeAssumption DEF IInv, TypeOK
<1>3. /\ ChangeMode(wanted, conv, ang_div_judge_counter, sensor_error_judge_counter)
      /\ EndCycle(d)
  BY DEF BdotExec
<1>4. wanted \in Successors[mode] \cup {None}
  BY <1>1 DEF Successors, Mode
<1>5. d \in Nat
  BY <1>2 DEF AfterJudging
<1>6. /\ ang_vel_update_timing' \in Nat
      /\ ang_vel_prev_known' \in BOOLEAN
      /\ converged' \in BOOLEAN /\ diverged' = diverged
  <2>1. CASE is_conv
    BY <1>2, <2>1 DEF BdotExec, IInv, TypeOK, norm
  <2>2. CASE ~is_conv
    <3>1. /\ ang_vel_update_timing' =
                CASE check -> 0
                  [] ~check /\ since_judged < LimitDiffTime ->
                        ang_vel_update_timing + since_judged
                  [] OTHER -> ang_vel_update_timing
          /\ ang_vel_prev_known' =
                (ang_vel_prev_known \/ check \/ ~(since_judged < LimitDiffTime))
          /\ converged' = slow /\ diverged' = diverged
      BY <2>2 DEF BdotExec
    <3>2. ang_vel_update_timing' \in Nat
      BY <1>2, <3>1
    <3>3. ang_vel_prev_known' \in BOOLEAN
      BY <3>1
    <3> QED
      BY <3>1, <3>2, <3>3
  <2> QED
    BY <2>1, <2>2
<1> HIDE DEF conv, wanted, d
<1>7. /\ request' \in Mode \cup {None} /\ judged_in' \in Mode
      /\ {ang_vel_conv_judge_counter', ang_div_judge_counter',
          sensor_error_judge_counter'} \subseteq Nat
      /\ RequestIsCurrent'
  BY <1>2, <1>3, <1>4, <1>5, ChangeModeKeeps
<1>8. /\ timeline' \subseteq Entry
      /\ since_judged' \in 0 .. LimitDiffTime
      /\ OffIsFollowed' /\ NotLeftOff' /\ OneFinish' /\ LimitsInTime'
  BY <1>3, <1>5, <1>7, CycleKeeps
<1>9. TypeOK'
  BY <1>3, <1>6, <1>7, <1>8 DEF IInv, TypeOK, EndCycle, Entry
<1> QED
  BY <1>7, <1>8, <1>9 DEF IInv

\* So do the managers of the pointing modes.
LEMMA PointingExecKeeps ==
    ASSUME IInv, NEW large \in BOOLEAN, NEW blind \in BOOLEAN,
           NEW div_limit \in Nat, NEW loss_limit \in Nat,
           mode \in PointingModes, PointingExec(large, blind, div_limit, loss_limit)
    PROVE  IInv'
<1> DEFINE div == Judged(large, ang_div_judge_counter, div_limit)
           sensor == Judged(blind, sensor_error_judge_counter, loss_limit)
           wanted == IF div > div_limit \/ sensor > loss_limit THEN FallbackMode ELSE None
<1>1. /\ div \in Nat /\ sensor \in Nat /\ ang_vel_conv_judge_counter \in Nat
  BY JudgedType DEF IInv, TypeOK
<1>2. /\ ChangeMode(wanted, ang_vel_conv_judge_counter, div, sensor)
      /\ EndCycle(0)
      /\ diverged' \in BOOLEAN
      /\ UNCHANGED <<ang_vel_update_timing, ang_vel_prev_known, converged>>
  BY DEF PointingExec, AfterJudging, norm
<1>3. wanted \in Successors[mode] \cup {None}
  BY DEF Successors, Mode, PointingModes, RoughModes, FallbackMode
<1> HIDE DEF div, sensor, wanted
<1>4. /\ request' \in Mode \cup {None} /\ judged_in' \in Mode
      /\ {ang_vel_conv_judge_counter', ang_div_judge_counter',
          sensor_error_judge_counter'} \subseteq Nat
      /\ RequestIsCurrent'
  BY <1>1, <1>2, <1>3, ChangeModeKeeps
<1>5. /\ timeline' \subseteq Entry
      /\ since_judged' \in 0 .. LimitDiffTime
      /\ OffIsFollowed' /\ NotLeftOff' /\ OneFinish' /\ LimitsInTime'
  BY <1>2, <1>4, CycleKeeps
<1>6. TypeOK'
  BY <1>2, <1>4, <1>5 DEF IInv, TypeOK, EndCycle, Entry
<1> QED
  BY <1>4, <1>5, <1>6 DEF IInv

\* So does every manager.
LEMMA ManagerKeeps ==
    ASSUME IInv, Manager PROVE IInv'
<1>1. CASE Idle
  BY <1>1, IdleKeeps
<1>2. ASSUME NEW slow \in BOOLEAN, NEW faster \in BOOLEAN, BdotExec(slow, faster)
      PROVE  IInv'
  BY <1>2, BdotExecKeeps
<1>3. ASSUME NEW large \in BOOLEAN, NEW blind \in BOOLEAN,
             \/ SunPointingExec(large, blind)
             \/ RoughThreeAxisExec(large, blind)
             \/ FineThreeAxisExec(large, blind)
      PROVE  IInv'
  <2>1. /\ SunDivTime \in Nat /\ SunLossTime \in Nat /\ SttLossTime \in Nat
        /\ DivTime[three_axis_limit] \in Nat
    BY ModeAssumption DEF IInv, TypeOK
  <2>2. mode \in PointingModes
    BY <1>3 DEF SunPointingExec, RoughThreeAxisExec, FineThreeAxisExec, PointingExec,
                IsJudging, JudgedModes, Mode, RoughModes, PointingModes
  <2>3. CASE SunPointingExec(large, blind)
    BY <2>1, <2>2, <2>3, PointingExecKeeps DEF SunPointingExec
  <2>4. CASE RoughThreeAxisExec(large, blind)
    BY <2>1, <2>2, <2>4, PointingExecKeeps DEF RoughThreeAxisExec
  <2>5. CASE FineThreeAxisExec(large, blind)
    BY <2>1, <2>2, <2>5, PointingExecKeeps DEF FineThreeAxisExec
  <2> QED
    BY <1>3, <2>3, <2>4, <2>5
<1> QED
  BY <1>1, <1>2, <1>3 DEF Manager

-----------------------------------------------------------------------------
(* Commands. *)

\* A transition commanded from ground keeps the invariant.
LEMMA GroundTransitionKeeps ==
    ASSUME IInv, NEW m \in Mode, GroundTransition(m) PROVE IInv'
<1>1. /\ mode' \in Mode /\ in_progress' = TRUE /\ converging' \in BOOLEAN
      /\ timeline' \subseteq Entry
      /\ OffIsFollowed' /\ NotLeftOff' /\ OneFinish' /\ LimitsInTime'
  BY BeginKeeps DEF GroundTransition
<1>2. TypeOK'
  BY <1>1 DEF IInv, TypeOK, GroundTransition, counters, norm, seen, Entry
<1>3. RequestIsCurrent'
  BY <1>1 DEF IInv, RequestIsCurrent, RequestsAreDefined, GroundTransition
<1> QED
  BY <1>1, <1>2, <1>3 DEF IInv

\* So does switching the judging from ground.
LEMMA GroundSwitchKeeps ==
    ASSUME IInv, NEW enable \in BOOLEAN, GroundSwitch(enable) PROVE IInv'
<1>1. TypeOK'
  BY DEF IInv, TypeOK, GroundSwitch, modes, counters, norm, seen
<1>2. RequestIsCurrent'
  BY DEF IInv, RequestIsCurrent, RequestsAreDefined, GroundSwitch, modes
<1>3. OffIsFollowed' /\ OneFinish' /\ LimitsInTime'
  BY DEF IInv, OffIsFollowed, OneFinish, LimitsInTime, GroundSwitch, modes
<1>4. NotLeftOff'
  BY DEF NotLeftOff, GroundSwitch
<1> QED
  BY <1>1, <1>2, <1>3, <1>4 DEF IInv

\* So does the execution of a request.
LEMMA DispatchKeeps ==
    ASSUME IInv, Dispatch PROVE IInv'
<1>1. /\ three_axis_limit' = three_axis_limit
      /\ is_enabled_auto_mode_transition' = is_enabled_auto_mode_transition
      /\ ground_off' = ground_off
      /\ request' = None
  BY DEF Dispatch
<1>2. CASE request # None /\ Possible(request)
  <2>1. request \in Mode /\ Begin(request)
    BY <1>2 DEF IInv, TypeOK, Dispatch
  <2>2. /\ mode' \in Mode /\ in_progress' = TRUE /\ converging' \in BOOLEAN
        /\ timeline' \subseteq Entry
        /\ OffIsFollowed' /\ NotLeftOff' /\ OneFinish' /\ LimitsInTime'
    BY <1>1, <1>2, <2>1, BeginKeeps
  <2>3. TypeOK'
    BY <2>2 DEF IInv, TypeOK, Dispatch, counters, norm, seen, Entry
  <2>4. RequestIsCurrent'
    BY <1>1 DEF RequestIsCurrent
  <2> QED
    BY <2>2, <2>3, <2>4 DEF IInv
<1>3. CASE ~(request # None /\ Possible(request))
  <2>1. UNCHANGED <<mode, in_progress, timeline, converging>>
    BY <1>3 DEF Dispatch
  <2>2. TypeOK'
    BY <2>1 DEF IInv, TypeOK, Dispatch, counters, norm, seen
  <2>3. RequestIsCurrent'
    BY <1>1 DEF RequestIsCurrent
  <2>4. OffIsFollowed' /\ NotLeftOff' /\ OneFinish' /\ LimitsInTime'
    BY <1>1, <2>1 DEF IInv, OffIsFollowed, NotLeftOff, OneFinish, LimitsInTime
  <2> QED
    BY <2>2, <2>3, <2>4 DEF IInv
<1> QED
  BY <1>2, <1>3

\* So does a timed command.
LEMMA TimedKeeps ==
    ASSUME IInv, NEW e \in timeline, Timed(e) PROVE IInv'
<1> USE DEF IInv
<1>1. /\ e \in Entry /\ e[1] \in Nat /\ e[2] \in Command /\ e[3] \in BOOLEAN
  BY EntryType
<1>2. /\ e[1] = 0 /\ timeline' = timeline \ {e}
      /\ mode' = mode /\ ground_off' = (ground_off /\ e[2] \notin {"AUTO_OFF", "AUTO_ON"})
      /\ in_progress' = (in_progress /\ e[2] # "FINISH")
      /\ three_axis_limit' = IF e[2] \in Limit THEN e[2] ELSE three_axis_limit
      /\ request' = None /\ phase' = "timeline"
  BY <1>1 DEF Timed, Due, RequestIsCurrent
<1>3. TypeOK'
  <2>1. /\ timeline' \subseteq Nat \X Command \X BOOLEAN
        /\ three_axis_limit' \in Limit
    BY <1>2 DEF TypeOK
  <2>2. in_progress' \in BOOLEAN /\ ground_off' \in BOOLEAN
    BY <1>2 DEF TypeOK
  <2>3. is_enabled_auto_mode_transition' \in BOOLEAN /\ converging' \in BOOLEAN
    BY DEF Timed, TypeOK
  <2> QED
    BY <2>1, <2>2, <2>3 DEF Timed, TypeOK, counters, norm, seen
<1>4. RequestIsCurrent'
  BY <1>2 DEF RequestIsCurrent
<1>5. \A o \in timeline : o[1] \in Nat
  BY EntryType
<1>6. OffIsFollowed'
  BY <1>2, <1>5 DEF OffIsFollowed
<1>7. NotLeftOff'
  <2>1. CASE e[2] = "AUTO_ON"
    BY <2>1 DEF NotLeftOff, Timed
  <2>2. CASE e[2] = "AUTO_OFF"
    BY <1>2, <2>2 DEF NotLeftOff, OffIsFollowed
  <2>3. CASE e[2] \notin {"AUTO_OFF", "AUTO_ON"}
    <3>1. is_enabled_auto_mode_transition' = is_enabled_auto_mode_transition
      BY <2>3 DEF Timed
    <3>2. ground_off' = ground_off
      BY <2>3 DEF Timed, TypeOK
    <3> QED
      BY <1>2, <2>3, <3>1, <3>2 DEF NotLeftOff
  <2> QED
    BY <2>1, <2>2, <2>3
<1>8. OneFinish'
  BY <1>2 DEF OneFinish
<1>9. LimitsInTime'
  <2>1. CASE e[2] = "FINISH"
    <3>1. \A o \in timeline : o[2] \notin Limit
      BY <1>2, <1>5, <2>1 DEF LimitsInTime
    <3>2. "FINISH" \notin Limit /\ \A m \in DOMAIN LimitOf : LimitOf[m] \in Limit
      BY DEF Limit, LimitOf, RoughModes
    <3> QED
      BY <1>2, <2>1, <3>1, <3>2 DEF LimitsInTime
  <2>2. CASE e[2] # "FINISH"
    <3>1. in_progress' = in_progress
      BY <1>2, <2>2 DEF TypeOK
    <3>2. \A o \in timeline' : o[2] \in Limit =>
             /\ in_progress'
             /\ mode' \in DOMAIN LimitOf
             /\ o[2] = LimitOf[mode']
             /\ \A f \in timeline' : f[2] = "FINISH" => o[1] < f[1]
      BY <1>2, <3>1 DEF LimitsInTime
    <3>3. ASSUME mode \in DOMAIN LimitOf
          PROVE  three_axis_limit' = LimitOf[mode] \/ \E o \in timeline' : o[2] = LimitOf[mode]
      <4>1. LimitOf[mode] \in Limit
        BY <3>3 DEF Limit, LimitOf, RoughModes
      <4>2. CASE e[2] \in Limit
        BY <1>2, <4>2 DEF LimitsInTime
      <4>3. CASE e[2] \notin Limit
        BY <1>2, <3>3, <4>1, <4>3 DEF LimitsInTime
      <4> QED
        BY <4>2, <4>3
    <3> QED
      BY <1>2, <3>2, <3>3 DEF LimitsInTime
  <2> QED
    BY <2>1, <2>2
<1> QED
  BY <1>3, <1>4, <1>6, <1>7, <1>8, <1>9

-----------------------------------------------------------------------------
(* The theorems. *)

\* The invariant holds at first.
LEMMA IInvInit == Init => IInv
<1> SUFFICES ASSUME Init PROVE IInv
  OBVIOUS
<1>1. TypeOK
  <2>1. /\ {mode, task_list, judged_in} \subseteq Mode
        /\ phase \in {"ground", "timeline"}
        /\ timeline \subseteq Nat \X Command \X BOOLEAN
        /\ request \in Mode \cup {None}
        /\ {ang_vel_conv_judge_counter, ang_div_judge_counter, sensor_error_judge_counter,
            ang_vel_update_timing} \subseteq Nat
        /\ three_axis_limit \in Limit
    BY DEF Init, Mode, Limit
  <2>2. {in_progress, is_enabled_auto_mode_transition, ang_vel_prev_known, converging,
         ground_off, converged, diverged} \subseteq BOOLEAN
    BY DEF Init
  <2>3. since_judged \in 0 .. LimitDiffTime
    BY ModeAssumption DEF Init
  <2> QED
    BY <2>1, <2>2, <2>3 DEF TypeOK
<1>2. RequestIsCurrent /\ OffIsFollowed /\ NotLeftOff /\ OneFinish
  BY DEF Init, RequestIsCurrent, OffIsFollowed, NotLeftOff, OneFinish
<1>3. LimitsInTime
  BY DEF Init, LimitsInTime, LimitOf, RoughModes
<1> QED
  BY <1>1, <1>2, <1>3 DEF IInv

\* Every step keeps it.
LEMMA IInvStep == IInv /\ [Next]_vars => IInv'
<1> SUFFICES ASSUME IInv, [Next]_vars PROVE IInv'
  OBVIOUS
<1>1. CASE Next
  <2>1. ASSUME NEW m \in GroundModes, GroundTransition(m) PROVE IInv'
    BY <2>1, ModeAssumption, GroundTransitionKeeps
  <2>2. ASSUME NEW enable \in GroundSwitches, GroundSwitch(enable) PROVE IInv'
    BY <2>2, ModeAssumption, GroundSwitchKeeps
  <2>3. CASE Dispatch
    BY <2>3, DispatchKeeps
  <2>4. ASSUME NEW e \in timeline, Timed(e) PROVE IInv'
    BY <2>4, TimedKeeps
  <2>5. CASE Manager
    BY <2>5, ManagerKeeps
  <2> QED
    BY <1>1, <2>1, <2>2, <2>3, <2>4, <2>5 DEF Next, Ground, Cycle
<1>2. CASE UNCHANGED vars
  BY <1>2 DEF vars, modes, counters, norm, seen, IInv, TypeOK, RequestIsCurrent,
              RequestsAreDefined, OffIsFollowed, NotLeftOff, OneFinish, LimitsInTime
<1> QED
  BY <1>1, <1>2

\* The inductive invariant holds in every state.
LEMMA IInvAlways == Spec => []IInv
BY IInvInit, IInvStep, PTL DEF Spec

\* Every variable keeps its type; in particular no timed command is missed.
THEOREM TypeCorrect == Spec => []TypeOK
BY IInvAlways, PTL DEF IInv

\* The manager only asks for modes that the transition table leads to.
THEOREM RequestsDefined == Spec => []RequestsAreDefined
<1>1. IInv => RequestsAreDefined
  BY DEF IInv, RequestIsCurrent, RequestsAreDefined
<1> QED
  BY <1>1, IInvAlways, PTL

\* Whatever ground commands and however transitions overtake each other, fault detection
\* is on, or ground has switched it off, or it will be switched on.
THEOREM NeverLeftOff == Spec => []NotLeftOff
BY IInvAlways, PTL DEF IInv

\* After each transition to a three axis mode the limits are those of that mode.
THEOREM LimitsAreRight == Spec => []LimitsOfMode
<1>1. IInv => LimitsOfMode
  BY DEF IInv, LimitsInTime, LimitsOfMode, LimitOf, Limit, RoughModes
<1> QED
  BY <1>1, IInvAlways, PTL

\* A request that takes effect does so in the mode in which it was judged.
THEOREM JudgedModeLeft == Spec => JudgedModeIsLeft
<1>1. ASSUME IInv, Dispatch, mode' # mode PROVE mode = judged_in
  BY <1>1 DEF IInv, Dispatch, Possible, RequestIsCurrent
<1>2. IInv => [Dispatch /\ mode' # mode => mode = judged_in]_vars
  BY <1>1
<1> QED
  BY <1>2, IInvAlways, PTL DEF JudgedModeIsLeft

=============================================================================
