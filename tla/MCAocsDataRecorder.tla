------------------------- MODULE MCAocsDataRecorder -------------------------
(* An instance of AocsDataRecorder: four-bit integers, partitions that are *)
(* no multiples of a record, as in flight.                                 *)
EXTENDS AocsDataRecorder

Recorders == {"DR_1", "DR_2", "DR_3"}
Partitions == Recorders \cup {"BCT"}
Table ==
    [p \in Partitions |->
        CASE p = "BCT"  -> [start_address |-> 0, size_byte |-> 4]
          [] p = "DR_1" -> [start_address |-> 4, size_byte |-> 4]
          [] p = "DR_2" -> [start_address |-> 8, size_byte |-> 7]
          [] p = "DR_3" -> [start_address |-> 15, size_byte |-> 11]]

SomePointers == {0, 2, 5, 6, 11}
=============================================================================
