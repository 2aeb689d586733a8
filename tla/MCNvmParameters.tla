--------------------------- MODULE MCNvmParameters ---------------------------
(* An instance of NvmParameters. *)
EXTENDS NvmParameters

\* Two devices of four bytes; the second redundant partition lies across the border.
Partition(start, size) == [start_address |-> start, size_byte |-> size]
Table ==
    [id \in {"NORMAL_PARAMS", "REDUNDANT_PARAMS_1", "REDUNDANT_PARAMS_2", "REDUNDANT_PARAMS_3"} |->
        CASE id = "REDUNDANT_PARAMS_1" -> Partition(0, 2)
          [] id = "REDUNDANT_PARAMS_2" -> Partition(3, 2)
          [] id = "REDUNDANT_PARAMS_3" -> Partition(5, 2)
          [] id = "NORMAL_PARAMS"      -> Partition(2, 1)]
Partitions == DOMAIN Table

Bits == {0, 1}
Fresh == {0}

Ids == {"n", "r"}
Params == [p \in Ids |-> IF p = "n" THEN Partition(0, 1) ELSE Partition(0, 2)]
Boot == <<[param |-> "n", data |-> <<1>>, copy |-> 1],
          [param |-> "r", data |-> <<0, 0>>, copy |-> 1]>>
AppData == [p \in Ids |-> IF p = "n" THEN {} ELSE {<<1, 1>>}]
=============================================================================
