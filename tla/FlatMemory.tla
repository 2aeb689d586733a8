----------------------------- MODULE FlatMemory -----------------------------
(***************************************************************************)
(* What the non-volatile storage promises to whoever accesses it: one row  *)
(* of bytes.  A write that ends well writes all of its bytes, one that     *)
(* does not writes some first ones of them, and neither touches another    *)
(* byte.  A read that ends well returns the bytes that are there.  Nothing *)
(* of the devices, their number and their ends is visible.                 *)
(***************************************************************************)
EXTENDS Bytes

CONSTANTS
    Size,  \* the number of bytes
    Byte   \* their values

VARIABLES
    mem,   \* the bytes
    req,   \* the last request
    ok,    \* whether it ended well
    data   \* what it read

vars == <<mem, req, ok, data>>

WriteRequest == [op : {"write"}, at : Nat, bytes : Seq(Byte)]
ReadRequest == [op : {"read"}, at : Nat, n : Nat]
NoRequest == [op |-> "none"]

Init ==
    /\ mem \in [0 .. Size - 1 -> Byte]
    /\ req = NoRequest
    /\ ok = TRUE
    /\ data = << >>

Write ==
    /\ req' \in WriteRequest
    /\ req'.at + Len(req'.bytes) <= Size
    /\ \/ /\ ok' = TRUE
          /\ mem' = Put(mem, req'.at, req'.bytes)
       \/ /\ ok' = FALSE
          /\ \E k \in 0 .. Len(req'.bytes) : mem' = Put(mem, req'.at, First(req'.bytes, k))
    /\ data' = << >>

Read ==
    /\ req' \in ReadRequest
    /\ req'.at + req'.n <= Size
    /\ ok' = TRUE
    /\ data' = Get(mem, req'.at, req'.n)
    /\ UNCHANGED mem

\* A request that is refused, or fails without having written anything.
Fail ==
    /\ req' \in WriteRequest \cup ReadRequest
    /\ ok' = FALSE
    /\ data' = << >>
    /\ UNCHANGED mem

\* The last request is forgotten; the bytes stay.
Forget ==
    /\ req' = NoRequest
    /\ ok' = TRUE
    /\ data' = << >>
    /\ UNCHANGED mem

Next == Write \/ Read \/ Fail \/ Forget

Spec == Init /\ [][Next]_vars
=============================================================================
