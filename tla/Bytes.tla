------------------------------- MODULE Bytes -------------------------------
(***************************************************************************)
(* Putting bytes into a memory, which maps addresses to bytes, and getting *)
(* them out of it.                                                         *)
(***************************************************************************)
EXTENDS Integers, Sequences

\* The memory m with the given bytes from address a on.
Put(m, a, bytes) ==
    [h \in DOMAIN m |-> IF h - a + 1 \in DOMAIN bytes THEN bytes[h - a + 1] ELSE m[h]]

\* The n bytes of m from address a on.
Get(m, a, n) == [k \in 1 .. n |-> m[a + k - 1]]

\* The first k of some bytes, and the others.
First(bytes, k) == [j \in 1 .. k |-> bytes[j]]
Rest(bytes, k) == [j \in 1 .. Len(bytes) - k |-> bytes[k + j]]
=============================================================================
