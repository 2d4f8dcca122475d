------------------------------ MODULE MCCapsule ------------------------------
(* Two calls of pack on the same data with the same passphrase: a compressed *)
(* one that asks to run without being capable of it, and one that is not     *)
(* compressed, has another name and may run.                                 *)
EXTENDS Capsule

CONSTANTS d, n1, n2, p1, p2

MCRequest ==
    {[data |-> d, name |-> n1, type |-> "file", compression |-> "zstd", pass |-> p1,
      capable |-> FALSE, requested |-> TRUE],
     [data |-> d, name |-> n2, type |-> "file", compression |-> "none", pass |-> p1,
      capable |-> TRUE, requested |-> TRUE]}
MCChunks == [x \in {d} |-> 2]
=============================================================================
