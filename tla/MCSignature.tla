---------------------------- MODULE MCSignature -----------------------------
(* A small instance of Signature for TLC. *)
EXTENDS Signature

(* In words of six bits the largest value before a reduction is 63: moduli *)
(* that are folded (7 and 15), Mersenne numbers that one fold would leave  *)
(* too large (1, 3, and 7 with base 4), one that is none, and parameters   *)
(* that the constructor refuses because they would wrap.                   *)
SmallParameters ==
    {[alphabet |-> 2, modulus |-> 7], [alphabet |-> 3, modulus |-> 7],
     [alphabet |-> 2, modulus |-> 15], [alphabet |-> 3, modulus |-> 10],
     [alphabet |-> 4, modulus |-> 7], [alphabet |-> 5, modulus |-> 3],
     [alphabet |-> 2, modulus |-> 1],
     [alphabet |-> 3, modulus |-> 11], [alphabet |-> 4, modulus |-> 8]}
=============================================================================
