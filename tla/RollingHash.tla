---------------------------- MODULE RollingHash -----------------------------
(***************************************************************************)
(* RKFinger (src/RK_finger.hpp): a Rabin-Karp fingerprint of the last      *)
(* Window bytes, rolled one byte at a time in unsigned words.              *)
(*                                                                         *)
(* `p` is what the constructor was given, [alphabet, modulus]; `r` is what *)
(* changes, the fingerprint and the bytes of the window, oldest first.     *)
(***************************************************************************)
EXTENDS Integers, Sequences, SequencesExt, FiniteSetsExt

CONSTANTS
    Window,   \* window_size_
    MaxByte,  \* largest byte value (255)
    WordSize  \* values of an unsigned word (2^64)

ASSUME RollingAssumption ==
    Window \in Nat \ {0} /\ MaxByte \in Nat \ {0} /\ WordSize \in Nat \ {0}

Word(v) == v % WordSize

(* The constructor's checks, and those that admit the fold.                *)
Accepted(p) ==
    /\ p.alphabet > 0 /\ p.modulus > 0
    /\ p.modulus <= (WordSize - 1 - MaxByte) \div (2 * Max({p.alphabet, MaxByte}))

Mersenne(p) == \E k \in 1 .. p.modulus : p.modulus = 2^k - 1

MaxInput(p) == Max({2 * p.alphabet * p.modulus + MaxByte, MaxByte * (p.modulus - 1)})

(* Mutant: every Mersenne modulus is folded.                               *)
Folds_Always(p) == Mersenne(p)

Folds(p) == Mersenne(p) /\ MaxInput(p) \div (p.modulus + 1) < p.modulus

(* reduce(): one fold and one subtraction for a Mersenne modulus 2^k - 1.  *)
Reduce(p, v) ==
    IF Folds(p)
    THEN LET folded == (v % (p.modulus + 1)) + (v \div (p.modulus + 1))
         IN  IF folded >= p.modulus THEN folded - p.modulus ELSE folded
    ELSE v % p.modulus

(* h_: the weight of the byte that leaves the window.                      *)
Weight(p) == FoldLeft(LAMBDA h, j : Reduce(p, Word(h * p.alphabet)), 1,
                      [j \in 1 .. Window - 1 |-> j])

(* initialize(): false, and no rolling, with less than a window.           *)
Full(bytes) == Len(bytes) >= Window

Initialize(p, bytes) ==
    [print  |-> FoldLeft(LAMBDA h, c : Reduce(p, Word(p.alphabet * h + c)), 0, bytes),
     window |-> bytes \o [j \in 1 .. Window - Len(bytes) |-> 0]]

(* Mutant: the byte that leaves the window keeps its weight.               *)
ComputeNext_NoEviction(p, r, byte) ==
    [print  |-> Reduce(p, Word(p.alphabet * r.print + byte)),
     window |-> Append(Tail(r.window), byte)]

ComputeNext(p, r, byte) ==
    LET leaving == Reduce(p, Word(Head(r.window) * Weight(p)))
    IN  [print  |-> Reduce(p, Word(p.alphabet * (r.print + p.modulus - leaving) + byte)),
         window |-> Append(Tail(r.window), byte)]
=============================================================================
