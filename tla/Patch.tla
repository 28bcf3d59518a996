------------------------------- MODULE Patch --------------------------------
(***************************************************************************)
(* The diff of a MODIFIED entry as the applier sees it: the effect of one  *)
(* opcode, and of the tail copy, in Apply::applyDiff (Apply.hpp).          *)
(*                                                                         *)
(* An opcode is [op |-> "D" | "I" | "X", pos, bytes, del]: at position pos *)
(* of the output, replace as many old bytes by `bytes`, insert `bytes`, or *)
(* delete `del` old bytes.                                                 *)
(***************************************************************************)
EXTENDS Integers, Sequences

Opcode(op, pos, bytes, del) == [op |-> op, pos |-> pos, bytes |-> bytes, del |-> del]

(* A patch under way: `out` is output, of which new_pos is always the      *)
(* length, and `at` is old_pos.                                            *)
Patching(out, at) == [out |-> out, at |-> at]

(* Old bytes an opcode passes over, after those before it are copied.      *)
Consumes(o) == IF o.op = "D" THEN Len(o.bytes) ELSE IF o.op = "X" THEN o.del ELSE 0

(* Mutant: how far an opcode advances in the old chunk is not checked.     *)
Fits_NoAdvance(p, o, old, size) ==
    LET match == o.pos - Len(p.out)
    IN  /\ match >= 0
        /\ match <= Len(old) - p.at /\ match <= size - Len(p.out)
        /\ Len(o.bytes) <= size - Len(p.out) - match

(* The bounds checks: position not backwards, match copy, inline write,    *)
(* and D advance or X delete within the old chunk.                         *)
Fits(p, o, old, size) ==
    LET match == o.pos - Len(p.out)
    IN  /\ match >= 0
        /\ match <= Len(old) - p.at /\ match <= size - Len(p.out)
        /\ Len(o.bytes) <= size - Len(p.out) - match
        /\ Consumes(o) <= Len(old) - p.at - match

PatchOp(p, o, old) ==
    LET match == o.pos - Len(p.out)
    IN  Patching(p.out \o SubSeq(old, p.at + 1, p.at + match) \o o.bytes,
                 p.at + match + Consumes(o))

(* What is still missing comes from the old chunk's tail.                  *)
TailFits(p, old, size) == size - Len(p.out) <= Len(old) - p.at

PatchTail(p, old, size) == p.out \o SubSeq(old, p.at + 1, p.at + size - Len(p.out))
=============================================================================
