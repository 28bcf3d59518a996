--------------------------- MODULE MCDeltaViewer ---------------------------
(* A small instance of DeltaViewer for TLC: bytes of three bits. *)
EXTENDS DeltaViewer

MagicBytes == <<6>>
PowersOf4  == [i \in 0 .. 3 |-> 4 ^ i]
Tags       == [o \in {"D", "I", "X"} |-> CASE o = "D" -> 4 [] o = "I" -> 5 [] o = "X" -> 6]

Reused(index, digest)      == [reuse |-> TRUE, index |-> index, payload |-> <<>>,
                               digest |-> <<digest>>, ops |-> <<>>]
New(payload, digest, ops)  == [reuse |-> FALSE, index |-> 0, payload |-> payload,
                               digest |-> <<digest>>, ops |-> ops]

(* Indices of one to three bytes, the greatest one included; digests and   *)
(* payloads that look like opcodes, entries or a trailer; a diff that pays *)
(* for itself, one that does not, and one of two opcodes.                  *)
SomeChunks ==
    { Reused(1, 4), Reused(31, 7),
      New(<<7, 4, 1>>, 6, <<>>),
      New(<<4, 5, 6, 7, 0>>, 0, <<Opcode("X", 9, <<>>, 1)>>),
      New(<<0, 1, 2, 3, 4, 5, 6>>, 5, <<Opcode("X", 2, <<>>, 8)>>),
      New([k \in 1 .. 13 |-> k % 8], 7, <<Opcode("I", 0, <<7>>, 0), Opcode("D", 1, <<5, 4>>, 0)>>) }

SomeWholes == {<<7, 4>>}
=============================================================================
