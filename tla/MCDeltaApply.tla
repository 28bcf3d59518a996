---------------------------- MODULE MCDeltaApply ----------------------------
(* A small instance of DeltaApply for TLC. *)
EXTENDS DeltaApply, TLC

CONSTANTS a, b

(* Old files of chunks of two bytes; the first is the one the delta is for. *)
OldFile     == <<a, b, a, a>>
OldContents == {OldFile, <<b, b, a, a>>, <<a, b, b, a>>, <<a, b, a>>, <<>>}
InPairs == [c \in BoundedSeq(Byte, MaxLength) |->
               [k \in 1 .. (Len(c) + 1) \div 2 |->
                   [start |-> 2 * k - 2,
                    bytes |-> SubSeq(c, 2 * k - 1, Min({2 * k, Len(c)}))]]]

Entry(type, source, size, digest, payload) ==
    [kind |-> "entry", whole |-> TRUE, type |-> type, source |-> source, size |-> size,
     digest |-> digest, payload |-> payload]
Op(op, pos0, bytes, del) == [kind |-> "op", whole |-> TRUE, code |-> Opcode(op, pos0, bytes, del)]
Trailer(digest) == [kind |-> "trailer", whole |-> TRUE, digest |-> digest]
Header == [kind |-> "header", whole |-> TRUE]

(* Reuse, a replaced byte, a greedy diff (whose last opcode, a deletion,   *)
(* comes after the entry's size is reached) and an addition.               *)
Target == <<a, b, b, a, b, b>>
Good == << Header,
           Entry("ORIGINAL", 1, 0, <<a, b>>, <<>>),
           Entry("MODIFIED", 2, 2, <<b, a>>, <<>>), Op("D", 0, <<b>>, 0),
           Entry("MODIFIED", 1, 1, <<b>>, <<>>), Op("D", 0, <<b>>, 0), Op("X", 1, <<>>, 1),
           Entry("ADDED", 0, 1, <<b>>, <<b>>),
           Trailer(Target) >>

(* One item lost, doubled, swapped with the next, cut short, or replaced.  *)
Strangers == { Entry("ORIGINAL", 2, 0, <<a, b>>, <<>>), Entry("ORIGINAL", 3, 0, <<a, b>>, <<>>),
               Entry("ADDED", 0, 1, <<b>>, <<a>>), Entry("ADDED", 0, 3, <<b, b, b>>, <<b, b, b>>),
               Entry("MODIFIED", 2, 3, <<b, a>>, <<>>), Entry("MODIFIED", 3, 2, <<b, a>>, <<>>),
               Op("X", 0, <<>>, 3), Op("I", 2, <<b>>, 0), Op("D", 3, <<a>>, 0), Op("I", 0, <<a>>, 0),
               Trailer(<<a, b>>) }
Damaged ==
    {Good}
    \cup {RemoveAt(Good, k) : k \in 1 .. Len(Good)}
    \cup {InsertAt(Good, k, Good[k]) : k \in 1 .. Len(Good)}
    \cup {SubSeq(Good, 1, k) : k \in 0 .. Len(Good)}
    \cup {Append(SubSeq(Good, 1, k - 1), [Good[k] EXCEPT !.whole = FALSE]) : k \in 1 .. Len(Good)}
    \cup {[[Good EXCEPT ![k] = Good[k + 1]] EXCEPT ![k + 1] = Good[k]] : k \in 1 .. Len(Good) - 1}
    \cup {[Good EXCEPT ![k] = s] : k \in 2 .. Len(Good), s \in Strangers}
    \cup {Append(Good, s) : s \in Strangers}
    \cup {InsertAt(Good, k, s) : k \in 2 .. Len(Good), s \in Strangers}

(* No option; limits of 5 and 6 bytes, in words of four bits where K is 2  *)
(* and M is 4; numbers and products one too large; and malformed texts.    *)
Text(digits, suffix) == [digits |-> digits, suffix |-> suffix]
SomeOptions == { None, Text(<<5>>, <<>>), Text(<<0, 3>>, <<"K">>), Text(<<1, 6>>, <<>>),
                 Text(<<8>>, <<"K">>), Text(<<5>>, <<"M">>), Text(<<>>, <<"K">>), Text(<<>>, <<>>),
                 Text(<<5>>, <<"K", "K">>), Text(<<5>>, <<"x">>) }
SmallScale == [c \in {"K", "M"} |-> IF c = "K" THEN 2 ELSE 4]

(* The delta that create made, applied to the file it was made of, under a *)
(* limit it keeps to, is accepted unless something fails or changes.       *)
GoodIsAccepted ==
    /\ delta = Good /\ changes = 0 /\ chunks \in {<<>>, InPairs[OldFile]}
    /\ content = OldFile /\ limit >= Len(Target)
    => \/ result \in {"none", "ok", "io_error", "invalid_argument", "internal_error", "usage"}
       \/ deltaErr
=============================================================================
