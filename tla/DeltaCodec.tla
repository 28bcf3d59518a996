---------------------------- MODULE DeltaCodec -----------------------------
(***************************************************************************)
(* The bytes of a delta (src/DeltaCodec.hpp, src/DeltaFormat.hpp): what    *)
(* DeltaWriter emits for each record, the sizes it predicts, and the loop  *)
(* body of DeltaReader's varint.                                           *)
(*                                                                         *)
(* A byte is a number below 2 * Group: a varint carries Group values in    *)
(* each, the upper half saying that more follow.  An entry is              *)
(*   [type, index, size, digest, body, diff]                               *)
(* where `body` is a payload or a sequence of opcodes of Patch, `diff` the *)
(* length of those opcodes, and `index` and `size` are numbers             *)
(*   [value, i]                                                            *)
(* with the length i of their varint, 0 where the entry has no such field. *)
(***************************************************************************)
EXTENDS FileIO, Patch, SequencesExt

CONSTANTS
    Group,         \* 2^7
    MaxBytes,      \* VARINT_MAX_BYTES: as many full groups, less one, and a bit
    Weight,        \* Weight[i] is 2^(7 * i)
    FixedBytes,    \* sizeof(uint32_t)
    DigestBytes,   \* DELTA_DIGEST_BYTES
    TrailerBytes,  \* trailer_digest_size_
    MaxChunk,      \* DELTA_MAX_CHUNK_SIZE
    Magic,         \* DELTA_MAGIC
    Version,       \* DELTA_FORMAT_VERSION
    TrailerTag,    \* DELTA_TRAILER_TAG
    OpTag          \* [{"D", "I", "X"} -> Byte]

ASSUME WidthAssumption ==
    /\ Group \in Nat \ {0, 1} /\ MaxBytes \in Nat \ {0}
    /\ Weight \in [0 .. MaxBytes -> Nat] /\ Weight[0] = 1
    /\ \A i \in 0 .. MaxBytes - 1 : Weight[i + 1] = Group * Weight[i]
    /\ \A i, j \in 0 .. MaxBytes : i <= j => Weight[i] <= Weight[j]

Byte     == 0 .. 2 * Group - 1
WordSize == 2 * Weight[MaxBytes - 1]  \* 2^64
OpTags   == {OpTag[op] : op \in DOMAIN OpTag}

Original == 0
Added    == 1
Modified == 2
TypeLimit == 3  \* DELTA_ENTRY_TYPE_LIMIT

(* The tags a reader must tell apart at one place: what may follow an      *)
(* opcode is another one, an entry or the trailer.                         *)
ASSUME LayoutAssumption ==
    /\ FixedBytes \in Nat \ {0} /\ DigestBytes \in Nat \ {0}
    /\ TrailerBytes \in Nat \ {0} /\ MaxChunk \in Nat
    /\ Magic \in Seq(Byte) /\ Version \in Nat
    /\ DOMAIN OpTag = {"D", "I", "X"} /\ OpTags \subseteq Byte
    /\ \A a, b \in DOMAIN OpTag : OpTag[a] = OpTag[b] => a = b
    /\ TrailerTag \in Byte \ OpTags
    /\ (0 .. TypeLimit - 1) \cap (OpTags \cup {TrailerTag}) = {}

-----------------------------------------------------------------------------
(* push_u32_be and load_u32_be                                             *)
ByteWeight[i \in 0 .. FixedBytes] ==
    IF i = 0 THEN 1 ELSE 2 * Group * ByteWeight[i - 1]  \* 2^(8 * i)

Fixed(value) ==
    [i \in 1 .. FixedBytes |-> (value \div ByteWeight[FixedBytes - i]) % (2 * Group)]

(* Mutant: the bytes in the order of the machine.                          *)
LoadFixed_Little(bytes) == FoldRight(LAMBDA b, value : 2 * Group * value + b, bytes, 0)

LoadFixed(bytes) == FoldLeft(LAMBDA value, b : 2 * Group * value + b, 0, bytes)

(* push_varint, and the same loop in emitRecord                            *)
Varint[value \in Nat] ==
    IF value < Group THEN <<value>>
    ELSE <<Group + (value % Group)>> \o Varint[value \div Group]

VarintSize[value \in Nat] ==
    IF value < Group THEN 1 ELSE 1 + VarintSize[value \div Group]

HeaderBytes == Magic \o Fixed(Version)

OpcodeBytes(o) ==
    <<OpTag[o.op]>> \o Fixed(o.pos)
    \o (IF o.op = "X" THEN Fixed(o.del) ELSE <<Len(o.bytes)>> \o o.bytes)

(* An opcode whose inline bytes can be counted in one byte.                *)
OpType ==
    {o \in [op : DOMAIN OpTag, pos : Nat, bytes : Seq(Byte), del : Nat] : Len(o.bytes) \in Byte}

OpcodesBytes(ops) == FlattenSeq([k \in DOMAIN ops |-> OpcodeBytes(ops[k])])

BodyBytes(e) == IF e.type = Modified THEN OpcodesBytes(e.body) ELSE e.body

NoBytes   == [value |-> 0, i |-> 0]
Number(v) == [value |-> v, i |-> VarintSize[v]]

NewEntry(type) == [type |-> type, index |-> NoBytes, size |-> NoBytes,
                   digest |-> <<>>, body |-> <<>>, diff |-> 0]

FieldBytes(n) == IF n = NoBytes THEN <<>> ELSE Varint[n.value]

EntryBytes(e, fields) == <<e.type>> \o fields \o e.digest \o BodyBytes(e)

(* write_original, write_added and write_modified through emitRecord       *)
RecordBytes(e) == EntryBytes(e, FieldBytes(e.index) \o FieldBytes(e.size))

TrailerRecord(digest) == <<TrailerTag>> \o digest

AddedSize(payload) == 1 + VarintSize[payload] + DigestBytes + payload

ModifiedSize(index, size, diff) ==
    1 + VarintSize[index] + VarintSize[size] + DigestBytes + diff

-----------------------------------------------------------------------------
(* read_varint, byte by byte: a number is its value so far and how many.   *)

Bits(byte) == byte % Group
More(byte) == byte >= Group

(* Mutant: the last byte may carry a whole group.                          *)
Oversized_Never(n, byte) == FALSE

(* "bits > 1" at the last byte                                             *)
Oversized(n, byte) == n.i = MaxBytes - 1 /\ Bits(byte) > 1

(* value |= bits << (7 * i), in 64 bits                                    *)
AddGroup(n, byte) ==
    [value |-> (n.value + Bits(byte) * Weight[n.i]) % WordSize, i |-> n.i + 1]
=============================================================================
