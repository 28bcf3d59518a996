----------------------------- MODULE Signature ------------------------------
(***************************************************************************)
(* Signature::generate_signatures (src/Signature.hpp): content-defined     *)
(* chunks of a file read through FileIO, cut by RKFinger, byte by byte.    *)
(* Meanwhile another program may cut the file short or extend it.          *)
(*                                                                         *)
(* A chunk holds its bytes in place of their digest.                       *)
(***************************************************************************)
EXTENDS RollingHash, FileIO

CONSTANTS
    MinChunk, TargetChunk, MaxChunk,  \* DELTA_{MIN,TARGET,MAX}_CHUNK_SIZE
    TightBits, LooseBits,  \* bits of the masks 0x3FFF and 0x0FFF
    Target,                \* DELTA_BOUNDARY_TARGET
    Parameters,            \* what RKFinger may be given
    MaxLen                 \* bound on the length of a file

ASSUME SignatureAssumption ==
    /\ MinChunk \in Nat /\ TargetChunk \in Nat /\ MaxChunk \in Nat /\ MaxLen \in Nat
    /\ Window < MinChunk /\ MinChunk <= TargetChunk /\ TargetChunk <= MaxChunk
    /\ LooseBits <= TightBits
    /\ Parameters \subseteq [alphabet : Nat, modulus : Nat]

VARIABLES
    content,   \* bytes of the file
    changed,   \* whether another program has changed them
    params,    \* the fingerprint's parameters
    pc,        \* "open", "first", "window", "byte" or "done"
    file,      \* the FileIO
    finger,    \* the RKFinger
    chunk,     \* the bytes of the chunk under way
    chunks,    \* those emitted
    bytesRead,
    result     \* "none", "ok" or "failed"

vars == <<content, changed, params, pc, file, finger, chunk, chunks, bytesRead, result>>

Byte == 0 .. MaxByte

Init ==
    /\ content \in SeqOf(Byte, MaxLen) /\ changed = FALSE
    /\ params \in {p \in Parameters : Accepted(p)}
    /\ pc = "open" /\ file = Opened(content)
    /\ finger = Initialize(params, <<>>)
    /\ chunk = <<>> /\ chunks = <<>> /\ bytesRead = 0
    /\ result = "none"

-----------------------------------------------------------------------------
Chunk(bytes, signature, start) == [bytes |-> bytes, signature |-> signature, start |-> start]

Failed == pc' = "done" /\ result' = "failed" /\ chunks' = <<>>

Open ==
    /\ pc = "open"
    /\ \/ /\ pc' = "first" /\ file' = Opened(content)
          /\ UNCHANGED <<chunks, result>>
       \/ Failed /\ UNCHANGED file
    /\ UNCHANGED <<content, changed, params, finger, chunk, bytesRead>>

(* Mutant: the number of bytes read is not compared with the size.         *)
End_AnySize(bytes, signature, f, total) ==
    /\ IF f.error THEN Failed
       ELSE /\ pc' = "done" /\ result' = "ok"
            /\ chunks' = IF bytes = <<>> THEN chunks
                         ELSE Append(chunks, Chunk(bytes, signature, total - Len(bytes)))
    /\ chunk' = bytes /\ file' = f /\ bytesRead' = total

(* The end of the input: the residual chunk, if any, then finish().        *)
End(bytes, signature, f, total) ==
    /\ IF f.error \/ total # f.size THEN Failed
       ELSE /\ pc' = "done" /\ result' = "ok"
            /\ chunks' = IF bytes = <<>> THEN chunks
                         ELSE Append(chunks, Chunk(bytes, signature, total - Len(bytes)))
    /\ chunk' = bytes /\ file' = f /\ bytesRead' = total

(* A new chunk starts with a window of its own.                            *)
Seed(r) ==
    LET seeded == Initialize(params, r.bytes)
        total  == bytesRead + Len(r.bytes)
    IN  /\ finger' = seeded
        /\ IF Full(r.bytes)
           THEN /\ pc' = "byte" /\ chunk' = r.bytes /\ file' = r.file
                /\ bytesRead' = total
                /\ UNCHANGED <<chunks, result>>
           ELSE End(r.bytes, seeded.print, r.file, total)

FirstWindow ==
    /\ pc = "first" /\ \E r \in ReadChunkAt(file, content, Window, 0) : Seed(r)
    /\ UNCHANGED <<content, changed, params>>

NextWindow ==
    /\ pc = "window" /\ \E r \in ReadChunk(file, content, Window) : Seed(r)
    /\ UNCHANGED <<content, changed, params>>

(* Mutant: the largest size is exceeded by one.                            *)
Boundary_Late(size, print) ==
    \/ size > MaxChunk
    \/ /\ size >= MinChunk
       /\ LET m == 2^(IF size < TargetChunk THEN TightBits ELSE LooseBits)
          IN  print % m = Target % m

(* The tight mask below the target size, the loose one from there on.      *)
Boundary(size, print) ==
    \/ size >= MaxChunk
    \/ /\ size >= MinChunk
       /\ LET m == 2^(IF size < TargetChunk THEN TightBits ELSE LooseBits)
          IN  print % m = Target % m

NextByte ==
    /\ pc = "byte"
    /\ \E r \in ReadByte(file, content) :
          LET longer == Append(chunk, r.byte)
              rolled == ComputeNext(params, finger, r.byte)
          IN  IF r.byte = EndOfFile
              THEN End(chunk, finger.print, r.file, bytesRead) /\ UNCHANGED finger
              ELSE /\ finger' = rolled /\ file' = r.file /\ bytesRead' = bytesRead + 1
                   /\ IF Boundary(Len(longer), rolled.print)
                      THEN /\ pc' = "window" /\ chunk' = <<>>
                           /\ chunks' = Append(chunks, Chunk(longer, rolled.print,
                                                             bytesRead + 1 - Len(longer)))
                      ELSE chunk' = longer /\ UNCHANGED <<pc, chunks>>
                   /\ UNCHANGED result
    /\ UNCHANGED <<content, changed, params>>

(* Another program truncates the file or appends to it.                    *)
Change ==
    /\ pc # "done" /\ ~changed /\ changed' = TRUE
    /\ content' \in {SubSeq(content, 1, n) : n \in 0 .. Len(content) - 1}
                    \cup {Append(content, b) : b \in Byte}
    /\ UNCHANGED <<params, pc, file, finger, chunk, chunks, bytesRead, result>>

Done == pc = "done" /\ UNCHANGED vars

Next == Open \/ FirstWindow \/ NextWindow \/ NextByte \/ Change \/ Done

Spec == Init /\ [][Next]_vars

-----------------------------------------------------------------------------
TypeOK ==
    /\ content \in Seq(Byte) /\ changed \in BOOLEAN
    /\ pc \in {"open", "first", "window", "byte", "done"}
    /\ result \in {"none", "ok", "failed"}
    /\ file.at \in Nat /\ Len(file.buf) <= BufferSize
    /\ \A k \in 1 .. Len(chunks) :
          /\ chunks[k].start \in Nat /\ Len(chunks[k].bytes) \in 1 .. MaxChunk
          /\ k < Len(chunks) => Len(chunks[k].bytes) >= MinChunk
    /\ Len(chunk) < MaxChunk
    /\ bytesRead \in Nat

(* The polynomial hash of some bytes, without a window, a fold or a word.  *)
HashOf(p, bytes) == FoldLeft(LAMBDA h, c : p.alphabet * h + c, 0, bytes) % p.modulus

Direct(bytes) == HashOf(params, bytes)

WindowOf(bytes) == SubSeq(bytes, Max({1, Len(bytes) - Window + 1}), Len(bytes))

(* Whatever parameters the constructor accepts, the rolled fingerprint is  *)
(* the hash of the last bytes of the chunk: no product or sum wraps around *)
(* the word, and the single fold is the remainder (RK_finger.hpp).         *)
RollingIsDirect ==
    /\ chunk # <<>> => finger.print = Direct(WindowOf(chunk))
    /\ \A k \in 1 .. Len(chunks) : chunks[k].signature = Direct(WindowOf(chunks[k].bytes))

(* Where the chunk that starts some bytes ends, by definition.             *)
CutOf(bytes) ==
    Min({Len(bytes)} \cup {n \in Window + 1 .. Len(bytes) :
                             Boundary(n, Direct(WindowOf(SubSeq(bytes, 1, n))))})

(* Boundaries are content-defined: where a chunk ends depends on the bytes *)
(* from its start on and on nothing that came before, so that equal tails  *)
(* of two files are cut alike once one boundary coincides.                 *)
CutsAreLocal ==
    ~changed =>
        \A k \in 1 .. Len(chunks) :
            Len(chunks[k].bytes) = CutOf(SubSeq(content, chunks[k].start + 1, Len(content)))

EndOf(c) == c.start + Len(c.bytes)

(* The chunks lie end to end from the start of the file to position n.     *)
Tile(cs, n) ==
    IF cs = <<>> THEN n = 0
    ELSE /\ cs[1].start = 0 /\ EndOf(cs[Len(cs)]) = n
         /\ \A k \in 1 .. Len(cs) - 1 : cs[k + 1].start = EndOf(cs[k])

AreContent ==
    \A k \in 1 .. Len(chunks) :
        chunks[k].bytes = SubSeq(content, chunks[k].start + 1, EndOf(chunks[k]))

(* Reads through the read-ahead buffer, byte by byte and in windows, skip  *)
(* and repeat nothing: what was emitted, the chunk under way and what is   *)
(* buffered are the file up to the stream's position (FileIO.hpp:156-168). *)
NoByteLost ==
    ~changed /\ pc \in {"window", "byte"} =>
        /\ Tile(chunks, bytesRead - Len(chunk)) /\ AreContent
        /\ chunk = SubSeq(content, bytesRead - Len(chunk) + 1, bytesRead)
        /\ file.buf = SubSeq(content, bytesRead + 1, file.at)

(* A signature covers the whole file, or is none: no read error and no     *)
(* change of the file's length yields the chunks of a part of it.          *)
WholeOrNothing ==
    /\ result = "ok" => /\ Tile(chunks, file.size)
                        /\ ~changed => file.size = Len(content) /\ AreContent
    /\ result = "failed" => chunks = <<>>
=============================================================================
