------------------------------- MODULE FileIO --------------------------------
(***************************************************************************)
(* The reading half of FileIO (src/FileIO.cpp): a stream with a read-ahead *)
(* buffer that single-byte reads fill and chunk reads drain, and a sticky  *)
(* error flag.  (The writing half is part of OutputTransaction.)           *)
(*                                                                         *)
(* `f` is an open FileIO: `at` the position of the stream, `buf` the bytes *)
(* read ahead, rbuf_[rpos_, rlen_), `eof` its eofbit, `error` io_error_    *)
(* and `size` size_.  A read can fail: an operation is the set of its      *)
(* outcomes.                                                               *)
(***************************************************************************)
EXTENDS Integers, Sequences, FiniteSetsExt

CONSTANT BufferSize  \* READ_BUFFER_SIZE

ASSUME BufferAssumption == BufferSize \in Nat \ {0}

EndOfFile == -1

(* open(): size_ is a snapshot, not a limit.                               *)
Opened(content) ==
    [at |-> 0, buf |-> <<>>, eof |-> FALSE, error |-> FALSE, size |-> Len(content)]

(* f_.read(n): what there is, eofbit set if that is less than n; or any    *)
(* part of it, with badbit.  Nothing once eofbit is set.                   *)
StreamRead(f, content, n) ==
    LET left == IF f.eof THEN <<>> ELSE SubSeq(content, f.at + 1, Min({f.at + n, Len(content)}))
        Got(k, eof, bad) == [bytes |-> SubSeq(left, 1, k),
                             file  |-> [f EXCEPT !.at = @ + k, !.eof = eof, !.error = bad]]
    IN  {Got(Len(left), Len(left) < n, FALSE)}
        \cup (IF f.eof THEN {} ELSE {Got(k, FALSE, TRUE) : k \in 0 .. Len(left)})

(* refill(): bytes that came with an error are handed out first.           *)
Refill(f, content) ==
    IF f.error THEN {f}
    ELSE {[r.file EXCEPT !.buf = r.bytes] : r \in StreamRead(f, content, BufferSize)}

ReadByte(f, content) ==
    {IF g.buf = <<>> THEN [byte |-> EndOfFile, file |-> g]
     ELSE [byte |-> Head(g.buf), file |-> [g EXCEPT !.buf = Tail(@)]] :
        g \in IF f.buf = <<>> THEN Refill(f, content) ELSE {f}}

PeekByte(f, content) ==
    {IF g.buf = <<>> THEN [byte |-> EndOfFile, file |-> g]
     ELSE [byte |-> Head(g.buf), file |-> g] :
        g \in IF f.buf = <<>> THEN Refill(f, content) ELSE {f}}

(* Mutant: what was read ahead is skipped.                                 *)
ReadChunk_Stream(f, content, n) ==
    IF f.error THEN {[bytes |-> <<>>, file |-> f]}
    ELSE StreamRead([f EXCEPT !.buf = <<>>], content, n)

(* Mutant: what was read ahead is handed out and kept.                     *)
ReadChunk_Keeps(f, content, n) ==
    LET ahead == SubSeq(f.buf, 1, Min({n, Len(f.buf)}))
    IN  IF f.error THEN {[bytes |-> <<>>, file |-> f]}
        ELSE IF Len(ahead) = n THEN {[bytes |-> ahead, file |-> f]}
        ELSE {[r EXCEPT !.bytes = ahead \o @] : r \in StreamRead(f, content, n - Len(ahead))}

(* read_chunk(n): first what was read ahead, then the stream.              *)
ReadChunk(f, content, n) ==
    LET ahead == SubSeq(f.buf, 1, Min({n, Len(f.buf)}))
        g == [f EXCEPT !.buf = SubSeq(f.buf, n + 1, Len(f.buf))]
    IN  IF f.error THEN {[bytes |-> <<>>, file |-> f]}
        ELSE IF Len(ahead) = n THEN {[bytes |-> ahead, file |-> g]}
        ELSE {[r EXCEPT !.bytes = ahead \o @] : r \in StreamRead(g, content, n - Len(ahead))}

(* read_chunk(n, pos): seeks, which drops the bytes read ahead.            *)
ReadChunkAt(f, content, n, pos) ==
    LET g == [f EXCEPT !.buf = <<>>]
    IN  IF f.error THEN {[bytes |-> <<>>, file |-> g]}
        ELSE {[bytes |-> <<>>, file |-> [g EXCEPT !.error = TRUE]]}
             \cup ReadChunk([g EXCEPT !.at = pos, !.eof = FALSE], content, n)
=============================================================================
