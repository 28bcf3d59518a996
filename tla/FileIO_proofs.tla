---------------------------- MODULE FileIO_proofs ----------------------------
(***************************************************************************)
(* The read-ahead buffer of FileIO (FileIO.hpp:156-168), for every length  *)
(* of the buffer and of the file: whatever a read does, or fails to do,    *)
(* what is ahead is what comes next, and what is handed out is what the    *)
(* caller's position says.                                                 *)
(***************************************************************************)
EXTENDS FileIO, Induction_proofs

(* The caller's position: the stream's, less what was read ahead.          *)
Position(f) == f.at - Len(f.buf)

FileType(B) ==
    [at : Nat, buf : Seq(B), eof : BOOLEAN, error : BOOLEAN, size : Nat]

(* A file over `content`, a sequence of elements of B, read correctly.     *)
Good(f, content, B) ==
    /\ f \in FileType(B)
    /\ Len(f.buf) <= f.at /\ f.at <= Len(content)
    /\ \A i \in 1 .. Len(f.buf) : f.buf[i] = content[Position(f) + i]

LEMMA OpenedGood ==
    ASSUME NEW B, NEW content \in Seq(B), NEW c
    PROVE  /\ Opened(content) \in FileType(B)
           /\ Opened(content).at = 0 /\ Opened(content).buf = <<>>
           /\ Good(Opened(content), content, B)
  <1>1. <<>> \in Seq(B) /\ Len(<<>>) = 0 /\ Len(content) \in Nat
    BY EmptySeq, LenProperties
  <1> QED
    BY <1>1 DEF Opened, Good, FileType, Position

(* A read of the stream itself, with nothing ahead.                        *)
LEMMA StreamReads ==
    ASSUME NEW B, NEW content \in Seq(B), NEW f, Good(f, content, B), f.buf = <<>>,
           NEW n \in Nat, NEW r \in StreamRead(f, content, n)
    PROVE  \E k \in 0 .. n :
              /\ r = [bytes |-> r.bytes, file |-> r.file]
              /\ r.bytes \in Seq(B) /\ Len(r.bytes) = k
              /\ \A i \in 1 .. k : r.bytes[i] = content[f.at + i]
              /\ r.file \in FileType(B)
              /\ r.file.at = f.at + k /\ r.file.buf = <<>> /\ f.at + k <= Len(content)
              /\ r.file.size = f.size
  <1> DEFINE m    == Min({f.at + n, Len(content)})
             left == IF f.eof THEN <<>> ELSE SubSeq(content, f.at + 1, m)
             Got(k, eof, bad) == [bytes |-> SubSeq(left, 1, k),
                                  file  |-> [f EXCEPT !.at = @ + k, !.eof = eof, !.error = bad]]
  <1>1. /\ f \in FileType(B) /\ f.at \in Nat /\ f.at <= Len(content) /\ Len(content) \in Nat
    BY LenProperties DEF Good, FileType
  <1>2. m \in Nat /\ m >= f.at /\ m <= f.at + n /\ m <= Len(content)
    BY SMTT(60), <1>1, MinOfTwo
  <1>3. /\ left \in Seq(B) /\ Len(left) \in 0 .. n /\ f.at + Len(left) <= Len(content)
        /\ \A i \in 1 .. Len(left) : left[i] = content[f.at + i]
    <2>1. CASE f.eof
      BY <1>1, <2>1, EmptySeq
    <2>2. CASE ~f.eof
      <3>1. \A i \in f.at + 1 .. m : content[i] \in B
        BY <1>1, <1>2, ElementOfSeq
      <3> HIDE DEF m
      <3>2. /\ SubSeq(content, f.at + 1, m) \in Seq(B)
            /\ Len(SubSeq(content, f.at + 1, m)) = IF f.at + 1 <= m THEN m - (f.at + 1) + 1 ELSE 0
            /\ \A i \in 1 .. m - (f.at + 1) + 1 :
                  SubSeq(content, f.at + 1, m)[i] = content[f.at + 1 + i - 1]
        BY SMTT(60), <1>1, <1>2, <3>1, SubSeqProperties
      <3>3. left = SubSeq(content, f.at + 1, m)
        BY <2>2 DEF left
      <3> HIDE DEF left
      <3>4. Len(left) = m - f.at
        BY SMTT(60), <1>1, <1>2, <3>2, <3>3
      <3>5. \A i \in 1 .. m - f.at : left[i] = content[f.at + i]
        BY SMTT(60), <1>1, <1>2, <3>2, <3>3
      <3>6. left \in Seq(B)
        BY <3>2, <3>3
      <3>7. Len(left) \in 0 .. n /\ f.at + Len(left) <= Len(content)
        BY <1>1, <1>2, <3>4
      <3> QED
        BY <3>4, <3>5, <3>6, <3>7
    <2> QED
      BY <2>1, <2>2
  <1>4. \E k \in 0 .. Len(left), eof \in BOOLEAN, bad \in BOOLEAN : r = Got(k, eof, bad)
    <2>1. r \in {Got(Len(left), Len(left) < n, FALSE)}
                \cup (IF f.eof THEN {} ELSE {Got(k, FALSE, TRUE) : k \in 0 .. Len(left)})
      BY DEF StreamRead
    <2>2. Len(left) \in 0 .. Len(left) /\ (Len(left) < n) \in BOOLEAN
      BY <1>3
    <2> HIDE DEF left, Got
    <2> QED
      BY <2>1, <2>2
  <1> HIDE DEF left
  <1>5. PICK k \in 0 .. Len(left), eof \in BOOLEAN, bad \in BOOLEAN : r = Got(k, eof, bad)
    BY <1>4
  <1>6. \A i \in 1 .. k : left[i] \in B
    BY <1>3, ElementOfSeq
  <1>7. /\ SubSeq(left, 1, k) \in Seq(B) /\ Len(SubSeq(left, 1, k)) = k
        /\ \A i \in 1 .. k : SubSeq(left, 1, k)[i] = left[i]
    <2>1. k \in Nat
      BY <1>3
    <2>2. /\ SubSeq(left, 1, k) \in Seq(B)
          /\ Len(SubSeq(left, 1, k)) = IF 1 <= k THEN k - 1 + 1 ELSE 0
          /\ \A i \in 1 .. k - 1 + 1 : SubSeq(left, 1, k)[i] = left[1 + i - 1]
      BY <1>6, <2>1, SubSeqProperties
    <2> QED
      BY <2>1, <2>2
  <1>8. /\ r.bytes = SubSeq(left, 1, k)
        /\ r.file = [f EXCEPT !.at = @ + k, !.eof = eof, !.error = bad]
        /\ r = [bytes |-> r.bytes, file |-> r.file]
    BY <1>5
  <1>9. /\ r.file \in FileType(B) /\ r.file.at = f.at + k /\ r.file.buf = <<>>
        /\ r.file.size = f.size
    <2>1. f.at + k \in Nat
      BY <1>1, <1>3
    <2> QED
      BY <1>1, <1>8, <2>1 DEF FileType
  <1>10. k \in 0 .. n /\ f.at + k <= Len(content)
    BY <1>1, <1>3
  <1>11. \A i \in 1 .. k : r.bytes[i] = content[f.at + i]
    BY <1>3, <1>7, <1>8
  <1> QED
    BY <1>7, <1>8, <1>9, <1>10, <1>11

(* A read of one block keeps the caller's position.                        *)
LEMMA RefillGood ==
    ASSUME NEW B, NEW content \in Seq(B), NEW f, Good(f, content, B), f.buf = <<>>,
           NEW g \in Refill(f, content)
    PROVE  Good(g, content, B) /\ Position(g) = Position(f)
  <1>1. CASE f.error
    BY <1>1 DEF Refill
  <1>2. CASE ~f.error
    <2>1. PICK r \in StreamRead(f, content, BufferSize) : g = [r.file EXCEPT !.buf = r.bytes]
      BY <1>2 DEF Refill
    <2>2. BufferSize \in Nat
      BY BufferAssumption
    <2>3. PICK k \in 0 .. BufferSize :
              /\ r.bytes \in Seq(B) /\ Len(r.bytes) = k
              /\ \A i \in 1 .. k : r.bytes[i] = content[f.at + i]
              /\ r.file \in FileType(B)
              /\ r.file.at = f.at + k /\ r.file.buf = <<>> /\ f.at + k <= Len(content)
              /\ r.file.size = f.size
      BY <2>1, <2>2, StreamReads
    <2>4. g \in FileType(B) /\ g.at = f.at + k /\ g.buf = r.bytes
      BY <2>1, <2>3 DEF FileType
    <2>5. f.at \in Nat /\ Len(f.buf) = 0
      BY EmptySeq DEF Good, FileType
    <2>6. Position(g) = f.at /\ Position(f) = f.at
      BY <2>2, <2>3, <2>4, <2>5 DEF Position
    <2> QED
      BY <2>2, <2>3, <2>4, <2>5, <2>6 DEF Good
  <1> QED
    BY <1>1, <1>2

(* peek_byte() and read_byte(): the byte at the caller's position, or none.*)
LEMMA PeekByteReads ==
    ASSUME NEW B, NEW content \in Seq(B), NEW f, Good(f, content, B),
           NEW r \in PeekByte(f, content)
    PROVE  /\ Good(r.file, content, B) /\ Position(r.file) = Position(f)
           /\ \/ r.byte = EndOfFile /\ r.file.buf = <<>>
              \/ r.byte = Head(r.file.buf) /\ r.file.buf # <<>>
  <1>1. PICK g \in (IF f.buf = <<>> THEN Refill(f, content) ELSE {f}) :
           r = IF g.buf = <<>> THEN [byte |-> EndOfFile, file |-> g]
               ELSE [byte |-> Head(g.buf), file |-> g]
    BY DEF PeekByte
  <1>2. Good(g, content, B) /\ Position(g) = Position(f)
    BY <1>1, RefillGood
  <1> QED
    BY <1>1, <1>2

LEMMA ReadByteReads ==
    ASSUME NEW B, NEW content \in Seq(B), NEW f, Good(f, content, B),
           NEW r \in ReadByte(f, content)
    PROVE  /\ Good(r.file, content, B)
           /\ \/ r.byte = EndOfFile /\ Position(r.file) = Position(f)
              \/ /\ Position(r.file) = Position(f) + 1
                 /\ Position(r.file) \in 1 .. Len(content)
                 /\ r.byte = content[Position(r.file)]
  <1>1. PICK g \in (IF f.buf = <<>> THEN Refill(f, content) ELSE {f}) :
           r = IF g.buf = <<>> THEN [byte |-> EndOfFile, file |-> g]
               ELSE [byte |-> Head(g.buf), file |-> [g EXCEPT !.buf = Tail(@)]]
    BY DEF ReadByte
  <1>2. Good(g, content, B) /\ Position(g) = Position(f)
    BY <1>1, RefillGood
  <1>3. CASE g.buf = <<>>
    BY <1>1, <1>2, <1>3
  <1>4. CASE g.buf # <<>>
    <2>1. r.byte = Head(g.buf) /\ r.file = [g EXCEPT !.buf = Tail(@)]
      BY <1>1, <1>4
    <2>2. /\ g \in FileType(B) /\ g.buf \in Seq(B) /\ g.at \in Nat /\ g.at <= Len(content)
          /\ Len(g.buf) \in Nat \ {0} /\ Len(g.buf) <= g.at /\ Len(content) \in Nat
          /\ \A i \in 1 .. Len(g.buf) : g.buf[i] = content[g.at - Len(g.buf) + i]
      BY <1>2, <1>4, EmptySeq, LenProperties DEF Good, FileType, Position
    <2>3. /\ Tail(g.buf) \in Seq(B) /\ Len(Tail(g.buf)) = Len(g.buf) - 1
          /\ \A i \in 1 .. Len(Tail(g.buf)) : Tail(g.buf)[i] = g.buf[i + 1]
          /\ Head(g.buf) = g.buf[1]
      BY <1>4, <2>2, HeadTailProperties
    <2>4. r.file \in FileType(B) /\ r.file.at = g.at /\ r.file.buf = Tail(g.buf)
      BY <2>1, <2>2, <2>3 DEF FileType
    <2>5. Position(r.file) = Position(g) + 1
      BY <2>2, <2>3, <2>4 DEF Position
    <2>6. Position(g) = g.at - Len(g.buf)
      BY DEF Position
    <2>7. \A i \in 1 .. Len(r.file.buf) : r.file.buf[i] = content[Position(r.file) + i]
      <3> TAKE i \in 1 .. Len(r.file.buf)
      <3>1. i \in 1 .. Len(Tail(g.buf)) /\ i + 1 \in 1 .. Len(g.buf)
        BY <2>2, <2>3, <2>4
      <3>2. r.file.buf[i] = content[g.at - Len(g.buf) + (i + 1)]
        BY <2>2, <2>3, <2>4, <3>1
      <3>3. Position(r.file) + i = g.at - Len(g.buf) + (i + 1)
        <4>1. i \in Int /\ g.at \in Int /\ Len(g.buf) \in Int
          BY <2>2, <2>3, <3>1
        <4> QED
          BY SMTT(60), <2>5, <2>6, <4>1
      <3> QED
        BY <3>2, <3>3
    <2>8. Good(r.file, content, B)
      <3>1. Len(r.file.buf) <= r.file.at /\ r.file.at <= Len(content)
        BY <2>2, <2>3, <2>4
      <3> QED
        BY <2>4, <2>7, <3>1 DEF Good
    <2>9. r.byte = content[Position(r.file)]
      BY SMTT(60), <2>1, <2>2, <2>3, <2>5, <2>6
    <2>10. Position(r.file) \in 1 .. Len(content)
      BY <2>2, <2>5, <2>6
    <2> QED
      BY <1>2, <2>5, <2>8, <2>9, <2>10
  <1> QED
    BY <1>3, <1>4

(* read_chunk(): as many of the next bytes as it returns, from the buffer, *)
(* from the stream, or from one after the other.                           *)
LEMMA ReadChunkReads ==
    ASSUME NEW B, NEW content \in Seq(B), NEW f, Good(f, content, B),
           NEW n \in Nat, NEW r \in ReadChunk(f, content, n)
    PROVE  /\ Good(r.file, content, B)
           /\ r.bytes \in Seq(B) /\ Len(r.bytes) <= n
           /\ Position(r.file) = Position(f) + Len(r.bytes)
           /\ \A i \in 1 .. Len(r.bytes) : r.bytes[i] = content[Position(f) + i]
  <1> DEFINE b     == f.buf
             j     == Min({n, Len(b)})
             ahead == SubSeq(b, 1, j)
             rest  == SubSeq(b, n + 1, Len(b))
             g     == [f EXCEPT !.buf = rest]
  <1>1. /\ f \in FileType(B) /\ b \in Seq(B) /\ f.at \in Nat /\ f.at <= Len(content)
        /\ Len(b) \in Nat /\ Len(b) <= f.at /\ Len(content) \in Nat
        /\ \A i \in 1 .. Len(b) : b[i] = content[Position(f) + i]
        /\ Position(f) = f.at - Len(b) /\ Position(f) \in Nat
    BY LenProperties DEF Good, FileType, Position
  <1>2. /\ j = IF n <= Len(b) THEN n ELSE Len(b)
        /\ j \in Nat /\ j <= n /\ j <= Len(b)
    <2>1. \A l \in Nat : Min({n, l}) = IF n <= l THEN n ELSE l
      BY MinOfTwo
    <2>2. Len(b) \in Nat
      BY <1>1
    <2> QED
      BY <2>1, <2>2
  <1>r. /\ f.error => r = [bytes |-> <<>>, file |-> f]
        /\ ~f.error /\ Len(ahead) = n => r = [bytes |-> ahead, file |-> g]
        /\ ~f.error /\ Len(ahead) # n =>
              \E s \in StreamRead(g, content, n - Len(ahead)) : r = [s EXCEPT !.bytes = ahead \o @]
    BY DEF ReadChunk
  <1> HIDE DEF b, j
  <1>3. /\ ahead \in Seq(B) /\ Len(ahead) = j
        /\ \A i \in 1 .. j : ahead[i] = content[Position(f) + i]
    <2> HIDE DEF ahead
    <2>0. ahead = SubSeq(b, 1, j)
      BY DEF ahead
    <2>1. \A i \in 1 .. j : b[i] \in B
      BY <1>1, <1>2, ElementOfSeq
    <2>2. /\ SubSeq(b, 1, j) \in Seq(B)
          /\ Len(SubSeq(b, 1, j)) = IF 1 <= j THEN j - 1 + 1 ELSE 0
          /\ \A i \in 1 .. j - 1 + 1 : SubSeq(b, 1, j)[i] = b[1 + i - 1]
      BY <1>1, <1>2, <2>1, SubSeqProperties
    <2>3. ahead \in Seq(B) /\ Len(ahead) = j
      BY <1>2, <2>0, <2>2
    <2>4. \A i \in 1 .. j : ahead[i] = b[i]
      BY <1>2, <2>0, <2>2
    <2> QED
      BY <1>1, <1>2, <2>3, <2>4
  <1>4. /\ rest \in Seq(B) /\ Len(rest) = Len(b) - j
        /\ \A i \in 1 .. Len(rest) : rest[i] = b[n + i]
        /\ n >= Len(b) => rest = <<>>
    <2>1. \A i \in n + 1 .. Len(b) : b[i] \in B
      BY <1>1, ElementOfSeq
    <2>2. /\ SubSeq(b, n + 1, Len(b)) \in Seq(B)
          /\ Len(SubSeq(b, n + 1, Len(b)))
               = IF n + 1 <= Len(b) THEN Len(b) - (n + 1) + 1 ELSE 0
          /\ \A i \in 1 .. Len(b) - (n + 1) + 1 : SubSeq(b, n + 1, Len(b))[i] = b[n + 1 + i - 1]
      BY <1>1, <2>1, SubSeqProperties
    <2>3. n >= Len(b) => rest = <<>>
      BY <1>1, <2>2, EmptySeq
    <2> HIDE DEF rest
    <2>4. rest = SubSeq(b, n + 1, Len(b))
      BY DEF rest
    <2>5. Len(rest) = Len(b) - j
      <3>1. CASE n + 1 <= Len(b)
        BY <1>1, <1>2, <2>2, <2>4, <3>1
      <3>2. CASE n >= Len(b)
        <4>1. rest = <<>> /\ j = Len(b)
          BY <1>1, <1>2, <2>3, <3>2
        <4> QED
          BY <1>1, <4>1, EmptySeq
      <3> QED
        BY <1>1, <3>1, <3>2
    <2>6. \A i \in 1 .. Len(rest) : rest[i] = b[n + i]
      <3> TAKE i \in 1 .. Len(rest)
      <3>1. i \in 1 .. Len(b) - (n + 1) + 1 /\ n + 1 + i - 1 = n + i
        BY <1>1, <1>2, <2>5
      <3> QED
        BY <2>2, <2>4, <3>1
    <2> QED
      BY <2>2, <2>3, <2>4, <2>5, <2>6
  <1>5. g \in FileType(B) /\ g.at = f.at /\ g.buf = rest
    BY <1>1, <1>4 DEF FileType
  <1> HIDE DEF ahead, rest, g
  <1>6. Good(g, content, B) /\ Position(g) = Position(f) + j
    <2>1. Position(g) = Position(f) + j
      <3>1. Position(g) = f.at - (Len(b) - j)
        BY <1>4, <1>5 DEF Position
      <3>2. Position(f) = f.at - Len(b)
        BY <1>1
      <3>3. \A x, y, z \in Int : x - (y - z) = x - y + z
        BY SMT
      <3>4. f.at \in Int /\ Len(b) \in Int /\ j \in Int
        BY <1>1, <1>2
      <3> QED
        BY <3>1, <3>2, <3>3, <3>4
    <2>2. \A i \in 1 .. Len(g.buf) : g.buf[i] = content[Position(g) + i]
      <3> TAKE i \in 1 .. Len(g.buf)
      <3>1. n + i \in 1 .. Len(b) /\ j = n
        BY <1>1, <1>2, <1>4, <1>5
      <3>2. g.buf[i] = content[Position(f) + (n + i)]
        BY <1>1, <1>4, <1>5, <3>1
      <3>3. Position(f) + (n + i) = Position(g) + i
        BY <1>1, <2>1, <3>1
      <3> QED
        BY <3>2, <3>3
    <2>3. Len(g.buf) <= g.at /\ g.at <= Len(content)
      BY <1>1, <1>2, <1>4, <1>5
    <2> QED
      BY <1>5, <2>1, <2>2, <2>3 DEF Good
  <1>7. CASE f.error
    <2>1. r.bytes = <<>> /\ r.file = f
      BY <1>7, <1>r
    <2> QED
      BY <1>1, <2>1, EmptySeq
  <1>8. CASE ~f.error /\ Len(ahead) = n
    <2>1. r.bytes = ahead /\ r.file = g
      BY <1>8, <1>r
    <2> QED
      BY <1>3, <1>6, <1>8, <2>1
  <1>9. CASE ~f.error /\ Len(ahead) # n
    <2>1. PICK s \in StreamRead(g, content, n - Len(ahead)) : r = [s EXCEPT !.bytes = ahead \o @]
      BY <1>9, <1>r
    <2>2. n - Len(ahead) \in Nat /\ g.buf = <<>> /\ j = Len(b) /\ n > j
      BY <1>1, <1>2, <1>3, <1>4, <1>5, <1>9
    <2>3. PICK k \in 0 .. n - Len(ahead) :
              /\ s = [bytes |-> s.bytes, file |-> s.file]
              /\ s.bytes \in Seq(B) /\ Len(s.bytes) = k
              /\ \A i \in 1 .. k : s.bytes[i] = content[g.at + i]
              /\ s.file \in FileType(B)
              /\ s.file.at = g.at + k /\ s.file.buf = <<>> /\ g.at + k <= Len(content)
              /\ s.file.size = g.size
      BY <1>6, <2>1, <2>2, StreamReads
    <2>4. r.bytes = ahead \o s.bytes /\ r.file = s.file
      <3>1. s = [bytes |-> s.bytes, file |-> s.file]
        BY <2>3
      <3> QED
        BY <2>1, <3>1
    <2>5. /\ r.bytes \in Seq(B) /\ Len(r.bytes) = j + k
          /\ \A i \in 1 .. j + k : r.bytes[i] = IF i <= j THEN ahead[i] ELSE s.bytes[i - j]
      <3>1. ahead \in Seq(B) /\ s.bytes \in Seq(B)
        BY <1>3, <2>3
      <3> QED
        <4>1. /\ ahead \o s.bytes \in Seq(B)
              /\ Len(ahead \o s.bytes) = Len(ahead) + Len(s.bytes)
              /\ \A i \in 1 .. Len(ahead) + Len(s.bytes) : (ahead \o s.bytes)[i] =
                     IF i <= Len(ahead) THEN ahead[i] ELSE s.bytes[i - Len(ahead)]
          BY <3>1, ConcatProperties, Zenon
        <4>2. Len(ahead) = j /\ Len(s.bytes) = k
          BY <1>3, <2>3
        <4> QED
          BY <2>4, <4>1, <4>2, Zenon
    <2>6. k \in Nat /\ j \in Nat /\ j + k <= n /\ g.at = Position(f) + j
      BY SMTT(60), <1>1, <1>3, <1>5, <2>2, <2>3
    <2>7. \A i \in 1 .. Len(r.bytes) : r.bytes[i] = content[Position(f) + i]
      <3> TAKE i \in 1 .. Len(r.bytes)
      <3>1. CASE i <= j
        BY <1>3, <2>5, <2>6, <3>1
      <3>2. CASE i > j
        <4>1. i - j \in 1 .. k /\ g.at + (i - j) = Position(f) + i
          BY SMTT(60), <1>1, <2>5, <2>6, <3>2
        <4>2. r.bytes[i] = s.bytes[i - j]
          BY <2>5, <2>6, <3>2
        <4> QED
          BY <2>3, <4>1, <4>2
      <3> QED
        BY <2>5, <2>6, <3>1, <3>2
    <2>8. Position(r.file) = Position(f) + Len(r.bytes)
      BY SMTT(60), <1>1, <2>3, <2>4, <2>5, <2>6, EmptySeq DEF Position
    <2>9. Good(r.file, content, B)
      <3>1. Len(r.file.buf) = 0 /\ r.file \in FileType(B)
        BY <2>3, <2>4, EmptySeq
      <3>2. r.file.at \in Nat /\ r.file.at <= Len(content)
        BY <2>3, <2>4, <3>1 DEF FileType
      <3> QED
        BY <3>1, <3>2 DEF Good
    <2> QED
      BY <2>5, <2>6, <2>7, <2>8, <2>9
  <1> QED
    BY <1>7, <1>8, <1>9
=============================================================================
