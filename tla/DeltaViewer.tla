---------------------------- MODULE DeltaViewer ----------------------------
(***************************************************************************)
(* `rolling_hash view` (src/DeltaViewer.cpp): a delta is written byte by   *)
(* byte as Delta and DeltaWriter do, may be damaged, and is walked by      *)
(* view_delta() with DeltaReader (src/DeltaCodec.hpp) over FileIO, one     *)
(* action per read, each of which may fail.                                *)
(***************************************************************************)
EXTENDS DeltaCodec

CONSTANTS
    Chunks,   \* chunks of the new file, as Delta meets them: [reuse, index,
              \* payload, digest, ops], ops empty where there is no diff
    Wholes,   \* digests of the whole file
    MaxItems  \* bound on the number of chunks

(* Indices, sizes and positions fit their words; an opcode leaves the      *)
(* field that it does not use as it is.                                    *)
ASSUME ChunkAssumption ==
    /\ MaxItems \in Nat /\ MaxItems <= WordSize /\ MaxChunk < WordSize
    /\ \A c \in Chunks :
          /\ c.reuse \in BOOLEAN /\ c.index \in 0 .. WordSize - 1
          /\ c.payload \in Seq(Byte) /\ Len(c.payload) <= MaxChunk
          /\ c.digest \in Seq(Byte) /\ Len(c.digest) = DigestBytes
          /\ c.ops \in Seq(OpType)
          /\ \A k \in DOMAIN c.ops :
                LET o == c.ops[k]
                IN  /\ o.pos < ByteWeight[FixedBytes] /\ o.del < ByteWeight[FixedBytes]
                    /\ IF o.op = "X" THEN o.bytes = <<>> ELSE o.del = 0
    /\ \A w \in Wholes : w \in Seq(Byte) /\ Len(w) = TrailerBytes

VARIABLES
    content,  \* the bytes of the delta
    chunks,   \* the chunks it was written for
    whole,    \* the digest in its trailer
    damage,   \* "none", "cut" or "altered"
    pc,
    file,     \* the FileIO the delta is read with
    item,     \* the entry under way
    op,       \* the opcode under way
    listed,   \* the entries shown
    trailer,  \* the digest shown, or <<>>
    status    \* exit status, or -1

written == <<content, chunks, whole, damage>>
shown   == <<listed, trailer>>
vars    == <<written, pc, file, item, op, shown, status>>

Init ==
    /\ content = HeaderBytes /\ chunks = <<>> /\ whole = <<>> /\ damage = "none"
    /\ pc = "write" /\ file = Opened(<<>>)
    /\ item = NewEntry(Original) /\ op = Opcode("D", 0, <<>>, 0)
    /\ listed = <<>> /\ trailer = <<>> /\ status = -1

-----------------------------------------------------------------------------
(* processMultipleChunks(): a diff is kept where its record is shorter.    *)

(* Mutant: only the opcodes are weighed against the bytes.                 *)
Pays_DiffOnly(c, position) ==
    c.ops # <<>> /\ Len(OpcodesBytes(c.ops)) <= Len(c.payload)

Pays(c, position) ==
    /\ c.ops # <<>>
    /\ ModifiedSize(position, Len(c.payload), Len(OpcodesBytes(c.ops)))
         < AddedSize(Len(c.payload))

ReusedEntry(c) == [NewEntry(Original) EXCEPT !.index = Number(c.index), !.digest = c.digest]
AddedEntry(c)  == [NewEntry(Added) EXCEPT !.size = Number(Len(c.payload)),
                                          !.digest = c.digest, !.body = c.payload]
DiffEntry(c, position) ==
    [NewEntry(Modified) EXCEPT !.index = Number(position), !.size = Number(Len(c.payload)),
                               !.digest = c.digest, !.body = c.ops,
                               !.diff = Len(OpcodesBytes(c.ops))]

EntryFor(c, position) ==
    IF c.reuse THEN ReusedEntry(c)
    ELSE IF Pays(c, position) THEN DiffEntry(c, position) ELSE AddedEntry(c)

WriteEntry ==
    /\ pc = "write" /\ Len(chunks) < MaxItems
    /\ \E c \in Chunks :
          /\ chunks' = Append(chunks, c)
          /\ content' = content \o RecordBytes(EntryFor(c, Len(chunks)))
    /\ UNCHANGED <<whole, damage, pc, file, item, op, shown, status>>

WriteTrailer ==
    /\ pc = "write" /\ pc' = "stored"
    /\ whole' \in Wholes /\ content' = content \o TrailerRecord(whole')
    /\ UNCHANGED <<chunks, damage, file, item, op, shown, status>>

(* On its way to the viewer the delta is cut short, or a byte of it is     *)
(* changed, lost or added.                                                 *)
Damage ==
    /\ pc = "stored" /\ damage = "none"
    /\ \/ damage' = "cut" /\ \E k \in 0 .. Len(content) - 1 : content' = SubSeq(content, 1, k)
       \/ /\ damage' = "altered"
          /\ \/ \E k \in DOMAIN content, b \in Byte :
                   b # content[k] /\ content' = [content EXCEPT ![k] = b]
             \/ \E k \in DOMAIN content : content' = RemoveAt(content, k)
             \/ \E b \in Byte : content' = Append(content, b)
    /\ UNCHANGED <<chunks, whole, pc, file, item, op, shown, status>>

-----------------------------------------------------------------------------
Goto(to) == pc' = to /\ UNCHANGED status

(* "return reader.io_error() ? 2 : 1"                                      *)
Refuse(f) == pc' = "done" /\ status' = IF f.error THEN 2 ELSE 1

Open ==
    /\ pc = "stored"
    /\ \/ file' = Opened(content) /\ Goto("header")
       \/ file' = [Opened(content) EXCEPT !.error = TRUE] /\ Refuse(file')
    /\ UNCHANGED <<written, item, op, shown>>

(* The length, the magic and the version.                                  *)
ReadHeader ==
    /\ pc = "header"
    /\ \E r \in ReadChunk(file, content, Len(HeaderBytes)) :
          /\ file' = r.file
          /\ IF r.bytes = HeaderBytes THEN Goto("item") ELSE Refuse(r.file)
    /\ UNCHANGED <<written, item, op, shown>>

(* Mutant: a failed peek is tried again.                                   *)
NextItem_Retries ==
    /\ pc = "item"
    /\ \E r \in PeekByte(file, content) :
          /\ file' = r.file
          /\ Goto(IF r.byte = TrailerTag THEN "trailer"
                  ELSE IF r.byte # EndOfFile THEN "tag"
                  ELSE IF r.file.error THEN "item" ELSE "finish")
    /\ UNCHANGED <<written, item, op, shown>>

(* next_item(): a failed peek looks like the end.                          *)
NextItem ==
    /\ pc = "item"
    /\ \E r \in PeekByte(file, content) :
          /\ file' = r.file
          /\ Goto(IF r.byte = EndOfFile THEN "finish"
                  ELSE IF r.byte = TrailerTag THEN "trailer" ELSE "tag")
    /\ UNCHANGED <<written, item, op, shown>>

ReferencesOld(type) == type \in {Original, Modified}

ReadTag ==
    /\ pc = "tag"
    /\ \E r \in ReadByte(file, content) :
          /\ file' = r.file
          /\ IF r.byte \notin 0 .. TypeLimit - 1 THEN Refuse(r.file) /\ UNCHANGED item
             ELSE /\ item' = NewEntry(r.byte)
                  /\ Goto(IF ReferencesOld(r.byte) THEN "index" ELSE "size")
    /\ UNCHANGED <<written, op, shown>>

(* Mutant: the bound is one too high.                                      *)
TooLarge_ByOne(size) == size > MaxChunk + 1

TooLarge(size) == size > MaxChunk

(* One byte of read_varint(), and the check of a size that is complete.    *)
ReadNumber(field) ==
    /\ pc = field
    /\ \E r \in ReadByte(file, content) :
          /\ file' = r.file
          /\ IF \/ r.byte = EndOfFile \/ Oversized(item[field], r.byte)
                \/ More(r.byte) /\ item[field].i = MaxBytes - 1
             THEN Refuse(r.file) /\ UNCHANGED item
             ELSE /\ item' = [item EXCEPT ![field] = AddGroup(@, r.byte)]
                  /\ IF More(r.byte) THEN Goto(field)
                     ELSE IF field = "index"
                     THEN Goto(IF item.type = Original THEN "digest" ELSE "size")
                     ELSE IF TooLarge(item'.size.value) THEN Refuse(r.file) ELSE Goto("digest")
    /\ UNCHANGED <<written, op, shown>>

(* The entry is complete.                                                  *)
Show(e) == listed' = Append(listed, e) /\ Goto("item")

ReadDigest ==
    /\ pc = "digest"
    /\ \E r \in ReadChunk(file, content, DigestBytes) :
          /\ file' = r.file
          /\ item' = [item EXCEPT !.digest = r.bytes]
          /\ IF Len(r.bytes) < DigestBytes THEN Refuse(r.file) /\ UNCHANGED listed
             ELSE IF item.type = Original THEN Show(item')
             ELSE /\ Goto(IF item.type = Added THEN "payload" ELSE "opcodes")
                  /\ UNCHANGED listed
    /\ UNCHANGED <<written, op, trailer>>

ReadPayload ==
    /\ pc = "payload"
    /\ \E r \in ReadChunk(file, content, item.size.value) :
          /\ file' = r.file
          /\ item' = [item EXCEPT !.body = r.bytes]
          /\ IF Len(r.bytes) < item.size.value THEN Refuse(r.file) /\ UNCHANGED listed
             ELSE Show(item')
    /\ UNCHANGED <<written, op, trailer>>

(* Mutant: a run of no opcodes is corrupt, whatever the reason.            *)
AtOpcode_Corrupt ==
    /\ pc = "opcodes"
    /\ \E r \in PeekByte(file, content) :
          /\ file' = r.file
          /\ IF r.byte \in OpTags THEN Goto("opcode") /\ UNCHANGED listed
             ELSE IF item.body = <<>> THEN Refuse(Opened(content)) /\ UNCHANGED listed
             ELSE Show(item)
    /\ UNCHANGED <<written, item, op, trailer>>

(* at_diff_opcode(), and finish_diff() where the run ends.                 *)
AtOpcode ==
    /\ pc = "opcodes"
    /\ \E r \in PeekByte(file, content) :
          /\ file' = r.file
          /\ IF r.byte \in OpTags THEN Goto("opcode") /\ UNCHANGED listed
             ELSE IF item.body = <<>> THEN Refuse(r.file) /\ UNCHANGED listed
             ELSE Show(item)
    /\ UNCHANGED <<written, item, op, trailer>>

ReadOpcode ==
    /\ pc = "opcode"
    /\ \E r \in ReadByte(file, content) :
          /\ file' = r.file
          /\ \E name \in DOMAIN OpTag :
                OpTag[name] = r.byte /\ op' = Opcode(name, 0, <<>>, 0)
          /\ Goto("pos")
    /\ UNCHANGED <<written, item, shown>>

ReadPos ==
    /\ pc = "pos"
    /\ \E r \in ReadChunk(file, content, FixedBytes) :
          /\ file' = r.file
          /\ IF Len(r.bytes) < FixedBytes THEN Refuse(r.file) /\ UNCHANGED op
             ELSE /\ op' = [op EXCEPT !.pos = LoadFixed(r.bytes)]
                  /\ Goto(IF op.op = "X" THEN "length" ELSE "inline")
    /\ UNCHANGED <<written, item, shown>>

(* parseDiffData() counts the opcode and its size.                         *)
Tally(o) ==
    /\ item' = [item EXCEPT !.body = Append(@, o),
                            !.diff = @ + 1 + FixedBytes
                                     + (IF o.op = "X" THEN FixedBytes ELSE 1 + Len(o.bytes))]
    /\ Goto("opcodes")

ReadLength ==
    /\ pc = "length"
    /\ \E r \in ReadChunk(file, content, FixedBytes) :
          /\ file' = r.file
          /\ IF Len(r.bytes) < FixedBytes THEN Refuse(r.file) /\ UNCHANGED item
             ELSE Tally([op EXCEPT !.del = LoadFixed(r.bytes)])
    /\ UNCHANGED <<written, op, shown>>

(* The count byte and as many bytes.                                       *)
ReadInline ==
    /\ pc = "inline"
    /\ \E c \in ReadByte(file, content) :
          IF c.byte = EndOfFile
          THEN file' = c.file /\ Refuse(c.file) /\ UNCHANGED item
          ELSE \E r \in ReadChunk(c.file, content, c.byte) :
                  /\ file' = r.file
                  /\ IF Len(r.bytes) < c.byte THEN Refuse(r.file) /\ UNCHANGED item
                     ELSE Tally([op EXCEPT !.bytes = r.bytes])
    /\ UNCHANGED <<written, op, shown>>

(* Mutant: what follows the trailer is not looked at.                      *)
ReadTrailer_NoPeek ==
    /\ pc = "trailer"
    /\ \E t \in ReadByte(file, content) : \E r \in ReadChunk(t.file, content, TrailerBytes) :
          /\ file' = r.file
          /\ IF Len(r.bytes) < TrailerBytes THEN Refuse(r.file) /\ UNCHANGED trailer
             ELSE trailer' = r.bytes /\ Goto("finish")
    /\ UNCHANGED <<written, item, op, listed>>

(* read_trailer(): the tag, the digest and the end of the file, which a    *)
(* failed peek is not.                                                     *)
ReadTrailer ==
    /\ pc = "trailer"
    /\ \E t \in ReadByte(file, content) : \E r \in ReadChunk(t.file, content, TrailerBytes) :
          IF Len(r.bytes) < TrailerBytes
          THEN file' = r.file /\ Refuse(r.file) /\ UNCHANGED trailer
          ELSE \E p \in PeekByte(r.file, content) :
                  /\ file' = p.file
                  /\ IF p.byte # EndOfFile \/ p.file.error
                     THEN Refuse(p.file) /\ UNCHANGED trailer
                     ELSE trailer' = r.bytes /\ Goto("finish")
    /\ UNCHANGED <<written, item, op, listed>>

(* Mutant: a delta may end without its trailer.                            *)
Finish_NoTrailer ==
    /\ pc = "finish"
    /\ IF file.error THEN Refuse(file) ELSE pc' = "done" /\ status' = 0
    /\ UNCHANGED <<written, file, item, op, shown>>

Finish ==
    /\ pc = "finish"
    /\ IF file.error \/ trailer = <<>> THEN Refuse(file) ELSE pc' = "done" /\ status' = 0
    /\ UNCHANGED <<written, file, item, op, shown>>

View == \/ Open \/ ReadHeader \/ NextItem \/ ReadTag \/ ReadDigest \/ ReadPayload
        \/ AtOpcode \/ ReadOpcode \/ ReadPos \/ ReadLength \/ ReadInline
        \/ ReadTrailer \/ Finish
        \/ \E field \in {"index", "size"} : ReadNumber(field)

Done == pc = "done" /\ UNCHANGED vars

Next == WriteEntry \/ WriteTrailer \/ Damage \/ View \/ Done

Spec == Init /\ [][Next]_vars

(* The program is scheduled; the writer may go on, no read has to fail.    *)
FairSpec == Spec /\ WF_vars(View /\ file'.error = file.error)

-----------------------------------------------------------------------------
Written == [k \in DOMAIN chunks |-> EntryFor(chunks[k], k - 1)]

Accepted == pc = "done" /\ status = 0

(* How many bytes of the delta the reader has consumed.                    *)
Consumed(f) == f.at - Len(f.buf)

NumberType(n) == n.value \in 0 .. WordSize - 1 /\ n.i \in 0 .. MaxBytes

(* A size beyond the maximum never gets to where memory is allocated for   *)
(* it (DeltaCodec.hpp:255-260).                                            *)
TypeOK ==
    /\ content \in Seq(Byte) /\ damage \in {"none", "cut", "altered"}
    /\ pc \in {"write", "stored", "header", "item", "tag", "index", "size", "digest",
               "payload", "opcodes", "opcode", "pos", "length", "inline", "trailer",
               "finish", "done"}
    /\ item.type \in 0 .. TypeLimit - 1 /\ NumberType(item.index) /\ NumberType(item.size)
    /\ pc \in {"digest", "payload", "opcodes"} => item.size.value <= MaxChunk
    /\ status \in -1 .. 2 /\ (status = -1 <=> pc # "done")

(* FileIO.hpp:160-164: what was read ahead is what comes next in the file, *)
(* so the caller's position is that of the stream less those bytes.        *)
ReadAheadIsNext ==
    /\ file.at \in 0 .. Len(content) /\ Len(file.buf) <= file.at
    /\ file.buf = SubSeq(content, Consumed(file) + 1, file.at)

(* Whatever create writes, view lists: the reader keeps in step with the   *)
(* writer over every field, even where bytes of a digest or of a payload   *)
(* look like tags.  (A read that fails between two opcodes shows a shorter *)
(* run, before the error is noticed.)                                      *)
ViewsWhatWasWritten ==
    damage = "none" /\ ~file.error =>
        /\ IsPrefix(listed, Written)
        /\ pc = "done" => status = 0 /\ listed = Written /\ trailer = whole

(* No proper prefix of a delta is accepted.                                *)
TruncationNoticed == damage = "cut" => ~Accepted

(* A varint as long as its reader saw it: the last bytes may be zero.      *)
Padded(n) ==
    [k \in 1 .. n.i |->
        ((n.value \div Weight[k - 1]) % Group) + (IF k < n.i THEN Group ELSE 0)]

Layout(e) == EntryBytes(e, Padded(e.index) \o Padded(e.size))

(* The header and the entries that are listed.                             *)
LaidOut == HeaderBytes \o FlattenSeq([k \in DOMAIN listed |-> Layout(listed[k])])

(* However damaged, a delta that is accepted is, byte by byte, what is     *)
(* listed: nothing skipped, nothing read twice, nothing after the trailer; *)
(* and the diff sizes that are printed are the true ones.                  *)
AcceptedIsLayout ==
    Accepted =>
        /\ content = LaidOut \o TrailerRecord(trailer)
        /\ \A k \in DOMAIN listed :
              CASE listed[k].type = Original -> TRUE
                [] listed[k].type = Added    -> Len(listed[k].body) = listed[k].size.value
                [] listed[k].type = Modified -> Len(BodyBytes(listed[k])) = listed[k].diff

(* Every group of a varint counts with its full weight: no bit of it is    *)
(* shifted out of the word (DeltaCodec.hpp:393-394).                       *)
NumberExact ==
    [][\A field \in {"index", "size"} :
          item'[field].i = item[field].i + 1 =>
              item'[field].value =
                  item[field].value + Bits(content[Consumed(file')]) * Weight[item[field].i]]_vars

(* The record written for a chunk is never longer than the other one it    *)
(* could have had (Delta.hpp:273-276), in bytes of the file.               *)
ShorterRecord ==
    pc = "write" =>
        LET Length(e) == Len(RecordBytes(e))
            Least(c, position) ==
                IF c.reuse THEN Length(ReusedEntry(c))
                ELSE Min({Length(AddedEntry(c))}
                         \cup IF c.ops = <<>> THEN {} ELSE {Length(DiffEntry(c, position))})
        IN  Len(content) = FoldFunction(+, Len(HeaderBytes),
                                        [k \in DOMAIN chunks |-> Least(chunks[k], k - 1)])

(* The exit status tells a delta that could not be read (2) from one that  *)
(* is not a delta (1), wherever the read failed (README.md:264-265).       *)
StatusTellsWhy == pc = "done" => (status = 2 <=> file.error)

(* view comes to an end, whatever it is given.                             *)
ViewEnds == pc = "stored" ~> pc = "done"
=============================================================================
