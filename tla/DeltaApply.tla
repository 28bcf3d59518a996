----------------------------- MODULE DeltaApply -----------------------------
(***************************************************************************)
(* `rolling_hash apply`: parse_size() and run_apply() of main.cpp,         *)
(* Apply::apply_delta_impl and applyDiff (Apply.hpp), and the DeltaReader  *)
(* they read the delta with (DeltaCodec.hpp), over a delta that may be     *)
(* damaged, an old file that may be another one or change, and reads that  *)
(* may fail.                                                               *)
(*                                                                         *)
(* The delta is a sequence of items: the header, entries, opcodes and the  *)
(* trailer.  `whole` is FALSE in an item that is cut short or malformed;   *)
(* an ADDED entry carries its payload.  A digest is the bytes it digests:  *)
(* two different contents never share one.                                 *)
(***************************************************************************)
EXTENDS Patch, SequencesExt, FiniteSetsExt

CONSTANTS
    Byte,        \* what files and chunks are sequences of
    Deltas,      \* deltas to apply
    Contents,    \* what the old file may hold
    MaxLength,   \* bound on its length
    Chunked,     \* [bytes signed -> Seq([start, bytes])]: the chunks they are cut into
    MaxChunk,    \* DELTA_MAX_CHUNK_SIZE
    Options,     \* texts of --max-output [digits, suffix], or None
    MaxWord,     \* the greatest uint64_t
    Scale,       \* [letters -> 2^10, 2^20, ...]: what the suffixes stand for
    MaxChanges   \* bound on how often the old file changes

ASSUME ApplyAssumption ==
    /\ MaxChunk \in Nat \ {0} /\ MaxChanges \in Nat /\ MaxLength \in Nat
    /\ MaxWord \in Nat /\ MaxWord >= 9 /\ \A c \in DOMAIN Scale : Scale[c] \in Nat \ {0}
    /\ DOMAIN Chunked = BoundedSeq(Byte, MaxLength)

EntryItem == [kind : {"entry"}, whole : BOOLEAN, type : {"ORIGINAL", "ADDED", "MODIFIED"},
              source : Nat, size : Nat, digest : Seq(Byte), payload : Seq(Byte)]

DeltaItem ==
    EntryItem \cup [kind : {"header"}, whole : BOOLEAN]
              \cup [kind : {"op"}, whole : BOOLEAN,
                    code : [op : {"D", "I", "X"}, pos : Nat, bytes : Seq(Byte), del : Nat]]
              \cup [kind : {"trailer"}, whole : BOOLEAN, digest : Seq(Byte)]

Chunk == [start : Nat, bytes : Seq(Byte)]

(* The bytes of a file from start + 1 on, n of them unless it ends before. *)
Bytes(file, start, n) == SubSeq(file, start + 1, Min({start + n, Len(file)}))

(* Chunks are what was signed, at their place.                             *)
ASSUME InputsAssumption ==
    /\ Deltas \subseteq Seq(DeltaItem) /\ Contents \subseteq Seq(Byte)
    /\ \A c \in Contents : Len(c) <= MaxLength
    /\ \A c \in DOMAIN Chunked :
           /\ Chunked[c] \in Seq(Chunk)
           /\ \A k \in 1 .. Len(Chunked[c]) :
                 LET chunk == Chunked[c][k]
                 IN  chunk.bytes = Bytes(c, chunk.start, Len(chunk.bytes))

VARIABLES
    delta,         \* the delta file
    option,        \* the text of --max-output until it is parsed, or None
    limit,         \* max_output_bytes
    content,       \* the old file
    changes,       \* how often it has changed
    openSize,      \* its size_, as it was opened
    scanned,       \* bytes of it that generate_signatures() has read
    pc,
    pos,           \* items of the delta read
    chunks,        \* old_chunks: their hashes are their bytes
    entry,         \* the entry under way, or None
    base,          \* old_data of a MODIFIED entry
    opcodes,       \* opcodes_seen
    patch,         \* output and old_pos of applyDiff
    produced,      \* bytes of the entry under way
    output,        \* bytes written to the staged output
    entries,       \* stats.entries_processed
    sawTrailer,
    deltaErr,      \* FileIO::has_error() of the delta
    oldErr,        \* and of the old file
    result         \* "none", "ok" or a DeltaErrc

inputs  == <<delta, option, limit, content, changes, openSize, scanned>>
diffing == <<base, opcodes, patch>>
written == <<output, entries>>
errors  == <<deltaErr, oldErr>>
vars    == <<inputs, pc, pos, chunks, entry, diffing, produced, written, sawTrailer,
             errors, result>>

None == [type |-> "none"]

Init ==
    /\ delta \in Deltas /\ option \in Options /\ limit = MaxWord
    /\ content \in Contents /\ changes = 0 /\ openSize = 0 /\ scanned = <<>>
    /\ pc = (IF option = None THEN "open" ELSE "limit") /\ pos = 0
    /\ chunks = <<>> /\ entry = None
    /\ base = <<>> /\ opcodes = 0 /\ patch = Patching(<<>>, 0)
    /\ produced = <<>> /\ output = <<>> /\ entries = 0
    /\ sawTrailer = FALSE
    /\ deltaErr = FALSE /\ oldErr = FALSE
    /\ result = "none"

-----------------------------------------------------------------------------
Goto(from, to) == pc = from /\ pc' = to /\ UNCHANGED result

Fail(error) == pc' = "done" /\ result' = error

AtEof    == pos = Len(delta)
Item     == delta[pos + 1]
At(kind) == ~AtEof /\ Item.kind = kind

Refused == -1

AddDigit(value, d) ==
    IF value = Refused \/ value > (MaxWord - d) \div 10 THEN Refused ELSE 10 * value + d

(* Mutant: what the suffix shifts out of the word is not noticed.          *)
Scaled_Unchecked(value, letter) == (value * Scale[letter]) % (MaxWord + 1)

(* value << shift, unless value > max >> shift                             *)
Scaled(value, letter) ==
    IF value > MaxWord \div Scale[letter] THEN Refused
    ELSE (value * Scale[letter]) % (MaxWord + 1)

(* The number before the suffix, or Refused where no word can hold it.     *)
Number(text) == FoldLeft(AddDigit, 0, text.digits)

ASSUME OptionsAssumption ==
    Options \ {None} \subseteq [digits : Seq(0 .. 9), suffix : Seq(STRING)]

parse_size(text) ==
    LET value == Number(text)
    IN  IF value = Refused \/ text.digits = <<>> \/ Len(text.suffix) > 1 THEN Refused
        ELSE IF text.suffix = <<>> THEN value
        ELSE IF text.suffix[1] \in DOMAIN Scale THEN Scaled(value, text.suffix[1]) ELSE Refused

ParseLimit ==
    /\ pc = "limit"
    /\ option' = None
    /\ IF parse_size(option) = Refused THEN Fail("usage") /\ UNCHANGED limit
       ELSE limit' = parse_size(option) /\ Goto("limit", "open")
    /\ UNCHANGED <<delta, content, changes, openSize, scanned, pos, chunks, entry, diffing,
                   produced, written, sawTrailer, errors>>

(* The files are opened; size_ is a snapshot.                              *)
Open ==
    /\ pc = "open"
    /\ \/ openSize' = Len(content) /\ Goto("open", "header")
       \/ \E error \in {"io_error", "invalid_argument"} : Fail(error) /\ UNCHANGED openSize
    /\ UNCHANGED <<delta, option, limit, content, changes, scanned, pos, chunks, entry, diffing,
                   produced, written, sawTrailer, errors>>

(* A read of the delta fails: every reader call that notices reports       *)
(* io_error, since DeltaReader::io_error() is the file's.                  *)
DeltaReadFails == deltaErr' = TRUE /\ Fail("io_error")

(* Mutant: a missing header is skipped all the same.                       *)
ReadHeader_Skips ==
    /\ IF At("header") THEN Goto("header", "sign") ELSE pc = "header" /\ Fail("corrupt_delta")
    /\ pos' = pos + 1
    /\ UNCHANGED <<inputs, chunks, entry, diffing, produced, written, sawTrailer, errors>>

ReadHeader ==
    /\ pc = "header"
    /\ \/ At("header") /\ Item.whole /\ Goto("header", "sign")
          /\ pos' = pos + 1 /\ UNCHANGED deltaErr
       \/ ~(At("header") /\ Item.whole) /\ Fail("corrupt_delta") /\ UNCHANGED <<pos, deltaErr>>
       \/ DeltaReadFails /\ UNCHANGED pos
    /\ UNCHANGED <<inputs, chunks, entry, diffing, produced, written, sawTrailer, oldErr>>

(* generate_signatures(old_file) reads it from start to end, whatever it   *)
(* holds by then...                                                        *)
SignByte ==
    /\ pc = "sign" /\ Len(scanned) < Len(content)
    /\ scanned' = Append(scanned, content[Len(scanned) + 1])
    /\ UNCHANGED <<delta, option, limit, content, changes, openSize, pc, pos, chunks, entry,
                   diffing, produced, written, sawTrailer, errors, result>>

(* ...and fails unless that was as much as it held when it was opened.     *)
SignOld ==
    /\ pc = "sign"
    /\ \/ /\ Len(scanned) >= Len(content)
          /\ IF Len(scanned) = openSize THEN chunks' = Chunked[scanned] /\ Goto("sign", "item")
             ELSE Fail("io_error") /\ UNCHANGED chunks
          /\ UNCHANGED oldErr
       \/ oldErr' = TRUE /\ Fail("io_error") /\ UNCHANGED chunks
    /\ openSize' = 0 /\ scanned' = <<>>
    /\ UNCHANGED <<delta, option, limit, content, changes, pos, entry, diffing, produced, written,
                   sawTrailer, deltaErr>>

(* Mutant: a failed peek is tried again.                                   *)
NextItem_Retries ==
    /\ \/ ~deltaErr /\ AtEof /\ Goto("item", "finish") /\ UNCHANGED deltaErr
       \/ ~deltaErr /\ ~AtEof /\ UNCHANGED deltaErr
          /\ Goto("item", IF At("trailer") THEN "trailer" ELSE "entry")
       \/ deltaErr' = TRUE /\ Goto("item", "item")
    /\ UNCHANGED <<inputs, pos, chunks, entry, diffing, produced, written, sawTrailer, oldErr>>

(* next_item(): a failed peek looks like the end.                          *)
NextItem ==
    /\ \/ /\ ~deltaErr
          /\ \/ AtEof /\ Goto("item", "finish")
             \/ At("trailer") /\ Goto("item", "trailer")
             \/ ~AtEof /\ ~At("trailer") /\ Goto("item", "entry")
          /\ UNCHANGED deltaErr
       \/ deltaErr' = TRUE /\ Goto("item", "finish")
    /\ UNCHANGED <<inputs, pos, chunks, entry, diffing, produced, written, sawTrailer, oldErr>>

(* read_trailer() wants the end of the file after it.                      *)
ReadTrailer ==
    /\ pc = "trailer"
    /\ pos' = pos + 1
    /\ \/ /\ Item.whole /\ pos' = Len(delta)
          /\ IF Item.digest = output THEN Goto("trailer", "finish") /\ sawTrailer' = TRUE
             ELSE Fail("integrity_mismatch") /\ UNCHANGED sawTrailer
          /\ UNCHANGED deltaErr
       \/ ~(Item.whole /\ pos' = Len(delta)) /\ Fail("corrupt_delta")
          /\ UNCHANGED <<sawTrailer, deltaErr>>
       \/ DeltaReadFails /\ UNCHANGED sawTrailer
    /\ UNCHANGED <<inputs, chunks, entry, diffing, produced, written, oldErr>>

ReferencesOld(e) == e.type \in {"ORIGINAL", "MODIFIED"}

(* read_entry_header(), the payload of an ADDED entry, and what is checked *)
(* before any old byte is read.                                            *)
Acceptable(e) ==
    /\ e.kind = "entry" /\ e.whole
    /\ e.type # "ORIGINAL" => e.size <= MaxChunk
    /\ ReferencesOld(e) => e.source \in 1 .. Len(chunks)

(* Mutant: the digest of an addition is not compared.                      *)
Matches_Original(e) == e.type = "ORIGINAL" => chunks[e.source].bytes = e.digest

Matches(e) == CASE e.type = "ORIGINAL" -> chunks[e.source].bytes = e.digest
                [] e.type = "ADDED"    -> e.payload = e.digest
                [] e.type = "MODIFIED" -> TRUE

ReadEntry ==
    /\ pc = "entry"
    /\ pos' = pos + 1
    /\ \/ /\ Acceptable(Item) /\ Matches(Item)
          /\ entry' = Item
          /\ Goto("entry", IF Item.type = "ADDED" THEN "write" ELSE "source")
          /\ produced' = IF Item.type = "ADDED" THEN Item.payload ELSE <<>>
          /\ UNCHANGED deltaErr
       \/ /\ Fail(IF Acceptable(Item) THEN "integrity_mismatch" ELSE "corrupt_delta")
          /\ ~(Acceptable(Item) /\ Matches(Item))
          /\ UNCHANGED <<entry, produced, deltaErr>>
       \/ DeltaReadFails /\ UNCHANGED <<entry, produced>>
    /\ UNCHANGED <<inputs, chunks, diffing, written, sawTrailer, oldErr>>

(* The source chunk's bytes, as the old file has them now.                 *)
ReadSource ==
    LET c     == chunks[entry.source]
        bytes == Bytes(content, c.start, Len(c.bytes))
    IN  /\ pc = "source"
        /\ \/ /\ Len(bytes) = Len(c.bytes)
              /\ IF entry.type = "ORIGINAL"
                 THEN /\ produced' = bytes /\ Goto("source", "write")
                      /\ UNCHANGED diffing
                 ELSE /\ base' = bytes /\ opcodes' = 0 /\ patch' = Patching(<<>>, 0)
                      /\ Goto("source", "opcodes") /\ UNCHANGED produced
              /\ UNCHANGED oldErr
           \/ /\ Len(bytes) # Len(c.bytes) /\ Fail("io_error")
              /\ UNCHANGED <<diffing, produced, oldErr>>
           \/ oldErr' = TRUE /\ Fail("io_error") /\ UNCHANGED <<diffing, produced>>
        /\ UNCHANGED <<inputs, pos, chunks, entry, written, sawTrailer, deltaErr>>

(* applyDiff(): every opcode of the entry, not only those needed to reach  *)
(* its size.                                                               *)
ApplyOpcode ==
    /\ pc = "opcodes" /\ At("op") /\ ~deltaErr
    /\ pos' = pos + 1 /\ opcodes' = opcodes + 1
    /\ \/ /\ Item.whole /\ Fits(patch, Item.code, base, entry.size)
          /\ patch' = PatchOp(patch, Item.code, base)
          /\ Goto("opcodes", "opcodes") /\ UNCHANGED deltaErr
       \/ /\ ~(Item.whole /\ Fits(patch, Item.code, base, entry.size))
          /\ Fail("corrupt_delta") /\ UNCHANGED <<patch, deltaErr>>
       \/ DeltaReadFails /\ UNCHANGED patch
    /\ UNCHANGED <<inputs, chunks, entry, base, produced, written, sawTrailer, oldErr>>

(* Mutant: opcodes are read only until the entry's size is reached.        *)
OpcodesEnd_AtSize ==
    /\ Goto("opcodes", "tail") /\ (At("op") => Len(patch.out) = entry.size)
    /\ UNCHANGED <<inputs, pos, chunks, entry, diffing, produced, written, sawTrailer, errors>>

(* No further opcode, or at_diff_opcode() could not peek.                  *)
OpcodesEnd ==
    /\ Goto("opcodes", "tail")
    /\ deltaErr' \in {TRUE} \cup (IF At("op") THEN {} ELSE {deltaErr})
    /\ UNCHANGED <<inputs, pos, chunks, entry, diffing, produced, written, sawTrailer, oldErr>>

CopyTail ==
    /\ pc = "tail"
    /\ IF opcodes = 0 \/ ~TailFits(patch, base, entry.size)
       THEN Fail("corrupt_delta") /\ UNCHANGED produced
       ELSE IF PatchTail(patch, base, entry.size) # entry.digest
       THEN Fail("integrity_mismatch") /\ UNCHANGED produced
       ELSE produced' = PatchTail(patch, base, entry.size) /\ Goto("tail", "write")
    /\ UNCHANGED <<inputs, pos, chunks, entry, diffing, written, sawTrailer, errors>>

(* Mutant: the limit is compared with each entry by itself.                *)
WriteProduced_EachEntry ==
    /\ pc = "write"
    /\ IF Len(produced) > limit THEN Fail("limit_exceeded") /\ UNCHANGED written
       ELSE output' = output \o produced /\ entries' = entries + 1 /\ Goto("write", "item")
    /\ UNCHANGED <<inputs, pos, chunks, entry, diffing, produced, sawTrailer, errors>>

(* The limit, the staged output and the whole-file hash.                   *)
WriteProduced ==
    /\ pc = "write"
    /\ IF Len(produced) > limit - Len(output)
       THEN Fail("limit_exceeded") /\ UNCHANGED written
       ELSE \/ /\ output' = output \o produced /\ entries' = entries + 1
               /\ Goto("write", "item")
            \/ Fail("io_error") /\ UNCHANGED written
    /\ UNCHANGED <<inputs, pos, chunks, entry, diffing, produced, sawTrailer, errors>>

(* Mutant: a delta may end without its trailer.                            *)
Finish_NoTrailer ==
    /\ pc = "finish" /\ Fail(IF deltaErr THEN "io_error" ELSE "ok")
    /\ UNCHANGED <<inputs, pos, chunks, entry, diffing, produced, written, sawTrailer, errors>>

(* reader.finish(), the closes and the commit.                             *)
Finish ==
    /\ pc = "finish"
    /\ IF deltaErr THEN Fail("io_error")
       ELSE IF ~sawTrailer THEN Fail("corrupt_delta")
       ELSE pc' = "done" /\ result' \in {"ok", "io_error", "invalid_argument"}
    /\ UNCHANGED <<inputs, pos, chunks, entry, diffing, produced, written, sawTrailer, errors>>

(* An exception.                                                           *)
Throw ==
    /\ pc # "done" /\ Fail("internal_error")
    /\ UNCHANGED <<inputs, pos, chunks, entry, diffing, produced, written, sawTrailer, errors>>

(* Another program writes to the old file.                                 *)
Change ==
    /\ pc # "done" /\ changes < MaxChanges
    /\ changes' = changes + 1
    /\ content' \in Contents \ {content}
    /\ UNCHANGED <<delta, option, limit, openSize, scanned, pc, pos, chunks, entry, diffing,
                   produced, written, sawTrailer, errors, result>>

Main == \/ ParseLimit \/ Open \/ ReadHeader \/ SignByte \/ SignOld \/ NextItem
        \/ ReadTrailer \/ ReadEntry \/ ReadSource \/ ApplyOpcode \/ OpcodesEnd \/ CopyTail
        \/ WriteProduced \/ Finish

Done == pc = "done" /\ UNCHANGED vars

Next == Main \/ Throw \/ Change \/ Done

Spec == Init /\ [][Next]_vars

(* The program is scheduled; no read has to fail, and nothing to be thrown. *)
FairSpec == Spec /\ WF_vars(Main /\ UNCHANGED errors)

-----------------------------------------------------------------------------
(* exit_status_for()                                                       *)
ExitStatus == CASE result = "ok" -> 0
                [] result \in {"io_error", "internal_error"} -> 2
                [] OTHER -> 1

(* The bytes that the digests of the first n entries describe.             *)
Describe(s, item) ==
    IF item.kind = "entry" /\ s.left > 0
    THEN [left |-> s.left - 1, bytes |-> s.bytes \o item.digest]
    ELSE s

Described(n) == FoldLeft(Describe, [left |-> n, bytes |-> <<>>], delta).bytes

(* What digits spell, however large.                                       *)
Spelled(digits) == FoldLeft(LAMBDA value, d : 10 * value + d, 0, digits)

(* The options that stand for a number, and the number they stand for.     *)
Means(text) ==
    /\ text.digits # <<>> /\ Len(text.suffix) <= 1
    /\ \A i \in DOMAIN text.suffix : text.suffix[i] \in DOMAIN Scale

Value(text) ==
    Spelled(text.digits) * (IF text.suffix = <<>> THEN 1 ELSE Scale[text.suffix[1]])

TypeOK ==
    /\ changes \in 0 .. MaxChanges /\ pos \in 0 .. Len(delta)
    /\ limit \in 0 .. MaxWord /\ Len(scanned) <= MaxLength
    /\ pc \in {"limit", "open", "header", "sign", "item", "trailer", "entry", "source", "opcodes",
               "tail", "write", "finish", "done"}
    /\ sawTrailer \in BOOLEAN /\ deltaErr \in BOOLEAN /\ oldErr \in BOOLEAN
    /\ result \in {"none", "ok", "io_error", "corrupt_delta", "integrity_mismatch",
                   "limit_exceeded", "invalid_argument", "internal_error", "usage"}

(* An output that replaces the destination is the one file the delta's     *)
(* trailer digests, and the trailer ends the delta: no truncation, no      *)
(* reordering, no surplus and no change of the old file goes unnoticed.    *)
ExactOutput ==
    result = "ok" => LET last == delta[Len(delta)]
                     IN  last.kind = "trailer" /\ last.whole /\ last.digest = output

(* --max-output means what it says (main.cpp:42): its number times the     *)
(* power of 1024, which is refused only where a word cannot hold it, and   *)
(* never wraps to a smaller limit.                                         *)
ParsedExactly ==
    [][pc = "limit" =>
          /\ pc' = "open" => Means(option) /\ limit' = Value(option)
          /\ result' = "usage" => ~Means(option) \/ Value(option) > MaxWord]_vars

(* While the old file stays as it was signed, what is staged is at any     *)
(* time what the entries so far describe.                                  *)
StagedAsDescribed == changes = 0 => output = Described(entries)

(* --max-output is never exceeded, not even in the staged file, and stops  *)
(* only a delta whose entries up to this one describe more than that.      *)
LimitExact ==
    /\ Len(output) <= limit
    /\ result = "limit_exceeded" => Len(output) + Len(produced) > limit

(* However damaged the delta, applyDiff() never reads beyond the old chunk *)
(* nor produces more than the size the entry declares.                     *)
PatchBounded ==
    pc \in {"opcodes", "tail"} =>
        /\ patch.at \in 0 .. Len(base) /\ Len(patch.out) <= entry.size
        /\ entry.size <= MaxChunk

(* apply comes to an end, whatever it is given.                            *)
ApplyEnds == <>(pc = "done")

(* README.md:265: status 2 when a file could not be read.                  *)
ReadFailureIsStatus2 == pc = "done" /\ (deltaErr \/ oldErr) => ExitStatus = 2
=============================================================================
