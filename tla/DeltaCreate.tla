---------------------------- MODULE DeltaCreate ----------------------------
(***************************************************************************)
(* `rolling_hash create`: run_create() of main.cpp, the two concurrent     *)
(* signature passes (Signature.hpp) and Delta::generateImpl (Delta.hpp),   *)
(* over inputs that other programs may change at any time.                 *)
(*                                                                         *)
(* A file is a sequence of units, the pieces whose reading is atomic.  A   *)
(* chunk ends after a unit of Cut or at MaxChunk units, so boundaries      *)
(* depend on content alone, as those of the rolling fingerprint do (module *)
(* Signature).  A strong digest is the bytes it digests: two different     *)
(* contents never share one.                                               *)
(*                                                                         *)
(* The delta is staged and committed by OutputTransaction, of which only   *)
(* the verdict appears here.                                               *)
(***************************************************************************)
EXTENDS Integers, Sequences, SequencesExt, FiniteSetsExt

CONSTANTS
    Unit,        \* the pieces a file is read in
    Cut,         \* units that end a chunk
    MaxChunk,    \* DELTA_MAX_CHUNK_SIZE, in units
    Initial,     \* [File -> Seq(Unit)]: the inputs when the program starts
    Contents,    \* [File -> set of contents other programs may write]
    MaxChanges   \* [File -> Nat]: bound on how often they do

File == {"old", "new"}

ASSUME CreateAssumption ==
    /\ MaxChunk \in Nat \ {0}
    /\ Initial \in [File -> Seq(Unit)]
    /\ Contents \in [File -> SUBSET Seq(Unit)]
    /\ MaxChanges \in [File -> Nat]

VARIABLES
    content,   \* [File -> Seq(Unit)]: what the file holds
    changes,   \* [File -> Nat]: how often other programs changed it
    torn,      \* files that changed while they were being signed
    pass,      \* [File -> {"idle", "signing", "signed", "failed"}]
    size,      \* [File -> Nat]: FileIO::size_, a snapshot taken at open
    chunk,     \* [File -> Seq(Unit)]: the chunk the pass is collecting
    chunks,    \* [File -> Seq(chunk)]: Signature::chunks
    whole,     \* the new pass digests the whole file, as run_create's does; the
               \* library's default is not to
    pc,        \* where the main thread is
    i,         \* the loop index of the present phase
    data,      \* new_data: the bytes of the new chunk under way
    ioErr,     \* FileIO::has_error() of one of generateImpl's inputs
    records,   \* entries written to the delta
    trailer,   \* its whole-file digest
    result     \* "none", "ok", "unreadable" (run_create) or a DeltaErrc

signing == <<pass, chunk, chunks, whole>>
delta   == <<records, trailer>>
vars    == <<content, changes, torn, signing, size, pc, i, data, ioErr, delta, result>>

-----------------------------------------------------------------------------
Concat(cs) == FoldLeft(LAMBDA bytes, c : bytes \o c.bytes, <<>>, cs)

(* A SignedChunk: `bytes` stands for its hash.                             *)
Signed(bytes, start) == [bytes |-> bytes, start |-> start]

SameContent(c, d) == c.bytes = d.bytes

(* Mutant: a chunk of the largest size is not accepted.                    *)
CoversExactly_Strict(cs, n) ==
    /\ \A k \in 1 .. Len(cs) : Len(cs[k].bytes) \in 1 .. MaxChunk - 1
    /\ Len(Concat(cs)) = n

(* coversExactly(): the chunks tile [0, n) with valid lengths.             *)
CoversExactly(cs, n) ==
    /\ \A k \in 1 .. Len(cs) :
          /\ cs[k].start = Len(Concat(SubSeq(cs, 1, k - 1)))
          /\ Len(cs[k].bytes) \in 1 .. MaxChunk
    /\ Len(Concat(cs)) = n

(* FileIO::read_chunk(n, pos): short at the end of the file.               *)
ReadAt(f, pos, n) == SubSeq(content[f], pos + 1, Min({pos + n, Len(content[f])}))

Bytes(f, c) == ReadAt(f, c.start, Len(c.bytes))

Init ==
    /\ content = Initial
    /\ changes = [f \in File |-> 0]
    /\ torn = {}
    /\ pass = [f \in File |-> "idle"]
    /\ size = [f \in File |-> 0]
    /\ chunk = [f \in File |-> <<>>]
    /\ chunks = [f \in File |-> <<>>]
    /\ whole \in BOOLEAN
    /\ pc = "sign" /\ i = 1
    /\ data = <<>> /\ ioErr = FALSE
    /\ records = <<>> /\ trailer = <<>>
    /\ result = "none"

-----------------------------------------------------------------------------
(* generate_signatures(): one thread per file, sharing nothing.            *)

SignOpen(f) ==
    /\ pass[f] = "idle"
    /\ \/ pass' = [pass EXCEPT ![f] = "signing"]
       \/ pass' = [pass EXCEPT ![f] = "failed"]
    /\ size' = [size EXCEPT ![f] = Len(content[f])]
    /\ UNCHANGED <<content, changes, torn, chunk, chunks, whole, pc, i, data, ioErr, delta, result>>

BytesRead(f) == Len(Concat(chunks[f])) + Len(chunk[f])

(* Mutant: a chunk is recorded where it ends.                              *)
EmitChunk_AtEnd(f, bytes) ==
    chunks' = [chunks EXCEPT ![f] = Append(@, Signed(bytes, BytesRead(f)))]

EmitChunk(f, bytes) ==
    chunks' = [chunks EXCEPT ![f] = Append(@, Signed(bytes, Len(Concat(@))))]

SignRead(f) ==
    /\ pass[f] = "signing" /\ BytesRead(f) < Len(content[f])
    /\ LET unit  == content[f][BytesRead(f) + 1]
           bytes == Append(chunk[f], unit)
       IN  IF unit \in Cut \/ Len(bytes) = MaxChunk
           THEN EmitChunk(f, bytes) /\ chunk' = [chunk EXCEPT ![f] = <<>>]
           ELSE chunk' = [chunk EXCEPT ![f] = bytes] /\ UNCHANGED chunks
    /\ UNCHANGED <<content, changes, torn, pass, size, whole, pc, i, data, ioErr, delta, result>>

(* End of file: the residual chunk, and the check that as much was read as *)
(* there was at the start.                                                 *)
SignEnd(f) ==
    /\ pass[f] = "signing" /\ BytesRead(f) >= Len(content[f])
    /\ chunk' = [chunk EXCEPT ![f] = <<>>]
    /\ IF BytesRead(f) = size[f]
       THEN /\ pass' = [pass EXCEPT ![f] = "signed"]
            /\ IF chunk[f] = <<>> THEN UNCHANGED chunks ELSE EmitChunk(f, chunk[f])
       ELSE /\ pass' = [pass EXCEPT ![f] = "failed"]
            /\ chunks' = [chunks EXCEPT ![f] = <<>>]
    /\ UNCHANGED <<content, changes, torn, size, whole, pc, i, data, ioErr, delta, result>>

SignFails(f) ==
    /\ pass[f] = "signing"
    /\ pass' = [pass EXCEPT ![f] = "failed"]
    /\ chunk' = [chunk EXCEPT ![f] = <<>>]
    /\ chunks' = [chunks EXCEPT ![f] = <<>>]
    /\ UNCHANGED <<content, changes, torn, size, whole, pc, i, data, ioErr, delta, result>>

-----------------------------------------------------------------------------
(* The main thread.                                                        *)

Goto(from, to, index) == pc = from /\ pc' = to /\ i' = index

Fail(error) == pc' = "done" /\ result' = error /\ i' = 1

(* Mutant: the main thread waits for signatures that may never come.       *)
Join_Signed ==
    /\ \A f \in File : pass[f] = "signed"
    /\ Goto("sign", "open old", 1)
    /\ UNCHANGED <<content, changes, torn, signing, size, data, ioErr, delta, result>>

(* run_create() joins the worker before it looks at either result.         *)
Join ==
    /\ pc = "sign"
    /\ \A f \in File : pass[f] \in {"signed", "failed"}
    /\ IF \E f \in File : pass[f] = "failed" THEN Fail("unreadable")
       ELSE Goto("sign", "open old", 1) /\ UNCHANGED result
    /\ UNCHANGED <<content, changes, torn, signing, size, data, ioErr, delta>>

(* openFiles(), one file after the other; both take new size snapshots.    *)
OpenInput(f) ==
    /\ \/ f = "old" /\ Goto("open old", "open new", 1)
       \/ f = "new" /\ Goto("open new", "cover", 1)
    /\ size' = [size EXCEPT ![f] = Len(content[f])]
    /\ UNCHANGED <<content, changes, torn, signing, data, ioErr, delta, result>>

Cover ==
    /\ pc = "cover"
    /\ IF \A f \in File : CoversExactly(chunks[f], size[f])
       THEN Goto("cover", "records", 1) /\ UNCHANGED result
       ELSE Fail("integrity_mismatch")
    /\ UNCHANGED <<content, changes, torn, signing, size, data, ioErr, delta>>

(* The old chunk whose content equals that of the new chunk k: the one at  *)
(* the same position, or the first ChunkIndex::find_unused() knows.        *)
Sources(k) == {j \in 1 .. Len(chunks["old"]) :
                  SameContent(chunks["old"][j], chunks["new"][k])}
Source(k)  == IF k \in Sources(k) THEN k
              ELSE CHOOSE j \in Sources(k) : \A l \in Sources(k) : j <= l

Record(r) == records' = Append(records, r)

Reuse ==
    /\ pc = "records" /\ i <= Len(chunks["new"]) /\ Sources(i) # {}
    /\ Record([type |-> "ORIGINAL", source |-> Source(i), hash |-> chunks["new"][i].bytes])
    /\ Goto("records", "records", i + 1)
    /\ UNCHANGED <<content, changes, torn, signing, size, data, ioErr, trailer, result>>

(* Mutant: the bytes are not hashed.                                       *)
ReadSigned_Unhashed(f, k, then) ==
    IF Len(Bytes(f, chunks[f][k])) = Len(chunks[f][k].bytes)
    THEN then /\ UNCHANGED <<ioErr, result>>
    ELSE Fail("io_error") /\ UNCHANGED <<data, ioErr>>

(* readSignedChunk(): the bytes the signature describes, or an error.  A   *)
(* call that failed to read leaves io_error_ behind.                       *)
ReadSigned(f, k, then) ==
    LET c == chunks[f][k]
        bytes == Bytes(f, c)
    IN  \/ /\ Len(bytes) = Len(c.bytes) /\ bytes = c.bytes
           /\ then
           /\ UNCHANGED <<ioErr, result>>
        \/ /\ Len(bytes) = Len(c.bytes) /\ bytes # c.bytes
           /\ Fail("integrity_mismatch") /\ UNCHANGED <<data, ioErr>>
        \/ /\ Len(bytes) # Len(c.bytes)
           /\ Fail("io_error") /\ UNCHANGED <<data, ioErr>>
        \/ ioErr' = TRUE /\ Fail("io_error") /\ UNCHANGED data

Added(k, bytes) == [type |-> "ADDED", hash |-> chunks["new"][k].bytes, payload |-> bytes]

(* No old chunk has this content.                                          *)
ReadNew ==
    /\ pc = "records" /\ i <= Len(chunks["new"]) /\ Sources(i) = {}
    /\ ReadSigned("new", i, /\ data' = Bytes("new", chunks["new"][i])
                            /\ Goto("records", "base", i))
    /\ UNCHANGED <<content, changes, torn, signing, size, delta>>

(* A diff against the old chunk at the same position, if there is one and  *)
(* the diff is not empty and pays for itself; else the bytes.  The old     *)
(* bytes are taken as they are read.                                       *)
ReadBase ==
    /\ pc = "base"
    /\ data' = <<>>
    /\ IF i > Len(chunks["old"])
       THEN Record(Added(i, data)) /\ Goto("base", "records", i + 1) /\ UNCHANGED <<ioErr, result>>
       ELSE LET base == Bytes("old", chunks["old"][i])
            IN  \/ /\ Len(base) = Len(chunks["old"][i].bytes)
                   /\ \/ Record(Added(i, data))
                      \/ /\ base # data
                         /\ Record([type |-> "MODIFIED", source |-> i, base |-> base,
                                    target |-> data, hash |-> chunks["new"][i].bytes])
                   /\ Goto("base", "records", i + 1)
                   /\ UNCHANGED <<ioErr, result>>
                \/ /\ Len(base) # Len(chunks["old"][i].bytes)
                   /\ Fail("io_error") /\ UNCHANGED <<ioErr, records>>
                \/ ioErr' = TRUE /\ Fail("io_error") /\ UNCHANGED records
    /\ UNCHANGED <<content, changes, torn, signing, size, trailer>>

RecordsDone ==
    /\ i > Len(chunks["new"]) /\ Goto("records", "verify", 1)
    /\ UNCHANGED <<content, changes, torn, signing, size, data, ioErr, delta, result>>

(* Mutant: the old file is not read again.                                 *)
VerifyOld_Skipped ==
    /\ i <= Len(chunks["old"]) /\ Goto("verify", "verify", i + 1)
    /\ UNCHANGED <<content, changes, torn, signing, size, data, ioErr, delta, result>>

(* verifyOldFile(): every old chunk again, then a byte beyond the end.     *)
VerifyOld ==
    /\ pc = "verify" /\ i <= Len(chunks["old"])
    /\ ReadSigned("old", i, Goto("verify", "verify", i + 1) /\ UNCHANGED data)
    /\ UNCHANGED <<content, changes, torn, signing, size, delta>>

(* The probe for growth reports a read error as a changed input, too.      *)
Probe(f, from, to) ==
    /\ pc = from /\ i > Len(chunks[f])
    /\ \/ /\ ReadAt(f, size[f], 1) = <<>> /\ Goto(from, to, 1)
          /\ UNCHANGED <<ioErr, result>>
       \/ ReadAt(f, size[f], 1) # <<>> /\ Fail("integrity_mismatch") /\ UNCHANGED ioErr
       \/ ioErr' = TRUE /\ Fail("integrity_mismatch")

ProbeOld ==
    /\ Probe("old", "verify", "trailer")
    /\ UNCHANGED <<content, changes, torn, signing, size, data, delta>>

(* writeTrailer(): the digest of the signature pass, or that of the new    *)
(* file read and verified once more.                                       *)
HashNew ==
    /\ pc = "trailer" /\ ~whole /\ i <= Len(chunks["new"])
    /\ ReadSigned("new", i, Goto("trailer", "trailer", i + 1) /\ UNCHANGED data)
    /\ trailer' = IF result' = "none" THEN trailer \o Bytes("new", chunks["new"][i]) ELSE trailer
    /\ UNCHANGED <<content, changes, torn, signing, size, records>>

UseWhole ==
    /\ pc = "trailer" /\ whole /\ i = 1 /\ chunks["new"] # <<>>
    /\ trailer' = Concat(chunks["new"])
    /\ Goto("trailer", "trailer", Len(chunks["new"]) + 1)
    /\ UNCHANGED <<content, changes, torn, signing, size, data, ioErr, records, result>>

ProbeNew ==
    /\ Probe("new", "trailer", "commit")
    /\ UNCHANGED <<content, changes, torn, signing, size, data, delta>>

Commit ==
    /\ pc = "commit" /\ pc' = "done"
    /\ result' = "ok"
    /\ UNCHANGED <<content, changes, torn, signing, size, i, data, ioErr, delta>>

(* Opening an input, writing, closing, or an exception; the output may     *)
(* also be no legal destination when it is opened or committed.            *)
EnvironmentFails ==
    /\ pc \notin {"sign", "done"}
    /\ \/ \E error \in {"io_error", "internal_error"} : Fail(error)
       \/ pc \in {"cover", "commit"} /\ Fail("invalid_argument")
    /\ UNCHANGED <<content, changes, torn, signing, size, data, ioErr, delta>>

(* Another program writes to an input.                                     *)
Change(f) ==
    /\ changes[f] < MaxChanges[f] /\ pc # "done"
    /\ changes' = [changes EXCEPT ![f] = @ + 1]
    /\ \E c \in Contents[f] \ {content[f]} : content' = [content EXCEPT ![f] = c]
    /\ torn' = IF pass[f] = "signing" THEN torn \cup {f} ELSE torn
    /\ UNCHANGED <<signing, size, pc, i, data, ioErr, delta, result>>

Worker(f) == SignOpen(f) \/ SignRead(f) \/ SignEnd(f)

Main == \/ Join \/ OpenInput("old") \/ OpenInput("new") \/ Cover
        \/ Reuse \/ ReadNew \/ ReadBase \/ RecordsDone
        \/ VerifyOld \/ ProbeOld \/ HashNew \/ UseWhole \/ ProbeNew
        \/ Commit

Done == pc = "done" /\ UNCHANGED vars

Next == (\E f \in File : Worker(f) \/ SignFails(f) \/ Change(f))
        \/ Main \/ EnvironmentFails \/ Done

Spec == Init /\ [][Next]_vars

(* Both threads are scheduled; no read has to fail, and nobody has to      *)
(* change a file.                                                          *)
FairSpec == /\ Spec
            /\ \A f \in File : WF_vars(Worker(f))
            /\ WF_vars(Main /\ UNCHANGED ioErr)

-----------------------------------------------------------------------------
(* exit_status_for() and run_create()'s own returns.                       *)
ExitStatus == CASE result = "ok" -> 0
                [] result \in {"integrity_mismatch", "invalid_argument"} -> 1
                [] OTHER -> 2

(* What Apply makes of a record, given the chunks of an old file.  A diff  *)
(* computed from other bytes than it is applied to yields others.          *)
Produced(r, old) ==
    CASE r.type = "ADDED"    -> r.payload
      [] r.type = "ORIGINAL" -> old[r.source].bytes
      [] r.type = "MODIFIED" -> IF old[r.source].bytes = r.base THEN r.target
                                ELSE <<"other bytes">>

Reconstructed(old) ==
    FoldLeft(LAMBDA bytes, r : bytes \o Produced(r, old), <<>>, records)

(* Apply accepts the delta for that old file.                              *)
Applies(old) ==
    /\ \A k \in 1 .. Len(records) : Produced(records[k], old) = records[k].hash
    /\ Reconstructed(old) = trailer

TypeOK ==
    /\ changes \in [File -> Nat] /\ torn \subseteq File
    /\ pass \in [File -> {"idle", "signing", "signed", "failed"}]
    /\ size \in [File -> Nat]
    /\ \A f \in File : CoversExactly(chunks[f], Len(Concat(chunks[f])))
    /\ \A f \in File : Len(chunk[f]) < MaxChunk
    /\ pc \in {"sign", "open old", "open new", "cover", "records", "base", "verify",
               "trailer", "commit", "done"}
    /\ i \in 1 .. Len(chunks["old"]) + Len(chunks["new"]) + 1
    /\ ioErr \in BOOLEAN
    /\ result \in {"none", "ok", "unreadable", "integrity_mismatch", "io_error",
                   "invalid_argument", "internal_error"}

(* A delta that was written applies to the old file as it was signed and   *)
(* yields the new file as it was signed, unless the old file was changed   *)
(* and changed back meanwhile: verifyOldFile() vouches for the bytes that  *)
(* ReadBase() used (Delta.hpp:192-196).                                    *)
DeltaApplies ==
    result = "ok" /\ changes["old"] <= 1
    => Applies(chunks["old"]) /\ Reconstructed(chunks["old"]) = Concat(chunks["new"])

(* The two signatures of a delta that was written describe contents that   *)
(* the files really had: for the old file because it is read again, for    *)
(* the new one if nothing changed it while it was read.                    *)
SignedContentExisted ==
    result = "ok" =>
        /\ changes["old"] <= 1 => Concat(chunks["old"]) \in {Initial["old"], content["old"]}
        /\ changes["new"] <= 1 /\ "new" \notin torn
           => Concat(chunks["new"]) \in {Initial["new"], content["new"]}

(* No false alarm: create blames an input for having changed only when one *)
(* has changed, or the probe for growth could not read it.                 *)
NoFalseAlarm ==
    result = "integrity_mismatch" => ioErr \/ \E f \in File : changes[f] > 0

(* create comes to an end, whatever happens to its inputs.                 *)
CreateEnds == <>(pc = "done")

(* The comment at Delta.hpp:192-196 says of verifyOldFile() that it also   *)
(* covers the old bytes that MODIFIED diffs were computed from.            *)
VerifyCoversDiffBase == result = "ok" => Applies(chunks["old"])

(* README.md:265: status 2 when a file could not be read.                  *)
ReadFailureIsStatus2 == pc = "done" /\ ioErr => ExitStatus = 2
=============================================================================
