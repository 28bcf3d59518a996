------------------------- MODULE DeltaCreate_proofs -------------------------
(***************************************************************************)
(* create, for every pair of inputs, every choice of cuts and chunk size,  *)
(* and any changes of the inputs at any moment.                            *)
(***************************************************************************)
EXTENDS DeltaCreate, Induction_proofs

-----------------------------------------------------------------------------
(* The contents of chunks, one after the other.                            *)

(* Units, and what a diff applied to other bytes than its base yields.     *)
Units == Unit \cup {"other bytes"}

Chunk == [bytes : Seq(Units), start : Nat]

(* What FoldLeft iterates to concatenate.                                  *)
Concats(it, cs) ==
    it = [s \in SUBSET DOMAIN cs |->
             IF s = {} THEN <<>> ELSE it[s \ {Max(s)}] \o cs[Max(s)].bytes]

LEMMA ConcatChosen ==
    ASSUME NEW cs, NEW it, Concats(it, cs)
    PROVE  \E jt : Concats(jt, cs) /\ Concat(cs) = jt[DOMAIN cs]
  BY DEF Concat, FoldLeft, MapThenFoldSet, Concats

(* The values of the fold: what the first chunks hold.                     *)
LEMMA ConcatFold ==
    ASSUME NEW cs \in Seq(Chunk)
    PROVE  \E acc \in [0 .. Len(cs) -> Seq(Units)] :
               /\ acc[0] = <<>>
               /\ \A k \in 1 .. Len(cs) : acc[k] = acc[k - 1] \o cs[k].bytes
               /\ acc[Len(cs)] = Concat(cs)
  <1> DEFINE V == Seq(Units)
             n == Len(cs)
             G == [p \in V \X (1 .. n) |-> p[1] \o cs[p[2]].bytes]
  <1>1. n \in Nat /\ DOMAIN cs = 1 .. n /\ \A k \in 1 .. n : cs[k].bytes \in V
    <2>1. \A k \in 1 .. n : cs[k] \in Chunk
      BY ElementOfSeq
    <2> QED
      BY <2>1, LenProperties DEF Chunk
  <1>2. <<>> \in V
    BY EmptySeq
  <1>3. G \in [V \X (1 .. n) -> V]
    <2>1. \A v \in V, k \in 1 .. n : v \o cs[k].bytes \in V
      BY <1>1, Joined
    <2> HIDE DEF V, n
    <2> QED
      BY <2>1
  <1>4. \A v \in V, k \in 1 .. n : G[<<v, k>>] = v \o cs[k].bytes
    OBVIOUS
  <1> HIDE DEF V, n, G
  <1>5. PICK it \in [SUBSET (1 .. n) -> V] : Iterates(it, n, <<>>, G)
    BY <1>1, <1>2, <1>3, FoldExists
  <1>6. Concats(it, cs)
    <2>1. ASSUME NEW s \in SUBSET (1 .. n), s # {}
          PROVE  G[<<it[s \ {Max(s)}], Max(s)>>] = it[s \ {Max(s)}] \o cs[Max(s)].bytes
      <3>1. Max(s) \in 1 .. n
        BY <2>1, <1>1, MaxUpTo
      <3> QED
        BY <3>1, <1>4
    <2> QED
      BY <1>1, <1>5, <2>1 DEF Iterates, Concats
  <1>7. PICK jt : Concats(jt, cs) /\ Concat(cs) = jt[DOMAIN cs]
    BY <1>6, ConcatChosen
  <1>8. jt[{}] = <<>>
    BY <1>7, <1>1 DEF Concats
  <1>9. \A s \in SUBSET (1 .. n) :
            s # {} /\ jt[s \ {Max(s)}] \in V => jt[s] = G[<<jt[s \ {Max(s)}], Max(s)>>]
    <2>1. SUFFICES ASSUME NEW s \in SUBSET (1 .. n), s # {}, jt[s \ {Max(s)}] \in V
                   PROVE  jt[s] = G[<<jt[s \ {Max(s)}], Max(s)>>]
      BY Zenon
    <2>2. Max(s) \in 1 .. n
      BY <2>1, <1>1, MaxUpTo
    <2>3. jt[s] = jt[s \ {Max(s)}] \o cs[Max(s)].bytes
      BY <1>1, <1>7, <2>1 DEF Concats
    <2> QED
      BY <1>4, <2>1, <2>2, <2>3
  <1>s. Steps(jt, V, n, <<>>, G)
    BY <1>8, <1>9 DEF Steps
  <1>t. PICK acc : Values(acc, V, n, <<>>, G, jt)
    BY <1>1, <1>2, <1>3, <1>s, FoldValues
  <1>10. /\ acc \in [0 .. n -> V] /\ acc[0] = <<>>
         /\ \A k \in 1 .. n : acc[k] = G[<<acc[k - 1], k>>]
         /\ acc[n] = jt[1 .. n]
    BY <1>t DEF Values
  <1>11. ASSUME NEW k \in 1 .. n PROVE acc[k] = acc[k - 1] \o cs[k].bytes
    <2>1. k - 1 \in 0 .. n
      BY <1>1
    <2>2. acc[k - 1] \in V
      BY <2>1, <1>10
    <2> QED
      BY <1>4, <1>10, <2>2
  <1>12. acc[n] = Concat(cs)
    BY <1>1, <1>7, <1>10
  <1> QED
    BY <1>10, <1>11, <1>12 DEF n, V

(* What the first k chunks hold.                                           *)
Upto(cs, k) == Concat(SubSeq(cs, 1, k))

LEMMA FirstChunks ==
    ASSUME NEW cs \in Seq(Chunk), NEW k \in 0 .. Len(cs)
    PROVE  /\ SubSeq(cs, 1, k) \in Seq(Chunk) /\ Len(SubSeq(cs, 1, k)) = k
           /\ \A j \in 1 .. k : SubSeq(cs, 1, k)[j] = cs[j]
  <1>1. \A j \in 1 .. k : cs[j] \in Chunk
    BY ElementOfSeq, LenProperties
  <1>2. k \in Nat
    BY LenProperties
  <1> QED
    BY <1>1, <1>2, SubSeqProperties

(* One chunk after the other.                                              *)
LEMMA UptoNext ==
    ASSUME NEW cs \in Seq(Chunk)
    PROVE  /\ Concat(cs) \in Seq(Units) /\ Upto(cs, 0) = <<>>
           /\ Upto(cs, Len(cs)) = Concat(cs)
           /\ \A k \in 0 .. Len(cs) : Upto(cs, k) \in Seq(Units)
           /\ \A k \in 1 .. Len(cs) : /\ cs[k].bytes \in Seq(Units)
                                      /\ Upto(cs, k) = Upto(cs, k - 1) \o cs[k].bytes
  <1> DEFINE n == Len(cs)
  <1>1. n \in Nat
    BY LenProperties
  <1>2. PICK acc \in [0 .. n -> Seq(Units)] :
            /\ acc[0] = <<>>
            /\ \A k \in 1 .. n : acc[k] = acc[k - 1] \o cs[k].bytes
            /\ acc[n] = Concat(cs)
    BY ConcatFold
  <1> HIDE DEF n
  <1>3. ASSUME NEW k \in 0 .. n PROVE Upto(cs, k) = acc[k]
    <2> DEFINE part == SubSeq(cs, 1, k)
    <2>1. part \in Seq(Chunk) /\ Len(part) = k /\ \A j \in 1 .. k : part[j] = cs[j]
      BY FirstChunks DEF n
    <2> HIDE DEF part
    <2>2. PICK bcc \in [0 .. k -> Seq(Units)] :
              /\ bcc[0] = <<>>
              /\ \A j \in 1 .. k : bcc[j] = bcc[j - 1] \o part[j].bytes
              /\ bcc[k] = Concat(part)
      BY <2>1, ConcatFold
    <2>3. ASSUME NEW j \in 1 .. k, bcc[j - 1] = acc[j - 1] PROVE bcc[j] = acc[j]
      <3>1. j \in 1 .. n
        BY <1>1
      <3>2. acc[j] = acc[j - 1] \o cs[j].bytes /\ bcc[j] = bcc[j - 1] \o part[j].bytes
        BY <1>2, <2>2, <3>1
      <3>3. part[j] = cs[j]
        BY <2>1
      <3> QED
        BY <2>3, <3>2, <3>3
    <2>4. k \in Nat /\ k \in 0 .. k
      BY <1>1
    <2>5. \A j \in 0 .. k : bcc[j] = acc[j]
      <3>1. SameSteps(bcc, acc, k)
        BY <1>2, <2>2, <2>3 DEF SameSteps
      <3>2. SameTo(bcc, acc, k)
        BY <2>4, <3>1, SameValues
      <3> QED
        BY <3>2 DEF SameTo
    <2> QED
      BY <2>2, <2>4, <2>5 DEF part, Upto
  <1>4. \A k \in 1 .. n : k - 1 \in 0 .. n /\ k \in 0 .. n
    BY <1>1
  <1>5. \A k \in 1 .. n : Upto(cs, k) = Upto(cs, k - 1) \o cs[k].bytes
    BY <1>2, <1>3, <1>4
  <1>6. \A k \in 0 .. n : Upto(cs, k) \in Seq(Units)
    BY <1>2, <1>3
  <1>7. 0 \in 0 .. n /\ n \in 0 .. n
    BY <1>1
  <1>8. \A k \in 1 .. n : cs[k].bytes \in Seq(Units)
    <2>1. \A k \in 1 .. n : cs[k] \in Chunk
      BY ElementOfSeq DEF n
    <2> QED
      BY <2>1 DEF Chunk
  <1> QED
    BY <1>2, <1>3, <1>5, <1>6, <1>7, <1>8 DEF n

(* A chunk more.                                                           *)
LEMMA ConcatAppend ==
    ASSUME NEW cs \in Seq(Chunk), NEW c \in Chunk
    PROVE  /\ Concat(Append(cs, c)) = Concat(cs) \o c.bytes
           /\ \A k \in 0 .. Len(cs) : Upto(Append(cs, c), k) = Upto(cs, k)
  <1> DEFINE ds == Append(cs, c)
             n == Len(cs)
  <1>1. /\ ds \in Seq(Chunk) /\ Len(ds) = n + 1 /\ n \in Nat
        /\ \A k \in 1 .. n : ds[k] = cs[k]
        /\ ds[n + 1] = c
    BY AppendProperties, LenProperties
  <1> HIDE DEF ds, n
  <1>2. ASSUME NEW k \in 0 .. n PROVE Upto(ds, k) = Upto(cs, k)
    <2>1. k \in 0 .. Len(ds)
      BY <1>1
    <2>2. /\ SubSeq(ds, 1, k) \in Seq(Chunk) /\ Len(SubSeq(ds, 1, k)) = k
          /\ \A j \in 1 .. k : SubSeq(ds, 1, k)[j] = ds[j]
      BY <1>1, <2>1, FirstChunks
    <2>3. /\ SubSeq(cs, 1, k) \in Seq(Chunk) /\ Len(SubSeq(cs, 1, k)) = k
          /\ \A j \in 1 .. k : SubSeq(cs, 1, k)[j] = cs[j]
      BY FirstChunks DEF n
    <2>4. \A j \in 1 .. k : ds[j] = cs[j]
      BY <1>1
    <2>5. SubSeq(ds, 1, k) = SubSeq(cs, 1, k)
      <3> DEFINE s == SubSeq(ds, 1, k)
                 t == SubSeq(cs, 1, k)
      <3>1. s \in Seq(Chunk) /\ t \in Seq(Chunk) /\ Len(s) = Len(t)
            /\ \A j \in 1 .. Len(s) : s[j] = t[j]
        BY <2>2, <2>3, <2>4
      <3> HIDE DEF s, t
      <3>2. s = t
        BY <3>1, SeqEqual
      <3> QED
        BY <3>2 DEF s, t
    <2> QED
      BY <2>5 DEF Upto
  <1>3. Concat(ds) = Upto(ds, n) \o c.bytes
    <2>1. n + 1 \in 1 .. Len(ds) /\ (n + 1) - 1 = n
      BY <1>1
    <2> QED
      BY <1>1, <2>1, UptoNext
  <1>4. Upto(ds, n) = Concat(cs)
    <2>1. n \in 0 .. n
      BY <1>1
    <2> QED
      BY <1>2, <2>1, UptoNext DEF n
  <1> QED
    BY <1>2, <1>3, <1>4 DEF ds, n

-----------------------------------------------------------------------------
(* The inductive invariant.                                                *)

(* The chunks of a signature tile what they hold: CoversExactly().         *)
Tiles(cs) ==
    \A k \in 1 .. Len(cs) : /\ cs[k].start = Len(Upto(cs, k - 1))
                            /\ Len(cs[k].bytes) \in 1 .. MaxChunk

RecordType ==
    [type : {"ORIGINAL"}, source : Nat, hash : Seq(Units)]
    \cup [type : {"ADDED"}, hash : Seq(Units), payload : Seq(Units)]
    \cup [type : {"MODIFIED"}, source : Nat, base : Seq(Units), target : Seq(Units),
          hash : Seq(Units)]

Phases == {"sign", "open old", "open new", "cover", "records", "base", "verify",
           "trailer", "commit", "done"}

Results == {"none", "ok", "unreadable", "integrity_mismatch", "io_error",
            "invalid_argument", "internal_error"}

TypeInv ==
    /\ content \in [File -> Seq(Units)] /\ changes \in [File -> Nat]
    /\ torn \subseteq File /\ size \in [File -> Nat] /\ whole \in BOOLEAN
    /\ pass \in [File -> {"idle", "signing", "signed", "failed"}]
    /\ chunk \in [File -> Seq(Units)] /\ chunks \in [File -> Seq(Chunk)]
    /\ pc \in Phases /\ i \in Nat \ {0} /\ result \in Results /\ ioErr \in BOOLEAN
    /\ data \in Seq(Units) /\ trailer \in Seq(Units) /\ records \in Seq(RecordType)
    /\ \A f \in File : Tiles(chunks[f]) /\ Len(chunk[f]) < MaxChunk

(* The delta is being written, or has been.                                *)
Writing == pc \in {"records", "base", "verify", "trailer", "commit"} \/ result = "ok"

(* Its old file has been read again.                                       *)
Verified == pc \in {"trailer", "commit"} \/ result = "ok"

(* Where the loops of the main thread are, and what the phases before have *)
(* established.                                                            *)
PhaseInv ==
    /\ result = "none" <=> pc # "done"
    /\ pc \notin {"sign", "done"} \/ result = "ok" => \A f \in File : pass[f] = "signed"
    /\ pc \in {"sign", "open old", "open new", "cover", "commit", "done"} => i = 1
    /\ pc \in {"records", "base", "trailer"} => i <= Len(chunks["new"]) + 1
    /\ pc = "base" => i <= Len(chunks["new"])
    /\ pc = "verify" => i <= Len(chunks["old"]) + 1
    /\ Writing => \A f \in File : size[f] = Len(Concat(chunks[f]))
    /\ \A f \in File : /\ pass[f] # "signing" => chunk[f] = <<>>
                       /\ pass[f] = "idle" => chunks[f] = <<>>

(* s is how t begins.                                                      *)
Begins(s, t) == Len(s) <= Len(t) /\ \A j \in 1 .. Len(s) : s[j] = t[j]

(* What a signature says of a file that did not change under its pass.     *)
ContentInv ==
    \A f \in File :
        /\ changes[f] = 0 => /\ content[f] = Initial[f] /\ f \notin torn
                             /\ pass[f] # "idle" => size[f] = Len(content[f])
        /\ pass[f] = "signing" /\ f \notin torn
           => Begins(Concat(chunks[f]) \o chunk[f], content[f])
        /\ pass[f] = "signed" /\ f \notin torn /\ changes[f] <= 1
           => Concat(chunks[f]) \in {Initial[f], content[f]}

(* Reading the old file again makes up for a change under its pass.        *)
VerifyInv ==
    changes["old"] <= 1 /\ "old" \in torn =>
        /\ pc = "verify" => \A k \in 1 .. i - 1 :
                               Bytes("old", chunks["old"][k]) = chunks["old"][k].bytes
        /\ Verified => Concat(chunks["old"]) = content["old"]

(* A record that yields the new chunk k.  The base of a diff is the signed *)
(* old chunk, or what is in its place until it is verified.                *)
Yields(r, k) ==
    LET c == chunks["new"][k]
    IN  /\ r.hash = c.bytes
        /\ r.type = "ORIGINAL" => /\ r.source \in 1 .. Len(chunks["old"])
                                  /\ chunks["old"][r.source].bytes = c.bytes
        /\ r.type = "ADDED" => r.payload = c.bytes
        /\ r.type = "MODIFIED" =>
               /\ r.source = k /\ k \in 1 .. Len(chunks["old"]) /\ r.target = c.bytes
               /\ changes["old"] <= 1 =>
                     \/ r.base = chunks["old"][k].bytes
                     \/ /\ ~Verified /\ ~(pc = "verify" /\ k < i)
                        /\ r.base = Bytes("old", chunks["old"][k])

RecordGood(k) == Yields(records[k], k)

RecordInv ==
    Writing =>
        /\ Len(records) = IF pc \in {"records", "base"} THEN i - 1 ELSE Len(chunks["new"])
        /\ \A k \in 1 .. Len(records) : RecordGood(k)
        /\ pc = "base" => data = chunks["new"][i].bytes

(* The digest of the delta covers the new chunks so far.                   *)
TrailerInv ==
    /\ pc \in {"sign", "open old", "open new", "cover", "records", "base", "verify"}
       => trailer = <<>>
    /\ pc \in {"sign", "open old", "open new", "cover"} => records = <<>>
    /\ pc = "trailer" => trailer = Upto(chunks["new"], i - 1)
    /\ pc = "commit" \/ result = "ok" => trailer = Concat(chunks["new"])

IInv == /\ TypeInv /\ PhaseInv /\ ContentInv /\ VerifyInv /\ RecordInv /\ TrailerInv
        /\ NoFalseAlarm

-----------------------------------------------------------------------------
(* Where the bytes of a chunk are in the whole.                            *)

LEMMA UptoHolds ==
    ASSUME NEW cs \in Seq(Chunk), NEW k \in 1 .. Len(cs)
    PROVE  /\ Len(Upto(cs, k - 1)) \in Nat /\ Len(cs[k].bytes) \in Nat
           /\ Len(Upto(cs, k - 1)) + Len(cs[k].bytes) <= Len(Concat(cs))
           /\ \A j \in 1 .. Len(cs[k].bytes) :
                 Concat(cs)[Len(Upto(cs, k - 1)) + j] = cs[k].bytes[j]
  <1> DEFINE n == Len(cs)
             U(m) == Upto(cs, m)
             from == Len(U(k - 1))
             b == cs[k].bytes
             P(m) == m \in k .. n => /\ from + Len(b) <= Len(U(m))
                                     /\ \A j \in 1 .. Len(b) : U(m)[from + j] = b[j]
             S == {m \in Nat : P(m)}
  <1>1. /\ n \in Nat /\ k \in 1 .. n /\ k - 1 \in 0 .. n
        /\ \A m \in 0 .. n : U(m) \in Seq(Units)
        /\ \A m \in 1 .. n : cs[m].bytes \in Seq(Units) /\ U(m) = U(m - 1) \o cs[m].bytes
    <2>1. n \in Nat
      BY LenProperties
    <2>2. k \in 1 .. n /\ k - 1 \in 0 .. n
      BY <2>1
    <2> QED
      BY <2>1, <2>2, UptoNext
  <1>2. U(n) = Concat(cs)
    BY UptoNext
  <1>3. b \in Seq(Units) /\ Len(b) \in Nat /\ U(k - 1) \in Seq(Units) /\ from \in Nat
    BY <1>1, LenProperties
  <1> HIDE DEF U, n, b, from
  <1>4. P(0)
    BY <1>1
  <1>5. ASSUME NEW m \in Nat, P(m) PROVE P(m + 1)
    <2>1. SUFFICES ASSUME m + 1 \in k .. n
                   PROVE  /\ from + Len(b) <= Len(U(m + 1))
                          /\ \A j \in 1 .. Len(b) : U(m + 1)[from + j] = b[j]
      OBVIOUS
    <2> DEFINE c == cs[m + 1].bytes
               u == U(m)
               v == U(m + 1)
    <2>2. u \in Seq(Units) /\ c \in Seq(Units) /\ v = u \o c
      <3>1. m \in 0 .. n /\ m + 1 \in 1 .. n /\ (m + 1) - 1 = m
        BY <1>1, <2>1
      <3> QED
        BY <1>1, <3>1
    <2>3. CASE m = k - 1
      <3>1. u = U(k - 1) /\ c = b
        BY <1>1, <2>3 DEF b
      <3>2. Len(u) = from
        BY <3>1 DEF from
      <3> HIDE DEF c, u, v
      <3>3. /\ Len(v) = Len(u) + Len(c)
            /\ \A j \in 1 .. Len(u) + Len(c) : v[j] = IF j <= Len(u) THEN u[j] ELSE c[j - Len(u)]
        BY <2>2, ConcatProperties
      <3>4. ASSUME NEW j \in 1 .. Len(b) PROVE v[from + j] = b[j]
        <4>1. /\ from + j \in 1 .. Len(u) + Len(c) /\ ~(from + j <= Len(u))
              /\ (from + j) - Len(u) = j
          BY SMTT(60), <1>3, <3>1, <3>2
        <4>2. v[from + j] = c[(from + j) - Len(u)]
          BY <3>3, <4>1
        <4> QED
          BY <3>1, <4>1, <4>2
      <3>5. from + Len(b) <= Len(v)
        BY <1>3, <3>1, <3>2, <3>3
      <3> QED
        BY <3>4, <3>5 DEF v
    <2>4. CASE m >= k
      <3>1. m \in k .. n
        BY <1>1, <2>1, <2>4
      <3>2. from + Len(b) <= Len(u) /\ \A j \in 1 .. Len(b) : u[from + j] = b[j]
        BY <1>5, <3>1
      <3> HIDE DEF c, u, v
      <3>3. /\ Len(v) = Len(u) + Len(c) /\ Len(u) \in Nat /\ Len(c) \in Nat
            /\ \A j \in 1 .. Len(u) + Len(c) : v[j] = IF j <= Len(u) THEN u[j] ELSE c[j - Len(u)]
        BY <2>2, ConcatProperties, LenProperties
      <3>4. ASSUME NEW j \in 1 .. Len(b) PROVE v[from + j] = b[j]
        <4>1. from + j \in 1 .. Len(u) + Len(c) /\ from + j <= Len(u)
          BY <1>3, <3>2, <3>3
        <4>2. v[from + j] = u[from + j]
          BY <3>3, <4>1
        <4> QED
          BY <3>2, <4>2
      <3>5. from + Len(b) <= Len(v)
        BY <1>3, <3>2, <3>3
      <3> QED
        BY <3>4, <3>5 DEF v
    <2> QED
      BY <1>1, <2>1, <2>3, <2>4
  <1> HIDE DEF P
  <1>6. 0 \in S /\ \A m \in Nat : m \in S => m + 1 \in S
    BY <1>4, <1>5
  <1> HIDE DEF S
  <1>7. n \in S
    BY <1>1, <1>6, SetInduction
  <1>8. P(n)
    BY <1>7 DEF S
  <1>9. n \in k .. n
    BY <1>1
  <1>10. from + Len(b) <= Len(U(n)) /\ \A j \in 1 .. Len(b) : U(n)[from + j] = b[j]
    BY <1>8, <1>9 DEF P
  <1> QED
    BY <1>2, <1>3, <1>10 DEF from, b, U

(* A content that has every chunk in its place begins with the whole.      *)
InPlace(cs, t) ==
    \A k \in 1 .. Len(cs) :
        /\ Len(Upto(cs, k - 1)) + Len(cs[k].bytes) <= Len(t)
        /\ \A j \in 1 .. Len(cs[k].bytes) : t[Len(Upto(cs, k - 1)) + j] = cs[k].bytes[j]

LEMMA WholeInPlace ==
    ASSUME NEW cs \in Seq(Chunk), NEW t \in Seq(Units), InPlace(cs, t)
    PROVE  Begins(Concat(cs), t)
  <1> DEFINE n == Len(cs)
             U(m) == Upto(cs, m)
             P(m) == m <= n => Begins(U(m), t)
             S == {m \in Nat : P(m)}
  <1>1. /\ n \in Nat /\ U(0) = <<>>
        /\ \A m \in 0 .. n : U(m) \in Seq(Units)
        /\ \A m \in 1 .. n : cs[m].bytes \in Seq(Units) /\ U(m) = U(m - 1) \o cs[m].bytes
    BY UptoNext, LenProperties
  <1>2. U(n) = Concat(cs)
    BY UptoNext
  <1>3. \A k \in 1 .. n : /\ Len(U(k - 1)) + Len(cs[k].bytes) <= Len(t)
                          /\ \A j \in 1 .. Len(cs[k].bytes) :
                                t[Len(U(k - 1)) + j] = cs[k].bytes[j]
    BY DEF InPlace
  <1> HIDE DEF U, n
  <1>4. P(0)
    <2>1. Len(<<>>) = 0 /\ Len(t) \in Nat
      BY LenProperties
    <2> QED
      BY <1>1, <2>1 DEF Begins
  <1>5. ASSUME NEW m \in Nat, P(m) PROVE P(m + 1)
    <2>1. SUFFICES ASSUME m + 1 <= n PROVE Begins(U(m + 1), t)
      OBVIOUS
    <2> DEFINE c == cs[m + 1].bytes
               u == U(m)
               v == U(m + 1)
    <2>2. m \in 0 .. n /\ m + 1 \in 1 .. n /\ (m + 1) - 1 = m /\ m <= n
      BY <1>1, <2>1
    <2>3. u \in Seq(Units) /\ c \in Seq(Units) /\ v = u \o c
      BY <1>1, <2>2
    <2>4. Len(u) + Len(c) <= Len(t) /\ \A j \in 1 .. Len(c) : t[Len(u) + j] = c[j]
      BY <1>3, <2>2
    <2>5. \A j \in 1 .. Len(u) : u[j] = t[j]
      BY <1>5, <2>2 DEF Begins
    <2> HIDE DEF c, u, v
    <2>6. /\ Len(v) = Len(u) + Len(c) /\ Len(u) \in Nat /\ Len(c) \in Nat
          /\ \A j \in 1 .. Len(u) + Len(c) : v[j] = IF j <= Len(u) THEN u[j] ELSE c[j - Len(u)]
      BY <2>3, ConcatProperties, LenProperties
    <2>7. Len(v) <= Len(t)
      BY <2>4, <2>6
    <2>8. ASSUME NEW j \in 1 .. Len(v) PROVE v[j] = t[j]
      <3>1. CASE j <= Len(u)
        BY <2>5, <2>6, <3>1
      <3>2. CASE j > Len(u)
        <4>1. j - Len(u) \in 1 .. Len(c) /\ Len(u) + (j - Len(u)) = j
          BY <2>6, <3>2
        <4>2. v[j] = c[j - Len(u)]
          BY <2>6, <3>2
        <4>3. t[Len(u) + (j - Len(u))] = c[j - Len(u)]
          BY <2>4, <4>1
        <4> QED
          BY <4>1, <4>2, <4>3
      <3> QED
        BY <2>6, <3>1, <3>2
    <2> QED
      BY <2>7, <2>8 DEF Begins, v
  <1> HIDE DEF P
  <1>6. 0 \in S /\ \A m \in Nat : m \in S => m + 1 \in S
    BY <1>4, <1>5
  <1> HIDE DEF S
  <1>7. n \in S
    BY <1>1, <1>6, SetInduction
  <1>8. P(n) /\ n <= n
    BY <1>1, <1>7 DEF S
  <1> QED
    BY <1>2, <1>8 DEF P

(* FileIO::read_chunk(n, pos) of a content.                                *)
Piece(s, pos, n) == SubSeq(s, pos + 1, Min({pos + n, Len(s)}))

From(p, s, pos) == \A j \in 1 .. Len(p) : p[j] = s[pos + j]

LEMMA PieceIs ==
    ASSUME NEW s \in Seq(Units), NEW pos \in Nat, NEW n \in Nat \ {0}
    PROVE  /\ Piece(s, pos, n) \in Seq(Units)
           /\ Len(Piece(s, pos, n)) = n => pos + n <= Len(s)
           /\ pos + n <= Len(s) => Len(Piece(s, pos, n)) = n /\ From(Piece(s, pos, n), s, pos)
           /\ Piece(s, pos, n) = <<>> <=> pos >= Len(s)
  <1> DEFINE last == Min({pos + n, Len(s)})
             p == Piece(s, pos, n)
  <1>1. Len(s) \in Nat /\ \A j \in 1 .. Len(s) : s[j] \in Units
    BY LenProperties, ElementOfSeq
  <1>2. last = IF pos + n <= Len(s) THEN pos + n ELSE Len(s)
    BY <1>1, MinOfTwo
  <1> HIDE DEF last
  <1>3. last \in Int /\ pos + 1 \in Int /\ \A j \in pos + 1 .. last : s[j] \in Units
    BY <1>1, <1>2
  <1>4. p = SubSeq(s, pos + 1, last)
    BY DEF Piece, last
  <1> HIDE DEF p
  <1>5. /\ p \in Seq(Units)
        /\ Len(p) = IF pos + 1 <= last THEN last - (pos + 1) + 1 ELSE 0
        /\ \A j \in 1 .. last - (pos + 1) + 1 : p[j] = s[(pos + 1) + j - 1]
    BY <1>3, <1>4, SubSeqProperties
  <1>6. Len(p) = IF pos + 1 <= last THEN last - pos ELSE 0
    BY <1>3, <1>5
  <1>7. Len(p) = n => pos + n <= Len(s)
    BY <1>1, <1>2, <1>6
  <1>8. pos + n <= Len(s) => Len(p) = n
    BY <1>1, <1>2, <1>6
  <1>9. p = <<>> <=> pos >= Len(s)
    <2>1. p = <<>> <=> Len(p) = 0
      BY <1>5, EmptySeq
    <2> QED
      BY <1>1, <1>2, <1>6, <2>1
  <1>10. ASSUME NEW j \in 1 .. n, pos + n <= Len(s) PROVE p[j] = s[pos + j]
    <2>1. last = pos + n
      BY <1>2, <1>10
    <2>2. j \in 1 .. last - (pos + 1) + 1 /\ (pos + 1) + j - 1 = pos + j
      BY <2>1
    <2> QED
      BY <1>5, <2>2
  <1> QED
    BY <1>5, <1>7, <1>8, <1>9, <1>10 DEF p, From

-----------------------------------------------------------------------------
(* What is read of an input, against its signature.                        *)

LEMMA ChunkFacts ==
    ASSUME TypeInv, NEW f \in File
    PROVE  /\ chunks[f] \in Seq(Chunk) /\ content[f] \in Seq(Units)
           /\ chunk[f] \in Seq(Units) /\ Tiles(chunks[f]) /\ Len(chunk[f]) < MaxChunk
           /\ Len(chunks[f]) \in Nat /\ Len(content[f]) \in Nat /\ size[f] \in Nat
           /\ Len(chunk[f]) \in Nat /\ changes[f] \in Nat
           /\ Concat(chunks[f]) \in Seq(Units) /\ Len(Concat(chunks[f])) \in Nat
  <1>1. /\ chunks[f] \in Seq(Chunk) /\ content[f] \in Seq(Units)
        /\ chunk[f] \in Seq(Units) /\ Tiles(chunks[f]) /\ Len(chunk[f]) < MaxChunk
        /\ size[f] \in Nat /\ changes[f] \in Nat
    BY DEF TypeInv
  <1>2. Concat(chunks[f]) \in Seq(Units)
    BY <1>1, UptoNext
  <1> QED
    BY <1>1, <1>2, LenProperties

LEMMA BytesIs ==
    ASSUME TypeInv, NEW f \in File, NEW k \in 1 .. Len(chunks[f])
    PROVE  /\ Bytes(f, chunks[f][k])
              = Piece(content[f], Len(Upto(chunks[f], k - 1)), Len(chunks[f][k].bytes))
           /\ Len(Upto(chunks[f], k - 1)) \in Nat /\ Len(chunks[f][k].bytes) \in Nat \ {0}
           /\ chunks[f][k].bytes \in Seq(Units) /\ Bytes(f, chunks[f][k]) \in Seq(Units)
  <1>1. chunks[f] \in Seq(Chunk) /\ content[f] \in Seq(Units) /\ Tiles(chunks[f])
    BY ChunkFacts
  <1>2. chunks[f][k].start = Len(Upto(chunks[f], k - 1))
    BY <1>1 DEF Tiles
  <1>3. Len(Upto(chunks[f], k - 1)) \in Nat /\ Len(chunks[f][k].bytes) \in Nat
    BY <1>1, UptoHolds
  <1>4. Len(chunks[f][k].bytes) >= 1
    BY <1>1, <1>3 DEF Tiles
  <1>5. chunks[f][k].bytes \in Seq(Units)
    BY <1>1, UptoNext
  <1>6. Bytes(f, chunks[f][k])
        = Piece(content[f], Len(Upto(chunks[f], k - 1)), Len(chunks[f][k].bytes))
    BY <1>2 DEF Bytes, ReadAt, Piece
  <1>7. Len(chunks[f][k].bytes) \in Nat \ {0}
    BY <1>3, <1>4
  <1>8. Piece(content[f], Len(Upto(chunks[f], k - 1)), Len(chunks[f][k].bytes)) \in Seq(Units)
    BY <1>1, <1>3, <1>7, PieceIs
  <1>9. Bytes(f, chunks[f][k]) \in Seq(Units)
    BY <1>6, <1>8, Zenon
  <1> QED
    BY <1>3, <1>5, <1>6, <1>7, <1>9, Zenon

(* A file that holds what was signed reads as it was signed.               *)
LEMMA ReadsAsSigned ==
    ASSUME TypeInv, NEW f \in File, Concat(chunks[f]) = content[f]
    PROVE  /\ \A k \in 1 .. Len(chunks[f]) : Bytes(f, chunks[f][k]) = chunks[f][k].bytes
           /\ ReadAt(f, Len(content[f]), 1) = <<>>
  <1>1. chunks[f] \in Seq(Chunk) /\ content[f] \in Seq(Units) /\ Len(content[f]) \in Nat
    BY ChunkFacts
  <1>2. ASSUME NEW k \in 1 .. Len(chunks[f])
        PROVE  Bytes(f, chunks[f][k]) = chunks[f][k].bytes
    <2> DEFINE b == chunks[f][k].bytes
               pos == Len(Upto(chunks[f], k - 1))
               p == Bytes(f, chunks[f][k])
               s == content[f]
    <2>1. p = Piece(s, pos, Len(b)) /\ pos \in Nat /\ Len(b) \in Nat \ {0}
          /\ b \in Seq(Units) /\ p \in Seq(Units) /\ s \in Seq(Units)
      BY <1>1, BytesIs
    <2>2. pos + Len(b) <= Len(s) /\ \A j \in 1 .. Len(b) : s[pos + j] = b[j]
      BY <1>1, UptoHolds
    <2> HIDE DEF b, pos, p, s
    <2>a. Len(p) = Len(b) /\ From(p, s, pos)
      BY <2>1, <2>2, PieceIs
    <2>3. Len(p) = Len(b) /\ \A j \in 1 .. Len(b) : p[j] = s[pos + j]
      BY <2>a DEF From
    <2>4. p = b
      BY <2>1, <2>2, <2>3, SeqEqual
    <2> QED
      BY <2>4 DEF b, p
  <1>3. Piece(content[f], Len(content[f]), 1) = <<>>
    <2>1. 1 \in Nat \ {0} /\ Len(content[f]) >= Len(content[f])
      BY <1>1
    <2> QED
      BY <1>1, <2>1, PieceIs
  <1> QED
    BY <1>2, <1>3 DEF ReadAt, Piece

(* A file that reads as it was signed, and no further, holds what was      *)
(* signed.                                                                 *)
LEMMA ReadBack ==
    ASSUME TypeInv, NEW f \in File,
           \A k \in 1 .. Len(chunks[f]) : Bytes(f, chunks[f][k]) = chunks[f][k].bytes,
           ReadAt(f, Len(Concat(chunks[f])), 1) = <<>>
    PROVE  Concat(chunks[f]) = content[f]
  <1> DEFINE cs == chunks[f]
             s == content[f]
             w == Concat(cs)
  <1>1. cs \in Seq(Chunk) /\ s \in Seq(Units) /\ w \in Seq(Units)
        /\ Len(w) \in Nat /\ Len(s) \in Nat
    BY ChunkFacts
  <1>2. InPlace(cs, s)
    <2>1. ASSUME NEW k \in 1 .. Len(cs)
          PROVE  /\ Len(Upto(cs, k - 1)) + Len(cs[k].bytes) <= Len(s)
                 /\ \A j \in 1 .. Len(cs[k].bytes) :
                       s[Len(Upto(cs, k - 1)) + j] = cs[k].bytes[j]
      <3> DEFINE b == cs[k].bytes
                 pos == Len(Upto(cs, k - 1))
      <3>1. b = Piece(s, pos, Len(b)) /\ pos \in Nat /\ Len(b) \in Nat \ {0}
        BY BytesIs
      <3> HIDE DEF b, pos, cs, s
      <3>2. pos + Len(b) <= Len(s)
        BY <1>1, <3>1, PieceIs
      <3>3. From(b, s, pos)
        BY <1>1, <3>1, <3>2, PieceIs
      <3>4. \A j \in 1 .. Len(b) : s[pos + j] = b[j]
        BY <3>3 DEF From
      <3> QED
        BY <3>2, <3>4 DEF b, pos
    <2> QED
      BY <2>1 DEF InPlace
  <1>3. Piece(s, Len(w), 1) = <<>>
    BY DEF ReadAt, Piece
  <1> HIDE DEF cs, s
  <1>4. Begins(w, s)
    BY <1>1, <1>2, WholeInPlace
  <1> HIDE DEF w
  <1>5. Len(w) >= Len(s)
    <2>1. 1 \in Nat \ {0}
      OBVIOUS
    <2> QED
      BY <1>1, <1>3, <2>1, PieceIs
  <1>6. w = s
    BY <1>1, <1>4, <1>5, SeqEqual DEF Begins
  <1> QED
    BY <1>6 DEF w, s, cs

-----------------------------------------------------------------------------
(* The signature passes.                                                   *)

LEMMA FileNames == "old" \in File /\ "new" \in File
  BY DEF File

LEMMA Starts == Init => IInv
  <1> SUFFICES ASSUME Init PROVE IInv
    OBVIOUS
  <1> USE CreateAssumption DEF Init, signing, delta
  <1>1. TypeInv
    <2>1. content \in [File -> Seq(Units)]
      <3>1. \A f \in File : Initial[f] \in Seq(Unit)
        OBVIOUS
      <3>2. \A f \in File : Initial[f] \in Seq(Units)
        BY <3>1, SeqMonotonic DEF Units
      <3> QED
        BY <3>2
    <2>2. <<>> \in Seq(Units) /\ <<>> \in Seq(Chunk) /\ <<>> \in Seq(RecordType)
          /\ Len(<<>>) = 0
      BY EmptySeq
    <2>3. changes \in [File -> Nat] /\ size \in [File -> Nat] /\ torn \subseteq File
      OBVIOUS
    <2>a. pass \in [File -> {"idle", "signing", "signed", "failed"}]
      OBVIOUS
    <2>b. pc \in Phases /\ result \in Results
      BY DEF Phases, Results
    <2>c. i \in Nat \ {0}
      OBVIOUS
    <2>d. whole \in BOOLEAN /\ ioErr \in BOOLEAN
      OBVIOUS
    <2>4. /\ pass \in [File -> {"idle", "signing", "signed", "failed"}]
          /\ pc \in Phases /\ result \in Results /\ i \in Nat \ {0}
          /\ whole \in BOOLEAN /\ ioErr \in BOOLEAN
      BY <2>a, <2>b, <2>c, <2>d
    <2>5. chunk \in [File -> Seq(Units)] /\ chunks \in [File -> Seq(Chunk)]
      BY <2>2
    <2>6. \A f \in File : Tiles(chunks[f]) /\ Len(chunk[f]) < MaxChunk
      BY <2>2 DEF Tiles
    <2>7. data \in Seq(Units) /\ trailer \in Seq(Units) /\ records \in Seq(RecordType)
      BY <2>2
    <2> QED
      BY <2>1, <2>3, <2>4, <2>5, <2>6, <2>7 DEF TypeInv
  <1>2. PhaseInv
    BY DEF PhaseInv, Writing
  <1>3. ContentInv
    BY DEF ContentInv
  <1>4. VerifyInv
    BY DEF VerifyInv
  <1>5. RecordInv /\ TrailerInv /\ NoFalseAlarm
    BY DEF RecordInv, TrailerInv, NoFalseAlarm, Writing
  <1> QED
    BY <1>1, <1>2, <1>3, <1>4, <1>5 DEF IInv

(* A pass runs while the main thread waits for it, or has given up.        *)
LEMMA PassUnderWay ==
    ASSUME PhaseInv, TypeInv, NEW f \in File, pass[f] \in {"idle", "signing"}
    PROVE  /\ pc \in {"sign", "done"} /\ i = 1 /\ result # "ok" /\ ~Writing /\ ~Verified
           /\ pc = "done" => result # "none"
  <1>1. pass[f] # "signed"
    OBVIOUS
  <1>2. pc \in {"sign", "done"} /\ result # "ok"
    BY <1>1 DEF PhaseInv
  <1> QED
    BY <1>2 DEF PhaseInv, Writing, Verified

(* What a pass is to ensure with each of its steps: sz is the size it      *)
(* knows, ps where it is, ch its chunk under way and cs those it signed.   *)
PassStep(f, sz, ps, ch, cs) ==
    /\ pass[f] \in {"idle", "signing"}
    /\ UNCHANGED <<content, changes, torn, whole, pc, i, data, ioErr, delta, result>>
    /\ size' = [size EXCEPT ![f] = sz] /\ pass' = [pass EXCEPT ![f] = ps]
    /\ chunk' = [chunk EXCEPT ![f] = ch] /\ chunks' = [chunks EXCEPT ![f] = cs]
    /\ sz \in Nat /\ ps \in {"signing", "signed", "failed"}
    /\ ch \in Seq(Units) /\ Len(ch) < MaxChunk /\ cs \in Seq(Chunk) /\ Tiles(cs)
    /\ ps # "signing" => ch = <<>>
    /\ changes[f] = 0 => sz = Len(content[f])
    /\ f \notin torn => /\ ps = "signing" => Begins(Concat(cs) \o ch, content[f])
                        /\ ps = "signed" => Concat(cs) = content[f]

LEMMA PassKeeps ==
    ASSUME IInv, NEW f \in File, NEW sz, NEW ps, NEW ch, NEW cs, PassStep(f, sz, ps, ch, cs)
    PROVE  IInv'
  <1> USE DEF delta
  <1>1. TypeInv /\ PhaseInv /\ ContentInv /\ TrailerInv /\ NoFalseAlarm
    BY DEF IInv
  <1>2. /\ pc \in {"sign", "done"} /\ i = 1 /\ result # "ok"
        /\ pc = "done" => result # "none"
    BY <1>1, PassUnderWay DEF PassStep
  <1>3. /\ size \in [File -> Nat] /\ chunk \in [File -> Seq(Units)]
        /\ pass \in [File -> {"idle", "signing", "signed", "failed"}]
        /\ chunks \in [File -> Seq(Chunk)]
    BY <1>1 DEF TypeInv
  <1>4. /\ size'[f] = sz /\ pass'[f] = ps /\ chunk'[f] = ch /\ chunks'[f] = cs
        /\ \A g \in File \ {f} : /\ size'[g] = size[g] /\ pass'[g] = pass[g]
                                 /\ chunk'[g] = chunk[g] /\ chunks'[g] = chunks[g]
    BY <1>3 DEF PassStep
  <1>5. UNCHANGED <<content, changes, torn, whole, pc, i, data, ioErr, records, trailer, result>>
    BY DEF PassStep
  <1>6. TypeInv'
    <2>1. /\ size' \in [File -> Nat] /\ chunk' \in [File -> Seq(Units)]
          /\ pass' \in [File -> {"idle", "signing", "signed", "failed"}]
          /\ chunks' \in [File -> Seq(Chunk)]
      BY <1>3 DEF PassStep
    <2>2. \A g \in File : Tiles(chunks'[g]) /\ Len(chunk'[g]) < MaxChunk
      BY <1>1, <1>4 DEF TypeInv, PassStep
    <2> QED
      BY <1>1, <1>5, <2>1, <2>2 DEF TypeInv
  <1>7. PhaseInv'
    <2>1. \A g \in File : /\ pass'[g] # "signing" => chunk'[g] = <<>>
                          /\ pass'[g] = "idle" => chunks'[g] = <<>>
      BY <1>1, <1>4 DEF PhaseInv, PassStep
    <2> QED
      BY <1>1, <1>2, <1>5, <2>1 DEF PhaseInv, Writing
  <1>8. ContentInv'
    <2>1. ASSUME NEW g \in File
          PROVE  /\ changes'[g] = 0 => /\ content'[g] = Initial[g] /\ g \notin torn'
                                       /\ pass'[g] # "idle" => size'[g] = Len(content'[g])
                 /\ pass'[g] = "signing" /\ g \notin torn'
                    => Begins(Concat(chunks'[g]) \o chunk'[g], content'[g])
                 /\ pass'[g] = "signed" /\ g \notin torn' /\ changes'[g] <= 1
                    => Concat(chunks'[g]) \in {Initial[g], content'[g]}
      <3>1. CASE g # f
        BY <1>1, <1>4, <1>5, <3>1 DEF ContentInv
      <3>2. CASE g = f
        BY <1>1, <1>4, <1>5, <3>2 DEF ContentInv, PassStep
      <3> QED
        BY <3>1, <3>2
    <2> QED
      BY <2>1 DEF ContentInv
  <1>9. VerifyInv' /\ RecordInv'
    BY <1>2, <1>5 DEF VerifyInv, RecordInv, Writing, Verified
  <1>10. TrailerInv' /\ NoFalseAlarm'
    BY <1>1, <1>2, <1>5 DEF TrailerInv, NoFalseAlarm
  <1> QED
    BY <1>6, <1>7, <1>8, <1>9, <1>10 DEF IInv

LEMMA NoChunks ==
    /\ <<>> \in Seq(Chunk) /\ Tiles(<<>>) /\ Concat(<<>>) = <<>>
    /\ <<>> \in Seq(Units) /\ Len(<<>>) = 0 /\ Len(<<>>) < MaxChunk
  <1>1. <<>> \in Seq(Chunk) /\ <<>> \in Seq(Units) /\ Len(<<>>) = 0
    BY EmptySeq
  <1>2. Concat(<<>>) = <<>>
    <2>1. Upto(<<>>, Len(<<>>)) = Concat(<<>>) /\ Upto(<<>>, 0) = <<>>
      BY <1>1, UptoNext
    <2> QED
      BY <1>1, <2>1
  <1>3. Tiles(<<>>)
    BY <1>1 DEF Tiles
  <1> QED
    BY <1>1, <1>2, <1>3, CreateAssumption

(* A chunk is recorded where the ones before it end.                       *)
LEMMA Emission ==
    ASSUME TypeInv, NEW f \in File, NEW bytes \in Seq(Units), Len(bytes) \in 1 .. MaxChunk
    PROVE  LET cs == Append(chunks[f], Signed(bytes, Len(Concat(chunks[f]))))
           IN  cs \in Seq(Chunk) /\ Tiles(cs) /\ Concat(cs) = Concat(chunks[f]) \o bytes
  <1> DEFINE c == Signed(bytes, Len(Concat(chunks[f])))
             os == chunks[f]
             cs == Append(os, c)
             n == Len(os)
  <1>1. os \in Seq(Chunk) /\ Tiles(os) /\ Len(Concat(os)) \in Nat /\ n \in Nat
    BY ChunkFacts
  <1>2. c \in Chunk /\ c.bytes = bytes /\ c.start = Len(Concat(os))
    BY <1>1 DEF Signed, Chunk
  <1> HIDE DEF c, os
  <1>3. /\ Concat(cs) = Concat(os) \o bytes
        /\ \A k \in 0 .. n : Upto(cs, k) = Upto(os, k)
    BY <1>1, <1>2, ConcatAppend
  <1>4. /\ cs \in Seq(Chunk) /\ Len(cs) = n + 1
        /\ \A k \in 1 .. n : cs[k] = os[k]
        /\ cs[n + 1] = c
    BY <1>1, <1>2, AppendProperties
  <1>5. Upto(os, n) = Concat(os)
    BY <1>1, UptoNext
  <1> HIDE DEF cs, n
  <1>6. ASSUME NEW k \in 1 .. Len(cs)
        PROVE  cs[k].start = Len(Upto(cs, k - 1)) /\ Len(cs[k].bytes) \in 1 .. MaxChunk
    <2>1. CASE k \in 1 .. n
      <3>1. k - 1 \in 0 .. n
        BY <1>1, <2>1
      <3>2. os[k].start = Len(Upto(os, k - 1)) /\ Len(os[k].bytes) \in 1 .. MaxChunk
        BY <1>1, <2>1 DEF Tiles, n
      <3> QED
        BY <1>3, <1>4, <2>1, <3>1, <3>2
    <2>2. CASE k = n + 1
      <3>1. k - 1 = n /\ n \in 0 .. n
        BY <1>1, <2>2
      <3>2. Upto(cs, k - 1) = Concat(os)
        BY <1>3, <1>5, <3>1
      <3> QED
        BY <1>2, <1>4, <2>2, <3>2
    <2> QED
      BY <1>1, <1>4, <2>1, <2>2
  <1>7. Tiles(cs)
    BY <1>6 DEF Tiles
  <1> QED
    BY <1>3, <1>4, <1>7 DEF cs, c, os

(* The next unit of a file that what was read so far begins.               *)
LEMMA BeginsMore ==
    ASSUME NEW w \in Seq(Units), NEW c \in Seq(Units), NEW t \in Seq(Units),
           Begins(w \o c, t), Len(w) + Len(c) < Len(t)
    PROVE  Begins(w \o Append(c, t[Len(w) + Len(c) + 1]), t)
  <1> DEFINE m == Len(w)
             n == Len(c)
             u == t[m + n + 1]
             d == Append(c, u)
             v == w \o d
             p == w \o c
  <1>1. m \in Nat /\ n \in Nat /\ Len(t) \in Nat /\ m + n < Len(t)
    BY LenProperties
  <1>2. u \in Units
    BY <1>1, ElementOfSeq
  <1> HIDE DEF u
  <1>3. d \in Seq(Units) /\ Len(d) = n + 1 /\ (\A j \in 1 .. n : d[j] = c[j]) /\ d[n + 1] = u
    BY <1>2, AppendProperties
  <1> HIDE DEF d
  <1>4. /\ Len(v) = m + Len(d)
        /\ \A j \in 1 .. m + Len(d) : v[j] = IF j <= m THEN w[j] ELSE d[j - m]
    BY <1>3, ConcatProperties
  <1>5. /\ Len(p) = m + n
        /\ \A j \in 1 .. m + n : p[j] = IF j <= m THEN w[j] ELSE c[j - m]
    BY ConcatProperties
  <1>6. \A j \in 1 .. Len(p) : p[j] = t[j]
    BY DEF Begins
  <1> HIDE DEF v, p, m, n
  <1>7. Len(v) = m + n + 1 /\ Len(v) <= Len(t)
    BY <1>1, <1>3, <1>4
  <1>8. ASSUME NEW j \in 1 .. Len(v) PROVE v[j] = t[j]
    <2>1. CASE j <= m + n
      <3>1. j \in 1 .. m + n /\ j \in 1 .. m + Len(d)
        BY <1>1, <1>3, <1>7, <2>1
      <3>2. p[j] = t[j]
        BY <1>5, <1>6, <3>1
      <3>3. v[j] = p[j]
        <4>1. CASE j <= m
          BY <1>4, <1>5, <3>1, <4>1
        <4>2. CASE j > m
          <5>1. j - m \in 1 .. n
            BY <1>1, <2>1, <4>2
          <5>2. d[j - m] = c[j - m]
            BY <1>3, <5>1
          <5>3. ~(j <= m)
            BY <1>1, <4>2
          <5> QED
            BY <1>4, <1>5, <3>1, <5>2, <5>3
        <4> QED
          BY <1>1, <4>1, <4>2
      <3> QED
        BY <3>2, <3>3
    <2>2. CASE j = m + n + 1
      <3>1. j \in 1 .. m + Len(d) /\ ~(j <= m) /\ j - m = n + 1
        BY <1>1, <1>3, <1>7, <2>2
      <3>2. v[j] = d[n + 1]
        BY <1>4, <3>1
      <3> QED
        BY <1>3, <2>2, <3>2 DEF u
    <2> QED
      BY <1>1, <1>7, <2>1, <2>2
  <1>9. Begins(v, t)
    BY <1>7, <1>8 DEF Begins
  <1> QED
    BY <1>9 DEF v, d, u, m, n

LEMMA SignOpenStep ==
    ASSUME IInv, NEW f \in File, SignOpen(f) PROVE IInv'
  <1>1. TypeInv /\ PhaseInv
    BY DEF IInv
  <1>2. chunk[f] = <<>> /\ chunks[f] = <<>> /\ pass[f] = "idle"
    BY <1>1 DEF SignOpen, PhaseInv
  <1>3. content[f] \in Seq(Units) /\ Len(content[f]) \in Nat
    BY <1>1, ChunkFacts
  <1>4. /\ chunks = [chunks EXCEPT ![f] = <<>>] /\ chunk = [chunk EXCEPT ![f] = <<>>]
    BY <1>1, <1>2 DEF TypeInv
  <1>5. Begins(Concat(<<>>) \o <<>>, content[f])
    <2>1. Concat(<<>>) \o <<>> = <<>>
      BY NoChunks, ConcatEmptySeq
    <2> QED
      BY <1>3, <2>1, NoChunks DEF Begins
  <1>6. PICK ps \in {"signing", "failed"} : pass' = [pass EXCEPT ![f] = ps]
    BY DEF SignOpen
  <1>7. PassStep(f, Len(content[f]), ps, <<>>, <<>>)
    BY <1>2, <1>3, <1>4, <1>5, <1>6, NoChunks DEF SignOpen, PassStep
  <1> QED
    BY <1>7, PassKeeps

LEMMA SignReadStep ==
    ASSUME IInv, NEW f \in File, SignRead(f) PROVE IInv'
  <1> DEFINE w == Concat(chunks[f])
             c == chunk[f]
             t == content[f]
             unit == t[BytesRead(f) + 1]
             bytes == Append(c, unit)
             cs == Append(chunks[f], Signed(bytes, Len(w)))
  <1>1. TypeInv /\ PhaseInv /\ ContentInv
    BY DEF IInv
  <1>2. /\ w \in Seq(Units) /\ c \in Seq(Units) /\ t \in Seq(Units)
        /\ chunks[f] \in Seq(Chunk) /\ Tiles(chunks[f])
        /\ Len(w) \in Nat /\ Len(c) \in Nat /\ Len(t) \in Nat /\ Len(c) < MaxChunk
        /\ size[f] \in Nat
    BY <1>1, ChunkFacts
  <1>3. BytesRead(f) = Len(w) + Len(c) /\ Len(w) + Len(c) < Len(t) /\ pass[f] = "signing"
    BY DEF SignRead, BytesRead
  <1>4. unit \in Units
    <2>1. Len(w) + Len(c) + 1 \in 1 .. Len(t)
      <3> HIDE DEF w, c, t
      <3> QED
        BY <1>2, <1>3
    <2> QED
      BY <1>2, <1>3, <2>1, ElementOfSeq
  <1>5. bytes \in Seq(Units) /\ Len(bytes) = Len(c) + 1
    BY <1>2, <1>4, AppendProperties
  <1>6. Len(bytes) \in 1 .. MaxChunk
    BY <1>2, <1>5, CreateAssumption
  <1>7. f \notin torn => Begins(w \o bytes, t)
    <2>1. SUFFICES ASSUME f \notin torn PROVE Begins(w \o bytes, t)
      OBVIOUS
    <2>2. Begins(w \o c, t)
      BY <1>1, <1>3, <2>1 DEF ContentInv
    <2> QED
      BY <1>2, <1>3, <2>2, BeginsMore
  <1>8. /\ pass = [pass EXCEPT ![f] = "signing"] /\ size = [size EXCEPT ![f] = size[f]]
        /\ changes[f] = 0 => size[f] = Len(t)
        /\ chunks = [chunks EXCEPT ![f] = chunks[f]]
    BY <1>1, <1>3 DEF TypeInv, ContentInv
  <1>9. UNCHANGED <<content, changes, torn, pass, size, whole, pc, i, data, ioErr, delta, result>>
    BY DEF SignRead
  <1>10. CASE chunks' = [chunks EXCEPT ![f] = cs] /\ chunk' = [chunk EXCEPT ![f] = <<>>]
    <2>1. cs \in Seq(Chunk) /\ Tiles(cs) /\ Concat(cs) = w \o bytes
      BY <1>1, <1>5, <1>6, Emission
    <2>2. w \o bytes \in Seq(Units)
      BY <1>2, <1>5, Joined
    <2> HIDE DEF cs, w, bytes, t, c
    <2>3. Concat(cs) \o <<>> = w \o bytes
      BY <2>1, <2>2, ConcatEmptySeq
    <2>4. PassStep(f, size[f], "signing", <<>>, cs)
      BY <1>2, <1>3, <1>7, <1>8, <1>9, <1>10, <2>1, <2>3, NoChunks DEF PassStep, t
    <2> QED
      BY <2>4, PassKeeps
  <1>11. CASE Len(bytes) # MaxChunk /\ chunk' = [chunk EXCEPT ![f] = bytes] /\ UNCHANGED chunks
    <2> HIDE DEF cs, bytes, c, t
    <2>1. Len(bytes) < MaxChunk
      BY <1>6, <1>11, CreateAssumption
    <2>2. PassStep(f, size[f], "signing", bytes, chunks[f])
      BY <1>2, <1>3, <1>5, <1>7, <1>8, <1>9, <1>11, <2>1 DEF PassStep, t
    <2> QED
      BY <2>2, PassKeeps
  <1> QED
    BY <1>10, <1>11, Zenon DEF SignRead, EmitChunk

LEMMA SignFailsStep ==
    ASSUME IInv, NEW f \in File, SignFails(f) PROVE IInv'
  <1>1. TypeInv /\ ContentInv
    BY DEF IInv
  <1>2. size[f] \in Nat
    BY <1>1, ChunkFacts
  <1>3. size = [size EXCEPT ![f] = size[f]]
    BY <1>1 DEF TypeInv
  <1>4. pass[f] = "signing" /\ (changes[f] = 0 => size[f] = Len(content[f]))
    BY <1>1 DEF SignFails, ContentInv
  <1>5. PassStep(f, size[f], "failed", <<>>, <<>>)
    BY <1>2, <1>3, <1>4, NoChunks DEF SignFails, PassStep
  <1> QED
    BY <1>5, PassKeeps

LEMMA SignEndStep ==
    ASSUME IInv, NEW f \in File, SignEnd(f) PROVE IInv'
  <1> DEFINE w == Concat(chunks[f])
             c == chunk[f]
             t == content[f]
             cs == Append(chunks[f], Signed(c, Len(w)))
  <1>1. TypeInv /\ PhaseInv /\ ContentInv
    BY DEF IInv
  <1>2. /\ w \in Seq(Units) /\ c \in Seq(Units) /\ t \in Seq(Units)
        /\ chunks[f] \in Seq(Chunk) /\ Tiles(chunks[f])
        /\ Len(w) \in Nat /\ Len(c) \in Nat /\ Len(t) \in Nat /\ Len(c) < MaxChunk
        /\ size[f] \in Nat
    BY <1>1, ChunkFacts
  <1>3. BytesRead(f) = Len(w) + Len(c) /\ Len(w) + Len(c) >= Len(t) /\ pass[f] = "signing"
    BY DEF SignEnd, BytesRead
  <1>4. w \o c \in Seq(Units) /\ Len(w \o c) = Len(w) + Len(c)
    BY <1>2, Joined
  <1>5. f \notin torn => w \o c = t
    <2>1. SUFFICES ASSUME f \notin torn PROVE w \o c = t
      OBVIOUS
    <2>2. Begins(w \o c, t)
      BY <1>1, <1>3, <2>1 DEF ContentInv
    <2> HIDE DEF w, c, t
    <2> DEFINE p == w \o c
    <2>3. p \in Seq(Units) /\ Len(p) = Len(t) /\ \A j \in 1 .. Len(p) : p[j] = t[j]
      BY <1>2, <1>3, <1>4, <2>2 DEF Begins
    <2> HIDE DEF p
    <2>4. p = t
      BY <1>2, <2>3, SeqEqual
    <2> QED
      BY <2>4 DEF p
  <1>6. /\ size = [size EXCEPT ![f] = size[f]]
        /\ changes[f] = 0 => size[f] = Len(t)
        /\ chunks = [chunks EXCEPT ![f] = chunks[f]]
    BY <1>1, <1>3 DEF TypeInv, ContentInv
  <1>7. /\ UNCHANGED <<content, changes, torn, size, whole, pc, i, data, ioErr, delta, result>>
        /\ chunk' = [chunk EXCEPT ![f] = <<>>]
    BY DEF SignEnd
  <1>8. CASE pass' = [pass EXCEPT ![f] = "signed"] /\ c = <<>> /\ UNCHANGED chunks
    <2>1. w \o c = w
      BY <1>2, <1>8, ConcatEmptySeq
    <2> HIDE DEF c
    <2>2. PassStep(f, size[f], "signed", <<>>, chunks[f])
      BY <1>2, <1>3, <1>5, <1>6, <1>7, <1>8, <2>1, NoChunks DEF PassStep
    <2> QED
      BY <2>2, PassKeeps
  <1>9. CASE pass' = [pass EXCEPT ![f] = "signed"] /\ c # <<>>
             /\ chunks' = [chunks EXCEPT ![f] = cs]
    <2>1. Len(c) \in 1 .. MaxChunk
      <3>1. Len(c) # 0
        BY <1>2, <1>9, EmptySeq
      <3> QED
        BY <1>2, <3>1, CreateAssumption
    <2>2. cs \in Seq(Chunk) /\ Tiles(cs) /\ Concat(cs) = w \o c
      BY <1>1, <1>2, <2>1, Emission
    <2> HIDE DEF cs, c, w
    <2>3. PassStep(f, size[f], "signed", <<>>, cs)
      BY <1>2, <1>3, <1>5, <1>6, <1>7, <1>9, <2>2, NoChunks DEF PassStep
    <2> QED
      BY <2>3, PassKeeps
  <1>10. CASE pass' = [pass EXCEPT ![f] = "failed"] /\ chunks' = [chunks EXCEPT ![f] = <<>>]
    <2>1. PassStep(f, size[f], "failed", <<>>, <<>>)
      BY <1>2, <1>3, <1>6, <1>7, <1>10, NoChunks DEF PassStep
    <2> QED
      BY <2>1, PassKeeps
  <1> QED
    BY <1>8, <1>9, <1>10, Zenon DEF SignEnd, EmitChunk

(* Another program changes an input.                                       *)
LEMMA ChangeStep ==
    ASSUME IInv, NEW f \in File, Change(f) PROVE IInv'
  <1> USE DEF signing, delta
  <1>1. TypeInv /\ PhaseInv /\ ContentInv /\ VerifyInv /\ RecordInv /\ TrailerInv
    BY DEF IInv
  <1>2. /\ changes' = [changes EXCEPT ![f] = @ + 1] /\ pc # "done"
        /\ UNCHANGED <<pass, chunk, chunks, whole, size, pc, i, data, ioErr, records, trailer,
                       result>>
        /\ torn' = IF pass[f] = "signing" THEN torn \cup {f} ELSE torn
    BY DEF Change
  <1>3. PICK c \in Contents[f] : content' = [content EXCEPT ![f] = c]
    BY DEF Change
  <1>4. c \in Seq(Units)
    <2>1. c \in Seq(Unit)
      BY CreateAssumption
    <2> QED
      BY <2>1, SeqMonotonic DEF Units
  <1>5. /\ content \in [File -> Seq(Units)] /\ changes \in [File -> Nat] /\ torn \subseteq File
    BY <1>1 DEF TypeInv
  <1>6. /\ changes'[f] = changes[f] + 1 /\ changes[f] \in Nat
        /\ \A g \in File \ {f} : content'[g] = content[g] /\ changes'[g] = changes[g]
                                 /\ (g \in torn' <=> g \in torn)
        /\ torn \subseteq torn'
    BY <1>2, <1>3, <1>5
  <1>7. TypeInv'
    <2>1. content' \in [File -> Seq(Units)] /\ changes' \in [File -> Nat] /\ torn' \subseteq File
      BY <1>2, <1>3, <1>4, <1>5
    <2> QED
      BY <1>1, <1>2, <2>1 DEF TypeInv
  <1>8. PhaseInv'
    BY <1>1, <1>2 DEF PhaseInv, Writing
  <1>9. ContentInv'
    <2>1. ASSUME NEW g \in File
          PROVE  /\ changes'[g] = 0 => /\ content'[g] = Initial[g] /\ g \notin torn'
                                       /\ pass'[g] # "idle" => size'[g] = Len(content'[g])
                 /\ pass'[g] = "signing" /\ g \notin torn'
                    => Begins(Concat(chunks'[g]) \o chunk'[g], content'[g])
                 /\ pass'[g] = "signed" /\ g \notin torn' /\ changes'[g] <= 1
                    => Concat(chunks'[g]) \in {Initial[g], content'[g]}
      <3>1. CASE g # f
        BY <1>1, <1>2, <1>6, <3>1 DEF ContentInv
      <3>2. CASE g = f
        <4>1. changes'[f] # 0 /\ (changes'[f] <= 1 => changes[f] = 0)
          BY <1>6
        <4>2. pass[f] = "signing" => f \in torn'
          BY <1>2
        <4>3. pass[f] = "signed" /\ f \notin torn' /\ changes'[f] <= 1
              => Concat(chunks[f]) = Initial[f]
          BY <1>1, <1>6, <4>1 DEF ContentInv
        <4> QED
          BY <1>2, <3>2, <4>1, <4>2, <4>3
      <3> QED
        BY <3>1, <3>2
    <2> QED
      BY <2>1 DEF ContentInv
  <1>10. VerifyInv'
    <2>1. CASE f = "new"
      <3>1. /\ content'["old"] = content["old"] /\ changes'["old"] = changes["old"]
            /\ "old" \in torn' <=> "old" \in torn
        BY <1>6, <2>1, FileNames
      <3> QED
        BY <1>1, <1>2, <3>1 DEF VerifyInv, Verified, Bytes, ReadAt
    <2>2. CASE f = "old"
      <3>1. SUFFICES ASSUME changes'["old"] <= 1, "old" \in torn'
                     PROVE  pc' # "verify" /\ ~Verified'
        BY DEF VerifyInv
      <3>2. changes["old"] = 0
        BY <1>6, <2>2, <3>1
      <3>3. "old" \notin torn
        BY <1>1, <2>2, <3>2 DEF ContentInv
      <3>4. pass["old"] = "signing"
        BY <1>2, <2>2, <3>1, <3>3
      <3>5. pc \in {"sign", "done"} /\ ~Verified
        BY <1>1, <2>2, <3>4, PassUnderWay
      <3> QED
        BY <1>2, <3>5 DEF Verified
    <2> QED
      BY <2>1, <2>2 DEF File
  <1>11. RecordInv'
    <2>1. SUFFICES ASSUME Writing PROVE \A k \in 1 .. Len(records) : RecordGood(k)'
      BY <1>1, <1>2 DEF RecordInv, Writing
    <2>2. SUFFICES ASSUME NEW k \in 1 .. Len(records) PROVE RecordGood(k)'
      OBVIOUS
    <2>3. RecordGood(k)
      BY <1>1, <2>1 DEF RecordInv
    <2>4. CASE f = "new"
      <3>1. content'["old"] = content["old"] /\ changes'["old"] = changes["old"]
        BY <1>6, <2>4, FileNames
      <3> QED
        BY <1>2, <2>3, <3>1 DEF RecordGood, Yields, Verified, Bytes, ReadAt
    <2>5. CASE f = "old"
      <3>1. pass["old"] = "signed"
        BY <1>1, <2>1, FileNames DEF PhaseInv, Writing
      <3>2. changes'["old"] <= 1 => changes["old"] = 0
        BY <1>6, <2>5
      <3>3. changes["old"] = 0 => Concat(chunks["old"]) = content["old"]
        BY <1>1, <2>5, <3>1 DEF ContentInv
      <3>4. changes["old"] = 0 => \A j \in 1 .. Len(chunks["old"]) :
                  Bytes("old", chunks["old"][j]) = chunks["old"][j].bytes
        BY <1>1, <3>3, FileNames, ReadsAsSigned
      <3>5. changes["old"] = 0 /\ records[k].type = "MODIFIED"
            => records[k].base = chunks["old"][k].bytes
        BY <2>3, <3>4 DEF RecordGood, Yields
      <3> QED
        BY <1>2, <2>3, <3>2, <3>5 DEF RecordGood, Yields
    <2> QED
      BY <2>4, <2>5 DEF File
  <1>12. TrailerInv' /\ NoFalseAlarm'
    BY <1>1, <1>2 DEF TrailerInv, NoFalseAlarm, PhaseInv
  <1> QED
    BY <1>7, <1>8, <1>9, <1>10, <1>11, <1>12 DEF IInv

-----------------------------------------------------------------------------
(* The main thread.                                                        *)

(* What a step of the main thread leaves alone, and the types it keeps.    *)
MainTyped ==
    /\ UNCHANGED <<content, changes, torn, pass, chunk, chunks, whole>>
    /\ size' \in [File -> Nat] /\ pc' \in Phases /\ i' \in Nat \ {0} /\ result' \in Results
    /\ ioErr' \in BOOLEAN /\ data' \in Seq(Units) /\ trailer' \in Seq(Units)
    /\ records' \in Seq(RecordType)

LEMMA TypeKept ==
    ASSUME TypeInv, MainTyped PROVE TypeInv'
  BY DEF TypeInv, MainTyped

LEMMA ContentKept ==
    ASSUME ContentInv, MainTyped, UNCHANGED size PROVE ContentInv'
  BY DEF ContentInv, MainTyped

(* create gives up.                                                        *)
LEMMA FailStep ==
    ASSUME IInv, NEW error \in Results \ {"none", "ok"}, Fail(error), UNCHANGED size,
           UNCHANGED <<content, changes, torn, signing>>,
           ioErr' \in BOOLEAN, data' \in Seq(Units), trailer' \in Seq(Units),
           records' \in Seq(RecordType),
           error = "integrity_mismatch" => ioErr' \/ \E f \in File : changes[f] > 0
    PROVE  IInv'
  <1> USE DEF signing
  <1>1. TypeInv /\ PhaseInv /\ ContentInv
    BY DEF IInv
  <1>2. pc' = "done" /\ result' = error /\ i' = 1 /\ error # "ok" /\ error # "none"
    BY DEF Fail
  <1>3. MainTyped
    <2>1. i' \in Nat \ {0} /\ pc' \in Phases /\ result' \in Results
      BY <1>2 DEF Phases
    <2>2. size' \in [File -> Nat]
      BY <1>1 DEF TypeInv
    <2> QED
      BY <2>1, <2>2 DEF MainTyped
  <1>4. TypeInv' /\ ContentInv'
    BY <1>1, <1>3, TypeKept, ContentKept
  <1>5. PhaseInv'
    BY <1>1, <1>2 DEF PhaseInv, Writing
  <1>6. VerifyInv' /\ RecordInv' /\ TrailerInv'
    BY <1>2 DEF VerifyInv, RecordInv, TrailerInv, Writing, Verified
  <1>7. NoFalseAlarm'
    BY <1>2 DEF NoFalseAlarm
  <1> QED
    BY <1>4, <1>5, <1>6, <1>7 DEF IInv

LEMMA JoinStep ==
    ASSUME IInv, Join PROVE IInv'
  <1> USE DEF signing, delta
  <1>1. TypeInv /\ PhaseInv /\ ContentInv /\ TrailerInv /\ NoFalseAlarm
    BY DEF IInv
  <1>2. /\ UNCHANGED <<content, changes, torn, pass, chunk, chunks, whole, size, data, ioErr,
                       records, trailer>>
        /\ pc = "sign"
    BY DEF Join
  <1>3. data \in Seq(Units) /\ trailer \in Seq(Units) /\ records \in Seq(RecordType)
        /\ ioErr \in BOOLEAN /\ size \in [File -> Nat]
    BY <1>1 DEF TypeInv
  <1>4. CASE Fail("unreadable")
    <2>1. "unreadable" \in Results \ {"none", "ok"}
      BY DEF Results
    <2> QED
      BY <1>2, <1>3, <1>4, <2>1, FailStep
  <1>5. CASE /\ \A f \in File : pass[f] # "failed"
             /\ Goto("sign", "open old", 1) /\ UNCHANGED result
    <2>1. pc' = "open old" /\ i' = 1 /\ result' = result
      BY <1>5 DEF Goto
    <2>2. \A f \in File : pass[f] = "signed"
      BY <1>5 DEF Join
    <2>3. MainTyped
      <3>1. pc' \in Phases
        BY <2>1 DEF Phases
      <3>2. i' \in Nat \ {0}
        <4>1. i' = 1
          BY <2>1
        <4> QED
          BY <4>1
      <3>3. result' \in Results
        BY <1>1, <2>1 DEF TypeInv
      <3> QED
        BY <1>2, <1>3, <3>1, <3>2, <3>3 DEF MainTyped
    <2>4. TypeInv' /\ ContentInv'
      BY <1>1, <1>2, <2>3, TypeKept, ContentKept
    <2>5. result = "none"
      BY <1>1, <1>2 DEF PhaseInv
    <2>6. PhaseInv'
      BY <1>1, <1>2, <2>1, <2>2, <2>5 DEF PhaseInv, Writing
    <2>7. VerifyInv' /\ RecordInv' /\ TrailerInv' /\ NoFalseAlarm'
      BY <1>1, <1>2, <2>1, <2>5
      DEF VerifyInv, RecordInv, TrailerInv, Writing, Verified, NoFalseAlarm
    <2> QED
      BY <2>4, <2>6, <2>7 DEF IInv
  <1> QED
    BY <1>4, <1>5 DEF Join

LEMMA OpenInputStep ==
    ASSUME IInv, NEW f \in File, OpenInput(f) PROVE IInv'
  <1> USE DEF signing, delta
  <1>1. TypeInv /\ PhaseInv /\ ContentInv /\ TrailerInv /\ NoFalseAlarm
    BY DEF IInv
  <1>2. /\ UNCHANGED <<content, changes, torn, pass, chunk, chunks, whole, data, ioErr,
                       records, trailer, result>>
        /\ size' = [size EXCEPT ![f] = Len(content[f])]
        /\ pc \in {"open old", "open new"} /\ pc' \in {"open new", "cover"} /\ i' = 1
    BY DEF OpenInput, Goto
  <1>3. size \in [File -> Nat] /\ Len(content[f]) \in Nat
    BY <1>1, ChunkFacts DEF TypeInv
  <1>4. MainTyped
    <2>1. size' \in [File -> Nat]
      BY <1>2, <1>3
    <2>2. pc' \in Phases
      BY <1>2 DEF Phases
    <2>3. i' \in Nat \ {0}
      <3>1. i' = 1
        BY <1>2
      <3> QED
        BY <3>1
    <2>4. /\ data' \in Seq(Units) /\ trailer' \in Seq(Units) /\ records' \in Seq(RecordType)
          /\ ioErr' \in BOOLEAN /\ result' \in Results
      BY <1>1, <1>2 DEF TypeInv
    <2> QED
      BY <1>2, <2>1, <2>2, <2>3, <2>4 DEF MainTyped
  <1>5. TypeInv'
    BY <1>1, <1>4, TypeKept
  <1>6. ContentInv'
    <2>1. \A g \in File : size'[g] = IF g = f THEN Len(content[f]) ELSE size[g]
      BY <1>2, <1>3
    <2> QED
      BY <1>1, <1>2, <2>1 DEF ContentInv
  <1>7. result = "none"
    BY <1>1, <1>2 DEF PhaseInv
  <1>8. PhaseInv'
    BY <1>1, <1>2, <1>7 DEF PhaseInv, Writing
  <1>9. VerifyInv' /\ RecordInv' /\ TrailerInv' /\ NoFalseAlarm'
    BY <1>1, <1>2, <1>7
    DEF VerifyInv, RecordInv, TrailerInv, Writing, Verified, NoFalseAlarm
  <1> QED
    BY <1>5, <1>6, <1>8, <1>9 DEF IInv

(* An input that has not changed is what its signature says.               *)
LEMMA Unchanged ==
    ASSUME TypeInv, ContentInv, NEW f \in File, pass[f] = "signed", changes[f] = 0
    PROVE  /\ Concat(chunks[f]) = content[f] /\ size[f] = Len(content[f])
           /\ \A k \in 1 .. Len(chunks[f]) : Bytes(f, chunks[f][k]) = chunks[f][k].bytes
           /\ ReadAt(f, size[f], 1) = <<>>
  <1>1. Concat(chunks[f]) = content[f] /\ size[f] = Len(content[f])
    BY DEF ContentInv
  <1> QED
    BY <1>1, ReadsAsSigned

LEMMA CoverStep ==
    ASSUME IInv, Cover PROVE IInv'
  <1> USE DEF signing, delta
  <1>1. TypeInv /\ PhaseInv /\ ContentInv /\ TrailerInv /\ NoFalseAlarm
    BY DEF IInv
  <1>2. /\ UNCHANGED <<content, changes, torn, pass, chunk, chunks, whole, size, data, ioErr,
                       records, trailer>>
        /\ pc = "cover"
    BY DEF Cover
  <1>3. data \in Seq(Units) /\ trailer \in Seq(Units) /\ records \in Seq(RecordType)
        /\ ioErr \in BOOLEAN /\ size \in [File -> Nat]
    BY <1>1 DEF TypeInv
  <1>4. \A f \in File : pass[f] = "signed"
    BY <1>1, <1>2 DEF PhaseInv
  <1>5. CASE \A f \in File : CoversExactly(chunks[f], size[f])
    <2>1. pc' = "records" /\ i' = 1 /\ result' = result
      BY <1>5 DEF Cover, Goto
    <2>2. \A f \in File : size[f] = Len(Concat(chunks[f]))
      BY <1>5 DEF CoversExactly
    <2>3. MainTyped
      BY <1>1, <1>2, <1>3, <2>1 DEF MainTyped, Phases, TypeInv
    <2>4. TypeInv' /\ ContentInv'
      BY <1>1, <1>2, <2>3, TypeKept, ContentKept
    <2>5. result = "none" /\ records = <<>> /\ trailer = <<>>
      BY <1>1, <1>2 DEF PhaseInv, TrailerInv
    <2>6. Len(chunks["new"]) \in Nat
      BY <1>1, FileNames, ChunkFacts
    <2>7. PhaseInv'
      BY <1>1, <1>2, <1>4, <2>1, <2>2, <2>5, <2>6 DEF PhaseInv, Writing
    <2>8. Len(<<>>) = 0
      BY EmptySeq
    <2>9. RecordInv'
      BY <1>2, <2>1, <2>5, <2>8 DEF RecordInv
    <2>10. VerifyInv' /\ TrailerInv' /\ NoFalseAlarm'
      BY <1>1, <1>2, <2>1, <2>5
      DEF VerifyInv, TrailerInv, Writing, Verified, NoFalseAlarm
    <2> QED
      BY <2>4, <2>7, <2>9, <2>10 DEF IInv
  <1>6. CASE ~(\A f \in File : CoversExactly(chunks[f], size[f]))
    <2>1. Fail("integrity_mismatch")
      BY <1>6 DEF Cover
    <2>2. \E f \in File : changes[f] > 0
      <3>1. PICK f \in File : ~CoversExactly(chunks[f], size[f])
        BY <1>6
      <3>2. changes[f] # 0
        <4>1. SUFFICES ASSUME changes[f] = 0 PROVE FALSE
          OBVIOUS
        <4>2. Concat(chunks[f]) = content[f] /\ size[f] = Len(content[f]) /\ Tiles(chunks[f])
          BY <1>1, <1>4, <4>1, Unchanged, ChunkFacts
        <4> QED
          BY <3>1, <4>2 DEF CoversExactly, Tiles, Upto
      <3> QED
        BY <1>1, <3>2 DEF TypeInv
    <2>3. "integrity_mismatch" \in Results \ {"none", "ok"}
      BY DEF Results
    <2> QED
      BY <1>2, <1>3, <2>1, <2>2, <2>3, FailStep
  <1> QED
    BY <1>5, <1>6

(* One more record, the one of the new chunk under way.                    *)
LEMMA RecordAdded ==
    ASSUME IInv, pc \in {"records", "base"}, i <= Len(chunks["new"]),
           NEW r \in RecordType, Yields(r, i), records' = Append(records, r),
           pc' = "records", i' = i + 1, data' \in Seq(Units),
           UNCHANGED <<content, changes, torn, signing, size, ioErr, trailer, result>>
    PROVE  IInv'
  <1> USE DEF signing
  <1>1. TypeInv /\ PhaseInv /\ ContentInv /\ RecordInv /\ TrailerInv /\ NoFalseAlarm
    BY DEF IInv
  <1>2. UNCHANGED <<content, changes, torn, pass, chunk, chunks, whole, size, ioErr, trailer,
                    result>>
    OBVIOUS
  <1>3. /\ Len(chunks["new"]) \in Nat /\ i \in Nat /\ records \in Seq(RecordType)
        /\ \A k \in 1 .. Len(chunks["new"]) : k \in Nat
    BY SMTT(60), <1>1, FileNames, ChunkFacts DEF TypeInv
  <1>4. result = "none" /\ Writing /\ ~Verified
    BY <1>1 DEF PhaseInv, Writing, Verified
  <1>5. /\ records' \in Seq(RecordType) /\ Len(records') = Len(records) + 1
        /\ \A k \in 1 .. Len(records) : records'[k] = records[k]
        /\ records'[Len(records) + 1] = r
    BY <1>3, AppendProperties
  <1>6. Len(records) = i - 1
    BY <1>1, <1>4 DEF RecordInv
  <1>7. MainTyped
    <2>1. pc' \in Phases
      BY DEF Phases
    <2>2. i' \in Nat \ {0}
      BY <1>3
    <2>3. /\ trailer' \in Seq(Units) /\ ioErr' \in BOOLEAN /\ result' \in Results
          /\ size' \in [File -> Nat]
      BY <1>1, <1>2 DEF TypeInv
    <2> QED
      BY <1>2, <1>5, <2>1, <2>2, <2>3 DEF MainTyped
  <1>8. TypeInv' /\ ContentInv'
    BY <1>1, <1>2, <1>7, TypeKept, ContentKept
  <1>9. PhaseInv'
    <2>1. i' <= Len(chunks'["new"]) + 1
      BY <1>2, <1>3
    <2>2. /\ \A f \in File : pass'[f] = "signed"
          /\ \A f \in File : size'[f] = Len(Concat(chunks'[f]))
          /\ \A f \in File : /\ pass'[f] # "signing" => chunk'[f] = <<>>
                             /\ pass'[f] = "idle" => chunks'[f] = <<>>
      BY <1>1, <1>2, <1>4 DEF PhaseInv
    <2> QED
      BY <1>2, <1>4, <2>1, <2>2 DEF PhaseInv
  <1>10. RecordInv'
    <2>1. Len(records') = i' - 1
      BY <1>3, <1>5, <1>6
    <2>2. ~Verified'
      BY <1>2, <1>4 DEF Verified
    <2>3. ASSUME NEW k \in 1 .. Len(records') PROVE RecordGood(k)'
      <3>1. CASE k \in 1 .. Len(records)
        <4>1. RecordGood(k)
          BY <1>1, <1>4, <3>1 DEF RecordInv
        <4> QED
          BY <1>2, <1>4, <1>5, <2>2, <3>1, <4>1 DEF RecordGood, Yields, Bytes, ReadAt
      <3>2. CASE k = i
        <4>1. records'[k] = r
          BY <1>3, <1>5, <1>6, <3>2
        <4> QED
          BY <1>2, <1>4, <2>2, <3>2, <4>1 DEF RecordGood, Yields, Bytes, ReadAt
      <3> QED
        BY <1>3, <1>5, <1>6, <3>1, <3>2
    <2> QED
      BY <2>1, <2>3 DEF RecordInv
  <1>11. VerifyInv' /\ TrailerInv' /\ NoFalseAlarm'
    BY <1>1, <1>2, <1>4 DEF VerifyInv, Verified, TrailerInv, NoFalseAlarm
  <1> QED
    BY <1>8, <1>9, <1>10, <1>11 DEF IInv

(* The old chunk that is reused is there, and has the content.             *)
LEMMA SourceFound ==
    ASSUME TypeInv, NEW k, Sources(k) # {}
    PROVE  Source(k) \in Sources(k)
  <1>1. Len(chunks["old"]) \in Nat
    BY FileNames, ChunkFacts
  <1>2. Sources(k) \in SUBSET Nat
    BY <1>1 DEF Sources
  <1> HIDE DEF Sources
  <1>3. \E j \in Sources(k) : \A l \in Sources(k) : j <= l
    BY <1>2, Least
  <1> QED
    BY <1>3 DEF Source

LEMMA ReuseStep ==
    ASSUME IInv, Reuse PROVE IInv'
  <1> DEFINE r == [type |-> "ORIGINAL", source |-> Source(i), hash |-> chunks["new"][i].bytes]
  <1>1. TypeInv /\ PhaseInv
    BY DEF IInv
  <1>2. i \in 1 .. Len(chunks["new"]) /\ Len(chunks["old"]) \in Nat
    <2>1. i \in Nat \ {0} /\ i <= Len(chunks["new"])
      BY <1>1 DEF Reuse, TypeInv
    <2> QED
      BY <1>1, <2>1, FileNames, ChunkFacts
  <1>3. chunks["new"][i].bytes \in Seq(Units)
    BY <1>1, <1>2, FileNames, ChunkFacts, UptoNext
  <1>4. Source(i) \in Sources(i)
    BY <1>1, SourceFound DEF Reuse
  <1>5. /\ Source(i) \in 1 .. Len(chunks["old"])
        /\ chunks["old"][Source(i)].bytes = chunks["new"][i].bytes
    BY <1>4 DEF Sources, SameContent
  <1>6. Source(i) \in Nat
    BY <1>2, <1>5
  <1>7. r \in RecordType
    BY <1>3, <1>6 DEF RecordType
  <1>8. Yields(r, i)
    BY <1>5 DEF Yields
  <1>9. data' \in Seq(Units)
    BY <1>1 DEF Reuse, TypeInv
  <1>10. /\ pc \in {"records", "base"} /\ pc' = "records" /\ i' = i + 1 /\ i <= Len(chunks["new"])
         /\ records' = Append(records, r)
         /\ UNCHANGED <<content, changes, torn, signing, size, ioErr, trailer, result>>
    BY DEF Reuse, Goto, Record
  <1> HIDE DEF r
  <1> QED
    BY <1>7, <1>8, <1>9, <1>10, RecordAdded, Zenon

(* readSignedChunk() that gives up: it blames the input only when the      *)
(* bytes are others than those that were signed.                           *)
ReadFailed(f, k) ==
    /\ data' = data
    /\ \E error \in {"integrity_mismatch", "io_error"} :
          /\ Fail(error)
          /\ error = "integrity_mismatch" => Bytes(f, chunks[f][k]) # chunks[f][k].bytes
    /\ ioErr' = ioErr \/ ioErr' = TRUE

LEMMA ReadFailedStep ==
    ASSUME IInv, Writing, NEW f \in File, NEW k \in 1 .. Len(chunks[f]), ReadFailed(f, k),
           UNCHANGED <<content, changes, torn, signing, size, delta>>
    PROVE  IInv'
  <1> USE DEF signing, delta
  <1>1. TypeInv /\ PhaseInv /\ ContentInv
    BY DEF IInv
  <1>2. pass[f] = "signed"
    BY <1>1 DEF PhaseInv, Writing
  <1>3. PICK error \in {"integrity_mismatch", "io_error"} :
            /\ Fail(error)
            /\ error = "integrity_mismatch" => Bytes(f, chunks[f][k]) # chunks[f][k].bytes
    BY DEF ReadFailed
  <1>4. error \in Results \ {"none", "ok"}
    BY DEF Results
  <1>5. ioErr' \in BOOLEAN
    BY <1>1, Zenon DEF ReadFailed, TypeInv
  <1>6. /\ data' \in Seq(Units) /\ trailer' \in Seq(Units) /\ records' \in Seq(RecordType)
    BY <1>1 DEF ReadFailed, TypeInv
  <1>7. error = "integrity_mismatch" => ioErr' \/ \E g \in File : changes[g] > 0
    <2>1. Bytes(f, chunks[f][k]) # chunks[f][k].bytes => changes[f] # 0
      BY <1>1, <1>2, Unchanged
    <2>2. changes[f] \in Nat
      BY <1>1, ChunkFacts
    <2>3. changes[f] # 0 => changes[f] > 0
      BY <2>2
    <2> QED
      BY <1>3, <2>1, <2>3, Zenon
  <1> QED
    BY <1>3, <1>4, <1>5, <1>6, <1>7, FailStep

LEMMA ReadNewStep ==
    ASSUME IInv, ReadNew PROVE IInv'
  <1> USE DEF signing, delta
  <1> DEFINE bytes == Bytes("new", chunks["new"][i])
  <1>1. TypeInv /\ PhaseInv /\ ContentInv /\ RecordInv /\ TrailerInv /\ NoFalseAlarm
    BY DEF IInv
  <1>2. /\ UNCHANGED <<content, changes, torn, pass, chunk, chunks, whole, size, records, trailer>>
        /\ pc = "records" /\ i <= Len(chunks["new"])
    BY DEF ReadNew
  <1>3. i \in 1 .. Len(chunks["new"]) /\ Len(chunks["new"]) \in Nat /\ i \in Nat \ {0}
    BY <1>1, <1>2, FileNames, ChunkFacts DEF TypeInv
  <1>4. Writing /\ result = "none"
    BY <1>1, <1>2 DEF Writing, PhaseInv
  <1>5. \/ /\ bytes = chunks["new"][i].bytes
           /\ data' = bytes /\ Goto("records", "base", i)
           /\ UNCHANGED <<ioErr, result>>
        \/ ReadFailed("new", i)
    BY Zenon DEF ReadNew, ReadSigned, ReadFailed
  <1>6. CASE ReadFailed("new", i)
    BY <1>2, <1>3, <1>4, <1>6, FileNames, ReadFailedStep
  <1>7. CASE /\ bytes = chunks["new"][i].bytes
             /\ data' = bytes /\ Goto("records", "base", i)
             /\ UNCHANGED <<ioErr, result>>
    <2>1. /\ data' = chunks["new"][i].bytes /\ pc' = "base" /\ i' = i
          /\ ioErr' = ioErr /\ result' = result
      BY <1>7 DEF Goto
    <2>2. data' \in Seq(Units)
      BY <1>1, <1>3, <2>1, FileNames, ChunkFacts, UptoNext
    <2>3. MainTyped
      <3>1. pc' \in Phases
        BY <2>1 DEF Phases
      <3>2. /\ trailer' \in Seq(Units) /\ ioErr' \in BOOLEAN /\ result' \in Results
            /\ size' \in [File -> Nat] /\ records' \in Seq(RecordType)
        BY <1>1, <1>2, <2>1 DEF TypeInv
      <3>3. i' \in Nat \ {0}
        BY <1>3, <2>1
      <3> QED
        BY <1>2, <2>2, <3>1, <3>2, <3>3 DEF MainTyped
    <2>4. TypeInv' /\ ContentInv'
      BY <1>1, <1>2, <2>3, TypeKept, ContentKept
    <2>5. PhaseInv'
      BY <1>1, <1>2, <1>3, <1>4, <2>1 DEF PhaseInv, Writing
    <2>6. RecordInv'
      <3>1. Len(records') = i' - 1
        BY <1>1, <1>2, <1>4, <2>1 DEF RecordInv
      <3>2. \A k \in 1 .. Len(records) : RecordGood(k)
        BY <1>1, <1>4 DEF RecordInv
      <3>3. ~Verified /\ ~Verified'
        BY <1>2, <1>4, <2>1 DEF Verified
      <3>4. \A k \in 1 .. Len(records') : RecordGood(k)'
        BY <1>2, <2>1, <3>2, <3>3 DEF RecordGood, Yields, Bytes, ReadAt
      <3> QED
        BY <1>2, <2>1, <3>1, <3>4 DEF RecordInv
    <2>7. VerifyInv' /\ TrailerInv' /\ NoFalseAlarm'
      BY <1>1, <1>2, <1>4, <2>1 DEF VerifyInv, Verified, TrailerInv, NoFalseAlarm
    <2> QED
      BY <2>4, <2>5, <2>6, <2>7 DEF IInv
  <1> QED
    BY <1>5, <1>6, <1>7, Zenon

LEMMA ReadBaseStep ==
    ASSUME IInv, ReadBase PROVE IInv'
  <1> USE DEF signing, delta
  <1> DEFINE base == Bytes("old", chunks["old"][i])
             added == Added(i, data)
             modified == [type |-> "MODIFIED", source |-> i, base |-> base,
                          target |-> data, hash |-> chunks["new"][i].bytes]
  <1>1. TypeInv /\ PhaseInv /\ RecordInv
    BY DEF IInv
  <1>2. /\ UNCHANGED <<content, changes, torn, signing, size, trailer>>
        /\ pc = "base" /\ data' = <<>>
    BY DEF ReadBase
  <1>3. i <= Len(chunks["new"]) /\ Writing /\ ~Verified
    BY <1>1, <1>2 DEF PhaseInv, Writing, Verified
  <1>4. data = chunks["new"][i].bytes /\ data \in Seq(Units)
    BY <1>1, <1>2, <1>3 DEF RecordInv, TypeInv
  <1>5. i \in Nat \ {0} /\ Len(chunks["old"]) \in Nat
    BY <1>1, FileNames, ChunkFacts DEF TypeInv
  <1>6. data' \in Seq(Units)
    BY <1>2, EmptySeq
  <1>7. \/ /\ records' = Append(records, added)
           /\ Goto("base", "records", i + 1) /\ UNCHANGED <<ioErr, result>>
        \/ /\ i <= Len(chunks["old"]) /\ records' = Append(records, modified)
           /\ Goto("base", "records", i + 1) /\ UNCHANGED <<ioErr, result>>
        \/ Fail("io_error") /\ (ioErr' = ioErr \/ ioErr' = TRUE) /\ UNCHANGED records
    <2>1. CASE i > Len(chunks["old"])
      BY <2>1, Zenon DEF ReadBase, Record
    <2>2. CASE ~(i > Len(chunks["old"]))
      <3>1. i <= Len(chunks["old"])
        BY <1>5, <2>2
      <3> QED
        BY <2>2, <3>1, Zenon DEF ReadBase, Record
    <2> QED
      BY <2>1, <2>2, Zenon
  <1>8. CASE /\ records' = Append(records, added)
             /\ Goto("base", "records", i + 1) /\ UNCHANGED <<ioErr, result>>
    <2>1. added \in RecordType
      BY <1>4 DEF Added, RecordType
    <2>2. Yields(added, i)
      BY <1>4 DEF Added, Yields
    <2>3. pc \in {"records", "base"} /\ pc' = "records" /\ i' = i + 1
      BY <1>2, <1>8 DEF Goto
    <2> HIDE DEF added
    <2> QED
      BY <1>2, <1>3, <1>6, <1>8, <2>1, <2>2, <2>3, RecordAdded, Zenon
  <1>9. CASE /\ i <= Len(chunks["old"]) /\ records' = Append(records, modified)
             /\ Goto("base", "records", i + 1) /\ UNCHANGED <<ioErr, result>>
    <2>1. i \in 1 .. Len(chunks["old"])
      BY <1>5, <1>9
    <2>2. base \in Seq(Units)
      BY <1>1, <2>1, FileNames, BytesIs
    <2>3. modified \in RecordType
      BY <1>4, <1>5, <2>2 DEF RecordType
    <2>4. Yields(modified, i)
      <3>1. ~(pc = "verify" /\ i < i)
        BY <1>5
      <3> QED
        BY <1>3, <1>4, <2>1, <3>1 DEF Yields
    <2>5. pc \in {"records", "base"} /\ pc' = "records" /\ i' = i + 1
      BY <1>2, <1>9 DEF Goto
    <2> HIDE DEF modified
    <2> QED
      BY <1>2, <1>3, <1>6, <1>9, <2>3, <2>4, <2>5, RecordAdded, Zenon
  <1>10. CASE Fail("io_error") /\ (ioErr' = ioErr \/ ioErr' = TRUE) /\ UNCHANGED records
    <2>1. "io_error" \in Results \ {"none", "ok"}
      BY DEF Results
    <2>2. ioErr' \in BOOLEAN
      BY <1>1, <1>10, Zenon DEF TypeInv
    <2>3. trailer' \in Seq(Units) /\ records' \in Seq(RecordType)
      BY <1>1, <1>2, <1>10 DEF TypeInv
    <2> QED
      BY <1>2, <1>6, <1>10, <2>1, <2>2, <2>3, FailStep
  <1> QED
    BY <1>7, <1>8, <1>9, <1>10, Zenon

LEMMA RecordsDoneStep ==
    ASSUME IInv, RecordsDone PROVE IInv'
  <1> USE DEF signing, delta
  <1>1. TypeInv /\ PhaseInv /\ ContentInv /\ RecordInv /\ TrailerInv /\ NoFalseAlarm
    BY DEF IInv
  <1>2. /\ UNCHANGED <<content, changes, torn, pass, chunk, chunks, whole, size, data, ioErr,
                       records, trailer, result>>
        /\ pc = "records" /\ pc' = "verify" /\ i' = 1 /\ i > Len(chunks["new"])
    BY DEF RecordsDone, Goto
  <1>3. /\ i \in Nat \ {0} /\ Len(chunks["new"]) \in Nat /\ Len(chunks["old"]) \in Nat
        /\ i <= Len(chunks["new"]) + 1
    BY <1>1, <1>2, FileNames, ChunkFacts DEF TypeInv, PhaseInv
  <1>4. Writing /\ result = "none"
    BY <1>1, <1>2 DEF Writing, PhaseInv
  <1>5. MainTyped
    <2>1. pc' \in Phases
      BY <1>2 DEF Phases
    <2>2. /\ trailer' \in Seq(Units) /\ ioErr' \in BOOLEAN /\ result' \in Results
          /\ size' \in [File -> Nat] /\ records' \in Seq(RecordType) /\ data' \in Seq(Units)
      BY <1>1, <1>2 DEF TypeInv
    <2>3. i' \in Nat \ {0}
      <3>1. i' = 1
        BY <1>2
      <3> QED
        BY <3>1
    <2> QED
      BY <1>2, <2>1, <2>2, <2>3 DEF MainTyped
  <1>6. TypeInv' /\ ContentInv'
    BY <1>1, <1>2, <1>5, TypeKept, ContentKept
  <1>7. PhaseInv'
    BY <1>1, <1>2, <1>3, <1>4 DEF PhaseInv, Writing
  <1>8. VerifyInv'
    <2>1. 1 .. i' - 1 = {}
      <3>1. i' = 1
        BY <1>2
      <3> QED
        BY <3>1
    <2> QED
      BY <1>2, <1>4, <2>1 DEF VerifyInv, Verified
  <1>9. RecordInv'
    <2>1. Len(records') = Len(chunks'["new"])
      <3>1. Len(records) = i - 1
        BY <1>1, <1>2, <1>4 DEF RecordInv
      <3> QED
        BY <1>2, <1>3, <3>1
    <2>2. ASSUME NEW k \in 1 .. Len(records) PROVE RecordGood(k)'
      <3>1. RecordGood(k)
        BY <1>1, <1>4 DEF RecordInv
      <3>2. ~Verified /\ ~Verified'
        BY <1>2, <1>4 DEF Verified
      <3>3. ~(k < i')
        BY <1>2
      <3> QED
        BY <1>2, <3>1, <3>2, <3>3 DEF RecordGood, Yields, Bytes, ReadAt
    <2> QED
      BY <1>2, <2>1, <2>2 DEF RecordInv
  <1>10. TrailerInv' /\ NoFalseAlarm'
    BY <1>1, <1>2, <1>4 DEF TrailerInv, NoFalseAlarm
  <1> QED
    BY <1>6, <1>7, <1>8, <1>9, <1>10 DEF IInv

(* verifyOldFile() goes on: what the records took from the old chunk is    *)
(* what was signed.                                                        *)
LEMMA VerifyOldStep ==
    ASSUME IInv, VerifyOld PROVE IInv'
  <1> USE DEF signing, delta
  <1> DEFINE bytes == Bytes("old", chunks["old"][i])
  <1>1. /\ TypeInv /\ PhaseInv /\ ContentInv /\ VerifyInv /\ RecordInv /\ TrailerInv
        /\ NoFalseAlarm
    BY DEF IInv
  <1>2. /\ UNCHANGED <<content, changes, torn, pass, chunk, chunks, whole, size, records, trailer>>
        /\ pc = "verify" /\ i <= Len(chunks["old"])
    BY DEF VerifyOld
  <1>3. i \in 1 .. Len(chunks["old"]) /\ Len(chunks["old"]) \in Nat /\ i \in Nat \ {0}
    BY <1>1, <1>2, FileNames, ChunkFacts DEF TypeInv
  <1>4. Writing /\ result = "none" /\ ~Verified
    BY <1>1, <1>2 DEF Writing, Verified, PhaseInv
  <1>5. \/ /\ bytes = chunks["old"][i].bytes
           /\ Goto("verify", "verify", i + 1) /\ UNCHANGED <<data, ioErr, result>>
        \/ ReadFailed("old", i)
    BY Zenon DEF VerifyOld, ReadSigned, ReadFailed
  <1>6. CASE ReadFailed("old", i)
    BY <1>2, <1>3, <1>4, <1>6, FileNames, ReadFailedStep
  <1>7. CASE /\ bytes = chunks["old"][i].bytes
             /\ Goto("verify", "verify", i + 1) /\ UNCHANGED <<data, ioErr, result>>
    <2>1. /\ pc' = "verify" /\ i' = i + 1
          /\ data' = data /\ ioErr' = ioErr /\ result' = result
      BY <1>7 DEF Goto
    <2>2. MainTyped
      <3>1. pc' \in Phases
        BY <2>1 DEF Phases
      <3>2. /\ trailer' \in Seq(Units) /\ ioErr' \in BOOLEAN /\ result' \in Results
            /\ size' \in [File -> Nat] /\ records' \in Seq(RecordType) /\ data' \in Seq(Units)
        BY <1>1, <1>2, <2>1 DEF TypeInv
      <3>3. i' \in Nat \ {0}
        <4>1. i' = i + 1
          BY <2>1
        <4> QED
          BY <1>3, <4>1
      <3> QED
        BY <1>2, <3>1, <3>2, <3>3 DEF MainTyped
    <2>3. TypeInv' /\ ContentInv'
      BY <1>1, <1>2, <2>2, TypeKept, ContentKept
    <2>4. PhaseInv'
      <3>1. i' <= Len(chunks'["old"]) + 1
        BY <1>2, <1>3, <2>1
      <3> QED
        BY <1>1, <1>2, <1>4, <2>1, <3>1 DEF PhaseInv, Writing
    <2>5. VerifyInv'
      <3>1. ASSUME changes["old"] <= 1, "old" \in torn, NEW k \in 1 .. i
            PROVE  Bytes("old", chunks["old"][k]) = chunks["old"][k].bytes
        <4>1. CASE k = i
          BY <1>7, <4>1
        <4>2. CASE k # i
          <5>1. k \in 1 .. i - 1
            BY <1>3, <4>2
          <5> QED
            BY <1>1, <1>2, <3>1, <5>1 DEF VerifyInv
        <4> QED
          BY <4>1, <4>2
      <3>2. 1 .. i' - 1 = 1 .. i
        <4>1. i' = i + 1
          BY <2>1
        <4> QED
          BY <1>3, <4>1
      <3>3. ~Verified'
        BY <1>4, <2>1 DEF Verified
      <3> QED
        BY <1>2, <3>1, <3>2, <3>3 DEF VerifyInv, Bytes, ReadAt
    <2>6. RecordInv'
      <3>1. Len(records') = Len(chunks'["new"])
        BY <1>1, <1>2, <1>4 DEF RecordInv
      <3>2. ASSUME NEW k \in 1 .. Len(records) PROVE RecordGood(k)'
        <4>1. RecordGood(k)
          BY <1>1, <1>4 DEF RecordInv
        <4>2. ~Verified'
          BY <1>4, <2>1 DEF Verified
        <4>3. k < i' => k < i \/ k = i
          <5>1. i' = i + 1 /\ k \in Int
            BY <2>1
          <5> QED
            BY <1>3, <5>1
        <4>4. k = i => Bytes("old", chunks["old"][k]) = chunks["old"][k].bytes
          BY <1>7
        <4> QED
          BY <1>2, <1>4, <2>1, <4>1, <4>2, <4>3, <4>4 DEF RecordGood, Yields, Bytes, ReadAt
      <3> QED
        BY <1>2, <2>1, <3>1, <3>2 DEF RecordInv
    <2>7. TrailerInv' /\ NoFalseAlarm'
      BY <1>1, <1>2, <1>4, <2>1 DEF TrailerInv, NoFalseAlarm
    <2> QED
      BY <2>3, <2>4, <2>5, <2>6, <2>7 DEF IInv
  <1> QED
    BY <1>5, <1>6, <1>7, Zenon

(* The probe for growth gives up.                                          *)
LEMMA ProbeFailedStep ==
    ASSUME IInv, Writing, NEW f \in File, Fail("integrity_mismatch"),
           (ReadAt(f, size[f], 1) # <<>> /\ ioErr' = ioErr) \/ ioErr' = TRUE,
           UNCHANGED <<content, changes, torn, signing, size, data, delta>>
    PROVE  IInv'
  <1> USE DEF signing, delta
  <1>1. TypeInv /\ PhaseInv /\ ContentInv
    BY DEF IInv
  <1>2. pass[f] = "signed"
    BY <1>1 DEF PhaseInv, Writing
  <1>3. "integrity_mismatch" \in Results \ {"none", "ok"}
    BY DEF Results
  <1>4. ioErr' \in BOOLEAN
    BY <1>1, Zenon DEF TypeInv
  <1>5. /\ data' \in Seq(Units) /\ trailer' \in Seq(Units) /\ records' \in Seq(RecordType)
    BY <1>1 DEF TypeInv
  <1>6. ioErr' \/ \E g \in File : changes[g] > 0
    <2>1. ReadAt(f, size[f], 1) # <<>> => changes[f] # 0
      BY <1>1, <1>2, Unchanged
    <2>2. changes[f] \in Nat
      BY <1>1, ChunkFacts
    <2>3. changes[f] # 0 => changes[f] > 0
      BY <2>2
    <2> QED
      BY <2>1, <2>3, Zenon
  <1> QED
    BY <1>3, <1>4, <1>5, <1>6, FailStep

(* verifyOldFile() is done: the old file holds what was signed, whatever   *)
(* happened to it while it was signed.                                     *)
LEMMA ProbeOldStep ==
    ASSUME IInv, ProbeOld PROVE IInv'
  <1> USE DEF signing, delta
  <1>1. /\ TypeInv /\ PhaseInv /\ ContentInv /\ VerifyInv /\ RecordInv /\ TrailerInv
        /\ NoFalseAlarm
    BY DEF IInv
  <1>2. /\ UNCHANGED <<content, changes, torn, pass, chunk, chunks, whole, size, data, records,
                       trailer>>
        /\ pc = "verify" /\ i > Len(chunks["old"])
    BY DEF ProbeOld, Probe
  <1>3. /\ Len(chunks["old"]) \in Nat /\ i \in Nat /\ i = Len(chunks["old"]) + 1
        /\ Len(chunks["new"]) \in Nat
    <2>1. Len(chunks["old"]) \in Nat /\ Len(chunks["new"]) \in Nat /\ i \in Nat
      BY <1>1, FileNames, ChunkFacts DEF TypeInv
    <2>2. i <= Len(chunks["old"]) + 1
      BY <1>1, <1>2 DEF PhaseInv
    <2> QED
      BY <1>2, <2>1, <2>2
  <1>4. Writing /\ result = "none" /\ ~Verified
    BY <1>1, <1>2 DEF Writing, Verified, PhaseInv
  <1>5. \/ /\ ReadAt("old", size["old"], 1) = <<>> /\ Goto("verify", "trailer", 1)
           /\ UNCHANGED <<ioErr, result>>
        \/ /\ Fail("integrity_mismatch")
           /\ (ReadAt("old", size["old"], 1) # <<>> /\ ioErr' = ioErr) \/ ioErr' = TRUE
    BY Zenon DEF ProbeOld, Probe
  <1>6. CASE /\ Fail("integrity_mismatch")
             /\ (ReadAt("old", size["old"], 1) # <<>> /\ ioErr' = ioErr) \/ ioErr' = TRUE
    BY <1>2, <1>4, <1>6, FileNames, ProbeFailedStep
  <1>7. CASE /\ ReadAt("old", size["old"], 1) = <<>> /\ Goto("verify", "trailer", 1)
             /\ UNCHANGED <<ioErr, result>>
    <2>1. pc' = "trailer" /\ i' = 1 /\ ioErr' = ioErr /\ result' = result
      BY <1>7 DEF Goto
    <2>2. MainTyped
      <3>1. pc' \in Phases
        BY <2>1 DEF Phases
      <3>2. /\ trailer' \in Seq(Units) /\ ioErr' \in BOOLEAN /\ result' \in Results
            /\ size' \in [File -> Nat] /\ records' \in Seq(RecordType) /\ data' \in Seq(Units)
        BY <1>1, <1>2, <2>1 DEF TypeInv
      <3>3. i' \in Nat \ {0}
        <4>1. i' = 1
          BY <2>1
        <4> QED
          BY <4>1
      <3> QED
        BY <1>2, <3>1, <3>2, <3>3 DEF MainTyped
    <2>3. TypeInv' /\ ContentInv'
      BY <1>1, <1>2, <2>2, TypeKept, ContentKept
    <2>4. PhaseInv'
      BY <1>1, <1>2, <1>3, <1>4, <2>1 DEF PhaseInv, Writing
    <2>5. VerifyInv'
      <3>1. ASSUME changes["old"] <= 1, "old" \in torn
            PROVE  Concat(chunks["old"]) = content["old"]
        <4>1. 1 .. i - 1 = 1 .. Len(chunks["old"])
          BY <1>3
        <4>2. \A k \in 1 .. Len(chunks["old"]) :
                 Bytes("old", chunks["old"][k]) = chunks["old"][k].bytes
          BY <1>1, <1>2, <3>1, <4>1 DEF VerifyInv
        <4>3. size["old"] = Len(Concat(chunks["old"]))
          BY <1>1, <1>4, FileNames DEF PhaseInv
        <4>4. ReadAt("old", Len(Concat(chunks["old"])), 1) = <<>>
          BY <1>7, <4>3
        <4> QED
          BY <1>1, <4>2, <4>4, FileNames, ReadBack
      <3> QED
        BY <1>2, <2>1, <3>1 DEF VerifyInv
    <2>6. RecordInv'
      <3>1. Len(records') = Len(chunks'["new"])
        BY <1>1, <1>2, <1>4 DEF RecordInv
      <3>2. ASSUME NEW k \in 1 .. Len(records) PROVE RecordGood(k)'
        <4>1. RecordGood(k)
          BY <1>1, <1>4 DEF RecordInv
        <4>2. k \in 1 .. Len(chunks["old"]) => k < i
          BY <1>3
        <4> QED
          BY <1>2, <4>1, <4>2 DEF RecordGood, Yields
      <3> QED
        BY <1>2, <2>1, <3>1, <3>2 DEF RecordInv
    <2>7. TrailerInv'
      <3>1. trailer = <<>>
        BY <1>1, <1>2 DEF TrailerInv
      <3>2. chunks["new"] \in Seq(Chunk)
        BY <1>1, FileNames, ChunkFacts
      <3>3. Upto(chunks["new"], 0) = <<>>
        BY <3>2, UptoNext
      <3>4. i' - 1 = 0
        <4>1. i' = 1
          BY <2>1
        <4> QED
          BY <4>1
      <3>5. trailer' = Upto(chunks["new"], i' - 1)
        BY <1>2, <3>1, <3>3, <3>4
      <3> QED
        BY <1>2, <1>4, <2>1, <3>5 DEF TrailerInv
    <2>8. NoFalseAlarm'
      BY <1>1, <1>2, <1>4, <2>1 DEF NoFalseAlarm
    <2> QED
      BY <2>3, <2>4, <2>5, <2>6, <2>7, <2>8 DEF IInv
  <1> QED
    BY <1>5, <1>6, <1>7, Zenon

(* From here on neither the old file nor the records matter any more.      *)
LEMMA VerifiedStep ==
    ASSUME IInv, MainTyped, UNCHANGED <<size, records>>, pc = "trailer" \/ pc = "commit",
           pc' = "trailer" \/ pc' = "commit" \/ (pc' = "done" /\ result' = "ok")
    PROVE  TypeInv' /\ ContentInv' /\ VerifyInv' /\ RecordInv'
  <1>1. TypeInv /\ PhaseInv /\ ContentInv /\ VerifyInv /\ RecordInv
    BY DEF IInv
  <1>2. TypeInv' /\ ContentInv'
    BY <1>1, TypeKept, ContentKept
  <1>3. Writing /\ Verified /\ Verified' /\ pc' # "verify" /\ pc' # "base"
        /\ pc' \notin {"records", "base"}
    BY DEF Writing, Verified
  <1>4. UNCHANGED <<content, changes, torn, pass, chunk, chunks, whole>>
    BY DEF MainTyped
  <1>5. VerifyInv'
    BY <1>1, <1>3, <1>4 DEF VerifyInv
  <1>6. RecordInv'
    <2>1. Len(records') = Len(chunks'["new"])
      BY <1>1, <1>3, <1>4 DEF RecordInv
    <2>2. \A k \in 1 .. Len(records) : RecordGood(k)
      BY <1>1, <1>3 DEF RecordInv
    <2>3. \A k \in 1 .. Len(records') : RecordGood(k)'
      BY <1>3, <1>4, <2>2 DEF RecordGood, Yields
    <2> QED
      BY <1>3, <2>1, <2>3 DEF RecordInv
  <1> QED
    BY <1>2, <1>5, <1>6

LEMMA HashNewStep ==
    ASSUME IInv, HashNew PROVE IInv'
  <1> USE DEF signing, delta
  <1> DEFINE bytes == Bytes("new", chunks["new"][i])
  <1>1. TypeInv /\ PhaseInv /\ TrailerInv /\ NoFalseAlarm
    BY DEF IInv
  <1>2. /\ UNCHANGED <<content, changes, torn, pass, chunk, chunks, whole, size, records>>
        /\ pc = "trailer" /\ i <= Len(chunks["new"])
        /\ trailer' = IF result' = "none" THEN trailer \o bytes ELSE trailer
    BY DEF HashNew
  <1>3. i \in 1 .. Len(chunks["new"]) /\ Len(chunks["new"]) \in Nat /\ i \in Nat \ {0}
        /\ chunks["new"] \in Seq(Chunk)
    BY <1>1, <1>2, FileNames, ChunkFacts DEF TypeInv
  <1>4. Writing /\ result = "none"
    BY <1>1, <1>2 DEF Writing, PhaseInv
  <1>5. \/ /\ bytes = chunks["new"][i].bytes
           /\ Goto("trailer", "trailer", i + 1) /\ UNCHANGED <<data, ioErr, result>>
        \/ ReadFailed("new", i)
    BY Zenon DEF HashNew, ReadSigned, ReadFailed
  <1>6. CASE ReadFailed("new", i)
    <2>1. result' # "none"
      BY <1>6 DEF ReadFailed, Fail
    <2>2. UNCHANGED <<content, changes, torn, signing, size, delta>>
      BY <1>2, <2>1
    <2> QED
      BY <1>3, <1>4, <1>6, <2>2, FileNames, ReadFailedStep
  <1>7. CASE /\ bytes = chunks["new"][i].bytes
             /\ Goto("trailer", "trailer", i + 1) /\ UNCHANGED <<data, ioErr, result>>
    <2>1. /\ pc' = "trailer" /\ i' = i + 1
          /\ data' = data /\ ioErr' = ioErr /\ result' = result
      BY <1>7 DEF Goto
    <2>2. trailer' = trailer \o chunks["new"][i].bytes
      BY <1>2, <1>4, <1>7, <2>1
    <2>3. trailer' = Upto(chunks["new"], i)
      <3>1. trailer = Upto(chunks["new"], i - 1)
        BY <1>1, <1>2 DEF TrailerInv
      <3>2. Upto(chunks["new"], i) = Upto(chunks["new"], i - 1) \o chunks["new"][i].bytes
        BY <1>3, UptoNext
      <3> QED
        BY <2>2, <3>1, <3>2
    <2>4. trailer' \in Seq(Units)
      <3>1. i \in 0 .. Len(chunks["new"])
        BY <1>3
      <3> QED
        BY <1>3, <2>3, <3>1, UptoNext
    <2>5. i' \in Nat \ {0} /\ i' - 1 = i /\ i' <= Len(chunks["new"]) + 1
      <3>1. i' = i + 1
        BY <2>1
      <3> QED
        BY <1>3, <3>1
    <2>6. MainTyped
      <3>1. pc' \in Phases
        BY <2>1 DEF Phases
      <3>2. /\ ioErr' \in BOOLEAN /\ result' \in Results
            /\ size' \in [File -> Nat] /\ records' \in Seq(RecordType) /\ data' \in Seq(Units)
        BY <1>1, <1>2, <2>1 DEF TypeInv
      <3> QED
        BY <1>2, <2>4, <2>5, <3>1, <3>2 DEF MainTyped
    <2>7. TypeInv' /\ ContentInv' /\ VerifyInv' /\ RecordInv'
      <3>1. UNCHANGED <<size, records>> /\ pc = "trailer" /\ pc' = "trailer"
        BY <1>2, <2>1
      <3> QED
        BY <2>6, <3>1, VerifiedStep, Zenon
    <2>8. PhaseInv'
      BY <1>1, <1>2, <1>4, <2>1, <2>5 DEF PhaseInv, Writing
    <2>9. TrailerInv'
      BY <1>2, <1>4, <2>1, <2>3, <2>5 DEF TrailerInv
    <2>10. NoFalseAlarm'
      BY <1>4, <2>1 DEF NoFalseAlarm
    <2> QED
      BY <2>7, <2>8, <2>9, <2>10 DEF IInv
  <1> QED
    BY <1>5, <1>6, <1>7, Zenon

LEMMA UseWholeStep ==
    ASSUME IInv, UseWhole PROVE IInv'
  <1> USE DEF signing, delta
  <1>1. TypeInv /\ PhaseInv /\ TrailerInv /\ NoFalseAlarm
    BY DEF IInv
  <1>2. /\ UNCHANGED <<content, changes, torn, pass, chunk, chunks, whole, size, data, ioErr,
                       records, result>>
        /\ pc = "trailer" /\ pc' = "trailer" /\ i' = Len(chunks["new"]) + 1
        /\ trailer' = Concat(chunks["new"])
    BY DEF UseWhole, Goto
  <1>3. /\ Len(chunks["new"]) \in Nat /\ chunks["new"] \in Seq(Chunk)
        /\ Concat(chunks["new"]) \in Seq(Units)
    BY <1>1, FileNames, ChunkFacts
  <1>4. Writing /\ result = "none"
    BY <1>1, <1>2 DEF Writing, PhaseInv
  <1>5. i' \in Nat \ {0} /\ i' - 1 = Len(chunks["new"]) /\ i' <= Len(chunks["new"]) + 1
    <2>1. i' = Len(chunks["new"]) + 1
      BY <1>2
    <2> QED
      BY <1>3, <2>1
  <1>6. MainTyped
    <2>1. pc' \in Phases
      BY <1>2 DEF Phases
    <2>2. /\ ioErr' \in BOOLEAN /\ result' \in Results
          /\ size' \in [File -> Nat] /\ records' \in Seq(RecordType) /\ data' \in Seq(Units)
      BY <1>1, <1>2 DEF TypeInv
    <2>3. trailer' \in Seq(Units)
      BY <1>2, <1>3
    <2> QED
      BY <1>2, <1>5, <2>1, <2>2, <2>3 DEF MainTyped
  <1>7. TypeInv' /\ ContentInv' /\ VerifyInv' /\ RecordInv'
    <2>1. UNCHANGED <<size, records>> /\ pc = "trailer" /\ pc' = "trailer"
      BY <1>2
    <2> QED
      BY <1>6, <2>1, VerifiedStep, Zenon
  <1>8. PhaseInv'
    BY <1>1, <1>2, <1>4, <1>5 DEF PhaseInv, Writing
  <1>9. TrailerInv'
    <2>1. Upto(chunks["new"], Len(chunks["new"])) = Concat(chunks["new"])
      BY <1>3, UptoNext
    <2> QED
      BY <1>2, <1>4, <1>5, <2>1 DEF TrailerInv
  <1>10. NoFalseAlarm'
    BY <1>2, <1>4 DEF NoFalseAlarm
  <1> QED
    BY <1>7, <1>8, <1>9, <1>10 DEF IInv

LEMMA ProbeNewStep ==
    ASSUME IInv, ProbeNew PROVE IInv'
  <1> USE DEF signing, delta
  <1>1. TypeInv /\ PhaseInv /\ TrailerInv /\ NoFalseAlarm
    BY DEF IInv
  <1>2. /\ UNCHANGED <<content, changes, torn, pass, chunk, chunks, whole, size, data, records,
                       trailer>>
        /\ pc = "trailer" /\ i > Len(chunks["new"])
    BY DEF ProbeNew, Probe
  <1>3. /\ Len(chunks["new"]) \in Nat /\ i \in Nat /\ i - 1 = Len(chunks["new"])
        /\ chunks["new"] \in Seq(Chunk)
    <2>1. Len(chunks["new"]) \in Nat /\ i \in Nat /\ chunks["new"] \in Seq(Chunk)
      BY <1>1, FileNames, ChunkFacts DEF TypeInv
    <2>2. i <= Len(chunks["new"]) + 1
      BY <1>1, <1>2 DEF PhaseInv
    <2> QED
      BY <1>2, <2>1, <2>2
  <1>4. Writing /\ result = "none"
    BY <1>1, <1>2 DEF Writing, PhaseInv
  <1>5. \/ /\ Goto("trailer", "commit", 1) /\ UNCHANGED <<ioErr, result>>
        \/ /\ Fail("integrity_mismatch")
           /\ (ReadAt("new", size["new"], 1) # <<>> /\ ioErr' = ioErr) \/ ioErr' = TRUE
    BY Zenon DEF ProbeNew, Probe
  <1>6. CASE /\ Fail("integrity_mismatch")
             /\ (ReadAt("new", size["new"], 1) # <<>> /\ ioErr' = ioErr) \/ ioErr' = TRUE
    BY <1>2, <1>4, <1>6, FileNames, ProbeFailedStep
  <1>7. CASE Goto("trailer", "commit", 1) /\ UNCHANGED <<ioErr, result>>
    <2>1. pc' = "commit" /\ i' = 1 /\ ioErr' = ioErr /\ result' = result
      BY <1>7 DEF Goto
    <2>2. i' \in Nat \ {0}
      <3>1. i' = 1
        BY <2>1
      <3> QED
        BY <3>1
    <2>3. MainTyped
      <3>1. pc' \in Phases
        BY <2>1 DEF Phases
      <3>2. /\ trailer' \in Seq(Units) /\ ioErr' \in BOOLEAN /\ result' \in Results
            /\ size' \in [File -> Nat] /\ records' \in Seq(RecordType) /\ data' \in Seq(Units)
        BY <1>1, <1>2, <2>1 DEF TypeInv
      <3> QED
        BY <1>2, <2>2, <3>1, <3>2 DEF MainTyped
    <2>4. TypeInv' /\ ContentInv' /\ VerifyInv' /\ RecordInv'
      <3>1. UNCHANGED <<size, records>> /\ pc = "trailer" /\ pc' = "commit"
        BY <1>2, <2>1
      <3> QED
        BY <2>3, <3>1, VerifiedStep, Zenon
    <2>5. PhaseInv'
      BY <1>1, <1>2, <1>4, <2>1 DEF PhaseInv, Writing
    <2>6. TrailerInv'
      <3>1. trailer = Upto(chunks["new"], Len(chunks["new"]))
        BY <1>1, <1>2, <1>3 DEF TrailerInv
      <3>2. trailer = Concat(chunks["new"])
        BY <1>3, <3>1, UptoNext
      <3> QED
        BY <1>2, <1>4, <2>1, <3>2 DEF TrailerInv
    <2>7. NoFalseAlarm'
      BY <1>4, <2>1 DEF NoFalseAlarm
    <2> QED
      BY <2>4, <2>5, <2>6, <2>7 DEF IInv
  <1> QED
    BY <1>5, <1>6, <1>7, Zenon

LEMMA CommitStep ==
    ASSUME IInv, Commit PROVE IInv'
  <1> USE DEF signing, delta
  <1>1. TypeInv /\ PhaseInv /\ TrailerInv /\ NoFalseAlarm
    BY DEF IInv
  <1>2. /\ UNCHANGED <<content, changes, torn, pass, chunk, chunks, whole, size, i, data, ioErr,
                       records, trailer>>
        /\ pc = "commit" /\ pc' = "done" /\ result' = "ok"
    BY DEF Commit
  <1>3. MainTyped
    <2>1. pc' \in Phases /\ result' \in Results
      BY <1>2 DEF Phases, Results
    <2>2. /\ trailer' \in Seq(Units) /\ ioErr' \in BOOLEAN
          /\ size' \in [File -> Nat] /\ records' \in Seq(RecordType) /\ data' \in Seq(Units)
      BY <1>1, <1>2 DEF TypeInv
    <2>3. i' \in Nat \ {0}
      <3>1. i' = i /\ i \in Nat \ {0}
        BY <1>1, <1>2 DEF TypeInv
      <3> QED
        BY <3>1
    <2> QED
      BY <1>2, <2>1, <2>2, <2>3 DEF MainTyped
  <1>4. TypeInv' /\ ContentInv' /\ VerifyInv' /\ RecordInv'
    <2>1. /\ UNCHANGED <<size, records>> /\ pc = "commit"
          /\ pc' = "done" /\ result' = "ok"
      BY <1>2
    <2> QED
      BY <1>3, <2>1, VerifiedStep, Zenon
  <1>5. PhaseInv'
    BY <1>1, <1>2 DEF PhaseInv, Writing
  <1>6. TrailerInv'
    BY <1>1, <1>2 DEF TrailerInv
  <1>7. NoFalseAlarm'
    BY <1>2 DEF NoFalseAlarm
  <1> QED
    BY <1>4, <1>5, <1>6, <1>7 DEF IInv

LEMMA EnvironmentFailsStep ==
    ASSUME IInv, EnvironmentFails PROVE IInv'
  <1> USE DEF signing, delta
  <1>1. TypeInv
    BY DEF IInv
  <1>2. UNCHANGED <<content, changes, torn, signing, size, data, ioErr, delta>>
    BY DEF EnvironmentFails
  <1>3. PICK error \in {"io_error", "internal_error", "invalid_argument"} : Fail(error)
    BY DEF EnvironmentFails
  <1>4. error \in Results \ {"none", "ok"} /\ error # "integrity_mismatch"
    BY DEF Results
  <1>5. /\ ioErr' \in BOOLEAN /\ data' \in Seq(Units) /\ trailer' \in Seq(Units)
        /\ records' \in Seq(RecordType)
    BY <1>1, <1>2 DEF TypeInv
  <1> QED
    BY <1>2, <1>3, <1>4, <1>5, FailStep

-----------------------------------------------------------------------------
(* Every step keeps the invariant.                                         *)

LEMMA MainStep == ASSUME IInv, Main PROVE IInv'
  BY JoinStep, OpenInputStep, CoverStep, ReuseStep, ReadNewStep, ReadBaseStep,
     RecordsDoneStep, VerifyOldStep, ProbeOldStep, HashNewStep, UseWholeStep,
     ProbeNewStep, CommitStep, FileNames, Zenon
  DEF Main

LEMMA Stutters == ASSUME IInv, UNCHANGED vars PROVE IInv'
  <1>1. UNCHANGED <<content, changes, torn, pass, chunk, chunks, whole, size, pc, i, data,
                    ioErr, records, trailer, result>>
    BY DEF vars, signing, delta
  <1>2. TypeInv' /\ PhaseInv'
    BY <1>1 DEF IInv, TypeInv, PhaseInv, Writing
  <1>3. ContentInv' /\ VerifyInv'
    BY <1>1 DEF IInv, ContentInv, VerifyInv, Verified, Bytes, ReadAt
  <1>4. RecordInv'
    BY ZenonT(60), <1>1 DEF IInv, RecordInv, RecordGood, Yields, Writing, Verified, Bytes, ReadAt
  <1>5. TrailerInv' /\ NoFalseAlarm'
    BY <1>1 DEF IInv, TrailerInv, NoFalseAlarm
  <1> QED
    BY <1>2, <1>3, <1>4, <1>5 DEF IInv

LEMMA StepKeeps == IInv /\ [Next]_vars => IInv'
  <1> SUFFICES ASSUME IInv, [Next]_vars PROVE IInv'
    OBVIOUS
  <1>1. ASSUME NEW f \in File, Worker(f) \/ SignFails(f) \/ Change(f) PROVE IInv'
    BY <1>1, SignOpenStep, SignReadStep, SignEndStep, SignFailsStep, ChangeStep, Zenon
    DEF Worker
  <1>2. CASE Main
    BY <1>2, MainStep
  <1>3. CASE EnvironmentFails
    BY <1>3, EnvironmentFailsStep
  <1>4. CASE Done \/ UNCHANGED vars
    BY <1>4, Stutters DEF Done
  <1> QED
    BY <1>1, <1>2, <1>3, <1>4, Zenon DEF Next

(* Whatever the inputs are and whenever they change: the signatures, the   *)
(* records and the digest of the delta under way are those that create is  *)
(* to have at that point.                                                  *)
THEOREM Inductive == Spec => []IInv
  BY Starts, StepKeeps, PTL DEF Spec

-----------------------------------------------------------------------------
(* What follows from it.                                                   *)

(* create's state is of its types, its signatures tile what they were made *)
(* of, and its loops stay within them.                                     *)
THEOREM TypeCorrect == Spec => []TypeOK
  <1>1. IInv => TypeOK
    <2> SUFFICES ASSUME IInv PROVE TypeOK
      OBVIOUS
    <2>1. TypeInv /\ PhaseInv
      BY DEF IInv
    <2>2. ASSUME NEW f \in File PROVE CoversExactly(chunks[f], Len(Concat(chunks[f])))
      <3>1. Tiles(chunks[f])
        BY <2>1, ChunkFacts
      <3> QED
        BY <3>1 DEF CoversExactly, Tiles, Upto
    <2>3. i \in 1 .. Len(chunks["old"]) + Len(chunks["new"]) + 1
      <3>1. /\ Len(chunks["old"]) \in Nat /\ Len(chunks["new"]) \in Nat /\ i \in Nat
            /\ i >= 1
        BY SMTT(60), <2>1, FileNames, ChunkFacts DEF TypeInv
      <3>2. i = 1 \/ i <= Len(chunks["new"]) + 1 \/ i <= Len(chunks["old"]) + 1
        <4>1. \/ pc \in {"sign", "open old", "open new", "cover", "commit", "done"}
              \/ pc \in {"records", "base", "trailer"}
              \/ pc = "verify"
          BY <2>1 DEF TypeInv, Phases
        <4> QED
          BY <2>1, <4>1, Zenon DEF PhaseInv
      <3> DEFINE m == Len(chunks["old"])
                 n == Len(chunks["new"])
      <3>3. m \in Nat /\ n \in Nat /\ (i = 1 \/ i <= n + 1 \/ i <= m + 1)
        BY <3>1, <3>2
      <3> HIDE DEF m, n
      <3>4. i <= m + n + 1
        BY <3>1, <3>3
      <3>5. i \in 1 .. m + n + 1
        BY <3>1, <3>3, <3>4
      <3> QED
        BY <3>5 DEF m, n
    <2>4. /\ pc \in Phases /\ result \in Results /\ ioErr \in BOOLEAN
          /\ \A f \in File : Len(chunk[f]) < MaxChunk
          /\ changes \in [File -> Nat] /\ torn \subseteq File /\ size \in [File -> Nat]
          /\ pass \in [File -> {"idle", "signing", "signed", "failed"}]
      BY <2>1 DEF TypeInv
    <2> QED
      BY <2>2, <2>3, <2>4 DEF TypeOK, Phases, Results
  <1> QED
    BY <1>1, Inductive, PTL

(* generateImpl() blames an input for having changed only when it has, or  *)
(* when the probe for growth could not read it.                            *)
THEOREM AlarmHonest == Spec => []NoFalseAlarm
  <1>1. IInv => NoFalseAlarm
    BY DEF IInv
  <1> QED
    BY <1>1, Inductive, PTL

(* The signatures of a delta that was committed describe contents that the *)
(* files really had, the old one even when it changed under its pass.      *)
THEOREM SignedExisted == Spec => []SignedContentExisted
  <1>1. IInv => SignedContentExisted
    <2> SUFFICES ASSUME IInv, result = "ok"
                 PROVE  /\ changes["old"] <= 1
                           => Concat(chunks["old"]) \in {Initial["old"], content["old"]}
                        /\ changes["new"] <= 1 /\ "new" \notin torn
                           => Concat(chunks["new"]) \in {Initial["new"], content["new"]}
      BY DEF SignedContentExisted
    <2>1. PhaseInv /\ ContentInv /\ VerifyInv
      BY DEF IInv
    <2>2. \A f \in File : pass[f] = "signed"
      BY <2>1 DEF PhaseInv
    <2>3. \A f \in File : changes[f] <= 1 /\ f \notin torn
                          => Concat(chunks[f]) \in {Initial[f], content[f]}
      BY <2>1, <2>2 DEF ContentInv
    <2>4. changes["old"] <= 1 /\ "old" \in torn => Concat(chunks["old"]) = content["old"]
      BY <2>1 DEF VerifyInv, Verified
    <2> QED
      BY <2>3, <2>4, FileNames
  <1> QED
    BY <1>1, Inductive, PTL

(* What Apply makes of the records, one after the other.                   *)
Produces(it, old) ==
    it = [s \in SUBSET DOMAIN records |->
             IF s = {} THEN <<>> ELSE it[s \ {Max(s)}] \o Produced(records[Max(s)], old)]

LEMMA ReconstructedChosen ==
    ASSUME NEW old, NEW it, Produces(it, old)
    PROVE  \E jt : Produces(jt, old) /\ Reconstructed(old) = jt[DOMAIN records]
  BY DEF Reconstructed, FoldLeft, MapThenFoldSet, Produces

LEMMA ReconstructedIs ==
    ASSUME TypeInv, NEW old, Len(records) = Len(chunks["new"]),
           \A k \in 1 .. Len(records) : Produced(records[k], old) = chunks["new"][k].bytes
    PROVE  Reconstructed(old) = Concat(chunks["new"])
  <1> DEFINE cs == chunks["new"]
             V == Seq(Units)
             n == Len(cs)
             G == [p \in V \X (1 .. n) |-> p[1] \o cs[p[2]].bytes]
  <1>1. /\ n \in Nat /\ cs \in Seq(Chunk) /\ <<>> \in V
        /\ \A k \in 1 .. n : cs[k].bytes \in V
    <2>1. cs \in Seq(Chunk) /\ n \in Nat
      BY FileNames, ChunkFacts
    <2> QED
      BY <2>1, EmptySeq, UptoNext
  <1>2. DOMAIN records = 1 .. n
    <2>1. records \in Seq(RecordType)
      BY DEF TypeInv
    <2> QED
      BY <2>1, LenProperties
  <1>3. G \in [V \X (1 .. n) -> V]
    <2>1. \A v \in V, k \in 1 .. n : v \o cs[k].bytes \in V
      BY <1>1, Joined
    <2> HIDE DEF V, n, cs
    <2> QED
      BY <2>1
  <1>4. \A v \in V, k \in 1 .. n : G[<<v, k>>] = v \o cs[k].bytes
    OBVIOUS
  <1>5. \A k \in 1 .. n : Produced(records[k], old) = cs[k].bytes
    OBVIOUS
  <1>6. PICK acc \in [0 .. n -> V] :
            /\ acc[0] = <<>>
            /\ \A k \in 1 .. n : acc[k] = acc[k - 1] \o cs[k].bytes
            /\ acc[n] = Concat(cs)
    BY <1>1, ConcatFold
  <1> HIDE DEF V, n, G, cs
  <1>7. PICK it \in [SUBSET (1 .. n) -> V] : Iterates(it, n, <<>>, G)
    BY <1>1, <1>3, FoldExists
  <1>8. Produces(it, old)
    <2>1. ASSUME NEW s \in SUBSET (1 .. n), s # {}
          PROVE  G[<<it[s \ {Max(s)}], Max(s)>>]
                 = it[s \ {Max(s)}] \o Produced(records[Max(s)], old)
      <3>1. Max(s) \in 1 .. n
        BY <2>1, <1>1, MaxUpTo
      <3> QED
        BY <3>1, <1>4, <1>5
    <2> QED
      BY <1>2, <1>7, <2>1 DEF Iterates, Produces
  <1>9. PICK jt : Produces(jt, old) /\ Reconstructed(old) = jt[DOMAIN records]
    BY <1>8, ReconstructedChosen
  <1>10. Steps(jt, V, n, <<>>, G)
    <2>1. jt[{}] = <<>>
      BY <1>9 DEF Produces
    <2>2. ASSUME NEW s \in SUBSET (1 .. n), s # {}, jt[s \ {Max(s)}] \in V
          PROVE  jt[s] = G[<<jt[s \ {Max(s)}], Max(s)>>]
      <3>1. Max(s) \in 1 .. n
        BY <2>2, <1>1, MaxUpTo
      <3>2. jt[s] = jt[s \ {Max(s)}] \o Produced(records[Max(s)], old)
        BY <1>2, <1>9, <2>2 DEF Produces
      <3> QED
        BY <1>4, <1>5, <2>2, <3>1, <3>2
    <2> QED
      BY <2>1, <2>2, Zenon DEF Steps
  <1>11. PICK bcc : Values(bcc, V, n, <<>>, G, jt)
    BY <1>1, <1>3, <1>10, FoldValues
  <1>12. /\ bcc \in [0 .. n -> V] /\ bcc[0] = <<>>
         /\ \A k \in 1 .. n : bcc[k] = G[<<bcc[k - 1], k>>]
         /\ bcc[n] = jt[1 .. n]
    BY <1>11 DEF Values
  <1>13. ASSUME NEW k \in 1 .. n, bcc[k - 1] = acc[k - 1] PROVE bcc[k] = acc[k]
    <2>1. k - 1 \in 0 .. n
      BY <1>1
    <2>2. bcc[k - 1] \in V
      BY <1>12, <2>1
    <2>3. G[<<bcc[k - 1], k>>] = bcc[k - 1] \o cs[k].bytes
      BY <1>4, <2>2
    <2>4. bcc[k] = G[<<bcc[k - 1], k>>] /\ acc[k] = acc[k - 1] \o cs[k].bytes
      BY <1>6, <1>12
    <2> QED
      BY <1>13, <2>3, <2>4
  <1>14. SameSteps(bcc, acc, n)
    BY <1>6, <1>12, <1>13 DEF SameSteps
  <1>15. SameTo(bcc, acc, n)
    BY <1>1, <1>14, SameValues
  <1>16. n \in 0 .. n
    BY <1>1
  <1>17. bcc[n] = acc[n]
    BY <1>15, <1>16 DEF SameTo
  <1> QED
    BY <1>2, <1>6, <1>9, <1>12, <1>17 DEF cs

(* A delta that was committed applies to the old file as it was signed and *)
(* yields the new file as it was signed, if the old file was changed at    *)
(* most once: verifyOldFile() makes up for what ReadBase() did not check.  *)
THEOREM DeltaFits == Spec => []DeltaApplies
  <1>1. IInv => DeltaApplies
    <2> DEFINE old == chunks["old"]
    <2> SUFFICES ASSUME IInv, result = "ok", changes["old"] <= 1
                 PROVE  Applies(old) /\ Reconstructed(old) = Concat(chunks["new"])
      BY DEF DeltaApplies
    <2>1. TypeInv /\ PhaseInv /\ RecordInv /\ TrailerInv
      BY DEF IInv
    <2>2. Writing /\ Verified /\ pc = "done"
      BY <2>1 DEF Writing, Verified, PhaseInv
    <2>3. Len(records) = Len(chunks["new"]) /\ \A k \in 1 .. Len(records) : RecordGood(k)
      BY <2>1, <2>2 DEF RecordInv
    <2>4. ASSUME NEW k \in 1 .. Len(records)
          PROVE  /\ Produced(records[k], old) = chunks["new"][k].bytes
                 /\ records[k].hash = chunks["new"][k].bytes
      <3>1. records[k] \in RecordType
        <4>1. records \in Seq(RecordType)
          BY <2>1 DEF TypeInv
        <4> QED
          BY <4>1, ElementOfSeq
      <3>2. records[k].type \in {"ORIGINAL", "ADDED", "MODIFIED"}
        BY <3>1 DEF RecordType
      <3>3. Yields(records[k], k)
        BY <2>3 DEF RecordGood
      <3>4. records[k].type = "MODIFIED" => old[records[k].source].bytes = records[k].base
        BY <2>2, <3>3 DEF Yields
      <3> QED
        BY <3>2, <3>3, <3>4 DEF Yields, Produced
    <2>5. Reconstructed(old) = Concat(chunks["new"])
      BY <2>1, <2>3, <2>4, ReconstructedIs
    <2>6. trailer = Concat(chunks["new"])
      BY <2>1 DEF TrailerInv
    <2>7. Applies(old)
      BY <2>4, <2>5, <2>6 DEF Applies
    <2> QED
      BY <2>5, <2>7
  <1> QED
    BY <1>1, Inductive, PTL
=============================================================================
