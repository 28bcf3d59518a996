------------------------- MODULE DeltaViewer_proofs -------------------------
(***************************************************************************)
(* view, for every width of a word and of its groups, every length of the  *)
(* read-ahead buffer, every delta and every damage to it.                  *)
(***************************************************************************)
EXTENDS DeltaViewer, FileIO_proofs

-----------------------------------------------------------------------------
(* Numbers.                                                                *)

(* A remainder, and that of a number below the divisor.                    *)
LEMMA Remainder ==
    ASSUME NEW n \in Nat, NEW m \in Nat \ {0}
    PROVE  n % m \in 0 .. m - 1 /\ (n < m => n % m = n)
  BY SMTT(30)

(* A group below a power of the base leaves room for the next one.         *)
LEMMA GroupBelow ==
    ASSUME NEW g \in Nat \ {0}, NEW w \in Nat, NEW b \in 0 .. g - 1, NEW v \in Nat, v < w
    PROVE  b * w \in Nat /\ v + b * w < g * w
  <1>1. b * w \in Nat /\ (g - 1 - b) * w \in Nat
    BY SMTT(30)
  <1>2. (g - 1 - b) * w = g * w - w - b * w
    BY SMTT(30)
  <1>3. g * w \in Nat
    BY SMTT(30)
  <1> QED
    BY <1>1, <1>2, <1>3

(* What the widths of words and bytes come to.                             *)
LEMMA ByteType ==
    /\ Group \in Nat /\ Group > 1 /\ MaxBytes \in Nat /\ MaxBytes > 0
    /\ \A i \in 0 .. MaxBytes : Weight[i] \in Nat
    /\ WordSize \in Nat /\ WordSize = 2 * Weight[MaxBytes - 1]
    /\ \A b \in Byte : b \in Nat /\ Bits(b) \in 0 .. Group - 1 /\ b # EndOfFile
    /\ EndOfFile \notin Byte
  <1>1. /\ Group \in Nat /\ Group > 1 /\ MaxBytes \in Nat /\ MaxBytes > 0
        /\ \A i \in 0 .. MaxBytes : Weight[i] \in Nat
    BY WidthAssumption
  <1>2. MaxBytes - 1 \in 0 .. MaxBytes
    BY <1>1
  <1>3. WordSize \in Nat /\ WordSize = 2 * Weight[MaxBytes - 1]
    BY <1>1, <1>2 DEF WordSize
  <1>4. \A b \in Byte : b \in Nat /\ b # EndOfFile
    BY <1>1 DEF Byte, EndOfFile
  <1>5. \A b \in Byte : Bits(b) \in 0 .. Group - 1
    BY SMTT(60), <1>1, <1>4, Remainder DEF Bits
  <1> QED
    BY <1>1, <1>3, <1>4, <1>5

(* One byte of a varint that read_varint() accepts: its group counts in    *)
(* full, and where another byte may follow, there is room for it.          *)
LEMMA GroupFits ==
    ASSUME NEW n \in [value : Nat, i : Nat], n.i < MaxBytes, n.value < Weight[n.i],
           NEW byte \in Byte, ~Oversized(n, byte), ~(More(byte) /\ n.i = MaxBytes - 1)
    PROVE  /\ AddGroup(n, byte) = [value |-> n.value + Bits(byte) * Weight[n.i], i |-> n.i + 1]
           /\ AddGroup(n, byte) \in [value : 0 .. WordSize - 1, i : 1 .. MaxBytes]
           /\ More(byte) => /\ n.i + 1 < MaxBytes
                            /\ AddGroup(n, byte).value < Weight[n.i + 1]
  <1> DEFINE w == Weight[n.i]
             b == Bits(byte)
             v == n.value + b * w
             h == Weight[MaxBytes - 1]
  <1>1. /\ n.i \in Nat /\ n.value \in Nat /\ w \in Nat /\ b \in 0 .. Group - 1
        /\ h \in Nat /\ WordSize = 2 * h /\ Group \in Nat \ {0} /\ MaxBytes \in Nat
        /\ n.i \in 0 .. MaxBytes - 1 /\ n.value < w
    BY ByteType
  <1> HIDE DEF w, b, h
  <1>2. b * w \in Nat /\ v < Group * w
    BY <1>1, GroupBelow
  <1>3. v \in Nat /\ v < WordSize
    <2>1. CASE n.i = MaxBytes - 1
      <3>1. b \in {0, 1} /\ w = h
        BY <1>1, <2>1 DEF Oversized, b, w, h
      <3>2. b * w <= w
        BY <1>1, <3>1
      <3> QED
        BY <1>1, <1>2, <3>1, <3>2
    <2>2. CASE n.i # MaxBytes - 1
      <3>1. n.i + 1 \in 0 .. MaxBytes /\ MaxBytes - 1 \in 0 .. MaxBytes /\ n.i + 1 <= MaxBytes - 1
        BY <1>1, <2>2
      <3>2. Weight[n.i + 1] = Group * w /\ Weight[n.i + 1] <= h
        BY <1>1, <3>1, WidthAssumption DEF w, h
      <3>3. Weight[n.i + 1] \in Nat
        BY <3>1, WidthAssumption
      <3> QED
        BY <1>1, <1>2, <3>2, <3>3
    <2> QED
      BY <2>1, <2>2
  <1>4. v % WordSize = v
    <2> HIDE DEF v
    <2>1. WordSize \in Nat \ {0}
      BY <1>1, <1>3
    <2> QED
      BY <1>3, <2>1, Remainder
  <1>5. AddGroup(n, byte) = [value |-> v, i |-> n.i + 1]
    BY <1>4 DEF AddGroup, w, b
  <1>6. More(byte) => n.i + 1 < MaxBytes /\ v < Weight[n.i + 1]
    <2> SUFFICES ASSUME More(byte) PROVE n.i + 1 < MaxBytes /\ v < Weight[n.i + 1]
      OBVIOUS
    <2>1. n.i # MaxBytes - 1
      OBVIOUS
    <2>2. n.i + 1 < MaxBytes
      BY <1>1, <2>1
    <2>3. Weight[n.i + 1] = Group * w
      BY <1>1, WidthAssumption DEF w
    <2> QED
      BY <1>2, <2>2, <2>3
  <1>7. n.i + 1 \in 1 .. MaxBytes /\ v \in 0 .. WordSize - 1
    BY <1>1, <1>3
  <1> HIDE DEF v
  <1>8. AddGroup(n, byte) \in [value : 0 .. WordSize - 1, i : 1 .. MaxBytes]
    BY <1>5, <1>7
  <1>9. More(byte) => n.i + 1 < MaxBytes /\ AddGroup(n, byte).value < Weight[n.i + 1]
    BY <1>5, <1>6
  <1> QED
    BY <1>5, <1>8, <1>9 DEF v, w, b

-----------------------------------------------------------------------------
(* Sequences put together.                                                 *)

(* The function FlattenSeq is defined by.                                  *)
Flat(f, seqs) ==
    f = [i \in 1 .. Len(seqs) |-> IF i = 1 THEN seqs[i] ELSE f[i - 1] \o seqs[i]]

(* What it goes through.                                                   *)
Flattens(acc, B, seqs) ==
    /\ acc \in [0 .. Len(seqs) -> Seq(B)] /\ acc[0] = <<>>
    /\ \A k \in 1 .. Len(seqs) : acc[k] = acc[k - 1] \o seqs[k]

(* FlattenSeq() is the value of one such function.                         *)
LEMMA FlattenChosen ==
    ASSUME NEW seqs, Len(seqs) # 0, NEW f, Flat(f, seqs)
    PROVE  \E g : Flat(g, seqs) /\ FlattenSeq(seqs) = g[Len(seqs)]
  BY DEF FlattenSeq, Flat

(* There is one: the sequences put together one by one.                    *)
LEMMA FlattenExists ==
    ASSUME NEW B, NEW seqs \in Seq(Seq(B))
    PROVE  \E acc : Flattens(acc, B, seqs)
  <1> DEFINE n == Len(seqs)
             V == Seq(B)
             G == [p \in V \X (1 .. n) |-> p[1] \o seqs[p[2]]]
  <1>1. n \in Nat /\ \A k \in 1 .. n : seqs[k] \in V
    BY ElementOfSeq, LenProperties
  <1>2. <<>> \in V
    BY EmptySeq
  <1>3. G \in [V \X (1 .. n) -> V]
    <2>1. ASSUME NEW p \in V \X (1 .. n) PROVE p[1] \o seqs[p[2]] \in V
      <3>1. p[1] \in V /\ seqs[p[2]] \in V
        BY <1>1
      <3> QED
        BY <3>1, ConcatProperties
    <2> HIDE DEF V
    <2> QED
      BY <2>1
  <1>4. \A v \in V, k \in 1 .. n : G[<<v, k>>] = v \o seqs[k]
    <2> HIDE DEF V
    <2> QED
      OBVIOUS
  <1> HIDE DEF G
  <1>5. PICK it \in [SUBSET (1 .. n) -> V] : Iterates(it, n, <<>>, G)
    BY <1>1, <1>2, <1>3, FoldExists
  <1>6. Steps(it, V, n, <<>>, G)
    BY <1>5 DEF Iterates, Steps
  <1>7. PICK acc : Values(acc, V, n, <<>>, G, it)
    BY <1>1, <1>2, <1>3, <1>6, FoldValues
  <1>8. /\ acc \in [0 .. n -> V] /\ acc[0] = <<>>
        /\ \A k \in 1 .. n : acc[k] = G[<<acc[k - 1], k>>]
    BY <1>7 DEF Values
  <1>9. ASSUME NEW k \in 1 .. n PROVE acc[k] = acc[k - 1] \o seqs[k]
    <2>1. k - 1 \in 0 .. n
      BY <1>1
    <2>2. acc[k - 1] \in V
      BY <1>8, <2>1
    <2> QED
      BY <1>4, <1>8, <2>2
  <1> QED
    BY <1>8, <1>9 DEF Flattens

(* Its value is what has been put together at the end.                     *)
LEMMA FlattenValue ==
    ASSUME NEW B, NEW seqs \in Seq(Seq(B)), NEW acc, Flattens(acc, B, seqs)
    PROVE  FlattenSeq(seqs) = acc[Len(seqs)]
  <1> DEFINE n == Len(seqs)
  <1>1. n \in Nat
    BY LenProperties
  <1>2. CASE n = 0
    <2>1. seqs = <<>>
      BY <1>2, EmptySeq
    <2>2. FlattenSeq(seqs) = seqs
      BY <1>2 DEF FlattenSeq
    <2> QED
      BY <1>2, <2>1, <2>2 DEF Flattens
  <1>3. CASE n # 0
    <2>1. acc[1] = seqs[1]
      <3>1. 1 \in 1 .. n /\ 1 - 1 = 0
        BY <1>1, <1>3
      <3>2. acc[1] = <<>> \o seqs[1]
        BY <3>1 DEF Flattens
      <3>3. seqs[1] \in Seq(B)
        BY <3>1, ElementOfSeq
      <3> QED
        BY <3>2, <3>3, ConcatEmptySeq
    <2> DEFINE f == [i \in 1 .. n |-> acc[i]]
    <2>2. Flat(f, seqs)
      <3>1. ASSUME NEW i \in 1 .. n
            PROVE  acc[i] = IF i = 1 THEN seqs[i] ELSE f[i - 1] \o seqs[i]
        <4>1. CASE i = 1
          BY <2>1, <4>1
        <4>2. CASE i # 1
          <5>1. i - 1 \in 1 .. n
            BY <1>1, <4>2
          <5>2. f[i - 1] = acc[i - 1]
            BY <5>1
          <5> QED
            BY <4>2, <5>2 DEF Flattens
        <4> QED
          BY <4>1, <4>2
      <3> QED
        BY <3>1 DEF Flat
    <2> HIDE DEF f
    <2>3. PICK g : Flat(g, seqs) /\ FlattenSeq(seqs) = g[n]
      BY <1>3, <2>2, FlattenChosen
    <2> DEFINE S == {k \in 0 .. n : k = 0 \/ g[k] = acc[k]}
    <2>4. ASSUME NEW k \in 1 .. n, k - 1 \in S PROVE k \in S
      <3>1. g[k] = IF k = 1 THEN seqs[k] ELSE g[k - 1] \o seqs[k]
        BY <2>3 DEF Flat
      <3>2. CASE k = 1
        BY <2>1, <3>1, <3>2
      <3>3. CASE k # 1
        <4>1. g[k - 1] = acc[k - 1]
          BY <2>4, <3>3
        <4>2. g[k] = acc[k]
          BY <3>1, <3>3, <4>1 DEF Flattens
        <4> QED
          BY <1>1, <4>2
      <3> HIDE DEF S
      <3> QED
        BY <3>2, <3>3
    <2>5. 0 \in S
      BY <1>1
    <2> HIDE DEF S
    <2>6. 0 .. n \subseteq S
      BY <1>1, <2>4, <2>5, UpToInduction
    <2>7. n \in S
      BY <1>1, <2>6
    <2> HIDE DEF n
    <2>8. n = 0 \/ g[n] = acc[n]
      BY <2>7 DEF S
    <2> QED
      BY <1>3, <2>3, <2>8 DEF n
  <1> QED
    BY <1>2, <1>3

(* One more sequence comes after those before it.                          *)
LEMMA FlattenAppend ==
    ASSUME NEW B, NEW seqs \in Seq(Seq(B)), NEW s \in Seq(B)
    PROVE  /\ FlattenSeq(seqs) \in Seq(B)
           /\ FlattenSeq(Append(seqs, s)) = FlattenSeq(seqs) \o s
  <1> DEFINE n == Len(seqs)
             more == Append(seqs, s)
  <1>1. /\ n \in Nat /\ more \in Seq(Seq(B)) /\ Len(more) = n + 1
        /\ more[n + 1] = s /\ \A k \in 1 .. n : more[k] = seqs[k]
    BY AppendProperties, LenProperties
  <1> HIDE DEF more
  <1>2. PICK acc : Flattens(acc, B, seqs)
    BY FlattenExists
  <1>3. /\ acc \in [0 .. n -> Seq(B)] /\ acc[0] = <<>>
        /\ \A k \in 1 .. n : acc[k] = acc[k - 1] \o seqs[k]
    BY <1>2 DEF Flattens
  <1>4. FlattenSeq(seqs) = acc[n] /\ acc[n] \in Seq(B)
    <2>1. FlattenSeq(seqs) = acc[n]
      BY <1>2, FlattenValue
    <2>2. n \in 0 .. n
      BY <1>1
    <2> QED
      BY <1>3, <2>1, <2>2
  <1> DEFINE bcc == [k \in 0 .. n + 1 |-> IF k = n + 1 THEN acc[n] \o s ELSE acc[k]]
  <1>5. Flattens(bcc, B, more)
    <2>1. acc[n] \o s \in Seq(B)
      BY <1>4, ConcatProperties
    <2>2. bcc \in [0 .. n + 1 -> Seq(B)]
      BY <1>1, <1>3, <2>1
    <2>3. bcc[0] = <<>>
      BY <1>1, <1>3
    <2>4. ASSUME NEW k \in 1 .. n + 1 PROVE bcc[k] = bcc[k - 1] \o more[k]
      <3>1. CASE k = n + 1
        <4>1. k - 1 = n /\ n \in 0 .. n + 1 /\ n # n + 1
          BY <1>1, <3>1
        <4>2. bcc[n] = acc[n] /\ bcc[n + 1] = acc[n] \o s
          <5> HIDE DEF n
          <5> QED
            BY <1>1, <4>1
        <4> QED
          BY <1>1, <3>1, <4>1, <4>2, Zenon
      <3>2. CASE k # n + 1
        <4>1. k \in 1 .. n /\ k - 1 \in 0 .. n + 1 /\ k - 1 # n + 1
          BY <1>1, <3>2
        <4>2. bcc[k - 1] = acc[k - 1] /\ bcc[k] = acc[k]
          BY <3>2, <4>1
        <4> QED
          BY <1>1, <1>3, <4>1, <4>2
      <3> QED
        BY <3>1, <3>2
    <2> QED
      BY <1>1, <2>2, <2>3, <2>4 DEF Flattens
  <1>6. FlattenSeq(more) = bcc[n + 1]
    BY <1>1, <1>5, FlattenValue
  <1> QED
    BY <1>1, <1>4, <1>6 DEF more

(* The same for what the entries of a sequence are laid out as.            *)
LEMMA FlattenEmpty ==
    ASSUME NEW s, s = <<>>
    PROVE  FlattenSeq(s) = <<>>
  BY EmptySeq DEF FlattenSeq

-----------------------------------------------------------------------------
(* Numbers of a fixed number of bytes.                                     *)

(* Bytes as numbers.                                                       *)
LEMMA ByteIsNat ==
    ASSUME NEW s \in Seq(Byte)
    PROVE  /\ s \in Seq(Nat) /\ Len(s) \in Nat
           /\ \A k \in 1 .. Len(s) : s[k] \in 0 .. 2 * Group - 1
  <1>1. /\ s \in [1 .. Len(s) -> Byte] /\ Len(s) \in Nat
        /\ \A k \in 1 .. Len(s) : s[k] \in Byte
    BY LenProperties, ElementOfSeq
  <1>2. \A b \in Byte : b \in Nat
    BY ByteType
  <1>3. s \in [1 .. Len(s) -> Nat]
    BY <1>1, <1>2
  <1>4. s \in Seq(Nat)
    BY <1>1, <1>3, SeqDef
  <1> QED
    BY <1>1, <1>4 DEF Byte

(* The base that numbers of a fixed number of bytes are written in.        *)
LEMMA BaseType ==
    /\ 2 * Group \in Nat \ {0} /\ FixedBytes \in Nat \ {0} /\ Byte = 0 .. 2 * Group - 1
    /\ \A b \in Byte : b \in 0 .. 2 * Group - 1
  BY WidthAssumption, LayoutAssumption DEF Byte

Raises(f) == f = [i \in 0 .. FixedBytes |-> IF i = 0 THEN 1 ELSE 2 * Group * f[i - 1]]

(* ByteWeight is such a function, as there is one.                         *)
LEMMA ByteWeightChosen ==
    ASSUME NEW f, Raises(f)
    PROVE  Raises(ByteWeight)
  BY DEF ByteWeight, Raises

(* The weight of a byte is a power of the base.                            *)
LEMMA ByteWeights ==
    /\ Powers(ByteWeight, 2 * Group, FixedBytes)
    /\ \A k \in 0 .. FixedBytes : ByteWeight[k] \in Nat \ {0}
  <1> DEFINE n == FixedBytes
             a == 2 * Group
  <1>1. n \in Nat \ {0} /\ a \in Nat \ {0}
    BY BaseType
  <1>2. PICK f : Powers(f, a, n)
    BY <1>1, PowersExist
  <1>3. Raises(f)
    <2>1. /\ f \in [0 .. n -> Nat] /\ f[0] = 1
          /\ \A k \in 1 .. n : f[k] = a * f[k - 1]
      BY <1>2 DEF Powers
    <2>2. \A i \in 0 .. n : f[i] = IF i = 0 THEN 1 ELSE a * f[i - 1]
      <3> TAKE i \in 0 .. n
      <3>1. i # 0 => i \in 1 .. n
        BY <1>1
      <3> HIDE DEF n, a
      <3> QED
        BY <2>1, <3>1
    <2>3. f = [i \in 0 .. n |-> f[i]]
      BY <2>1
    <2> QED
      BY <2>2, <2>3, Zenon DEF Raises
  <1>4. Raises(ByteWeight)
    BY <1>3, ByteWeightChosen
  <1> DEFINE w == ByteWeight
  <1>5. w[0] = 1 /\ \A k \in 1 .. n : w[k] = a * w[k - 1]
    <2>1. 0 \in 0 .. n /\ \A k \in 1 .. n : k \in 0 .. n /\ k # 0
      BY <1>1
    <2> HIDE DEF n, a, w
    <2>2. w = [i \in 0 .. n |-> IF i = 0 THEN 1 ELSE a * w[i - 1]]
      BY <1>4 DEF Raises, n, a, w
    <2> QED
      BY <2>1, <2>2
  <1> DEFINE S == {k \in 0 .. n : w[k] \in Nat \ {0}}
  <1>6. ASSUME NEW k \in 1 .. n, k - 1 \in S PROVE k \in S
    <2>1. w[k - 1] \in Nat \ {0} /\ k \in 0 .. n
      BY <1>1, <1>6
    <2> HIDE DEF n, a, w
    <2>2. a * w[k - 1] \in Nat \ {0}
      BY <1>1, <2>1
    <2>3. w[k] \in Nat \ {0}
      BY <1>5, <2>2
    <2> QED
      BY <2>1, <2>3
  <1>7. 0 \in S
    BY <1>1, <1>5
  <1> HIDE DEF S
  <1>8. 0 .. n \subseteq S
    BY <1>1, <1>6, <1>7, UpToInduction
  <1>9. \A k \in 0 .. n : w[k] \in Nat \ {0}
    BY <1>8 DEF S
  <1>10. w \in [0 .. n -> Nat]
    <2>1. w = [i \in 0 .. n |-> w[i]]
      BY <1>4 DEF Raises
    <2> HIDE DEF w
    <2> QED
      BY <1>9, <2>1
  <1> QED
    BY <1>5, <1>9, <1>10 DEF Powers

(* push_u32_be() writes as many bytes as it should.                        *)
LEMMA FixedIsBytes ==
    ASSUME NEW v \in Nat
    PROVE  Fixed(v) \in Seq(Byte) /\ Len(Fixed(v)) = FixedBytes
  <1> DEFINE w(i) == (v \div ByteWeight[FixedBytes - i]) % (2 * Group)
  <1>1. ASSUME NEW i \in 1 .. FixedBytes PROVE w(i) \in Byte
    <2>1. FixedBytes - i \in 0 .. FixedBytes
      BY BaseType
    <2>2. ByteWeight[FixedBytes - i] \in Nat \ {0}
      BY <2>1, ByteWeights
    <2>3. v \div ByteWeight[FixedBytes - i] \in Nat
      BY <2>2, Division
    <2> QED
      BY <2>3, BaseType, Division
  <1>2. Fixed(v) = [i \in 1 .. FixedBytes |-> w(i)]
    BY DEF Fixed
  <1> HIDE DEF w
  <1>3. Fixed(v) \in [1 .. FixedBytes -> Byte] /\ FixedBytes \in Nat
    BY <1>1, <1>2, BaseType
  <1> QED
    BY <1>3, LenProperties, SeqDef

(* What load_u32_be() folds over is such an iteration.                     *)
LEMMA LoadChosen ==
    ASSUME NEW bytes, NEW it, Hashes(it, 2 * Group, bytes)
    PROVE  \E jt : Hashes(jt, 2 * Group, bytes) /\ LoadFixed(bytes) = jt[DOMAIN bytes]
  BY DEF LoadFixed, FoldLeft, MapThenFoldSet, Hashes

(* load_u32_be() is the polynomial of the bytes.                           *)
LEMMA LoadFold ==
    ASSUME NEW bytes \in Seq(Byte)
    PROVE  \E acc : Polynomial(acc, 2 * Group, bytes) /\ LoadFixed(bytes) = acc[Len(bytes)]
  <1>1. bytes \in Seq(Nat) /\ 2 * Group \in Nat
    BY ByteIsNat, BaseType
  <1>2. PICK it : Hashes(it, 2 * Group, bytes)
    BY <1>1, PolynomialFold
  <1>3. PICK jt : Hashes(jt, 2 * Group, bytes) /\ LoadFixed(bytes) = jt[DOMAIN bytes]
    BY <1>2, LoadChosen
  <1>4. PICK acc : Polynomial(acc, 2 * Group, bytes) /\ acc[Len(bytes)] = jt[DOMAIN bytes]
    BY <1>1, <1>3, PolynomialFold
  <1> QED
    BY <1>3, <1>4

(* load_u32_be() takes as many bytes to the number that push_u32_be()      *)
(* writes as those bytes.                                                  *)
LEMMA FixedLoad ==
    ASSUME NEW bytes \in Seq(Byte), Len(bytes) = FixedBytes
    PROVE  LoadFixed(bytes) \in Nat /\ Fixed(LoadFixed(bytes)) = bytes
  <1> DEFINE n == FixedBytes
             a == 2 * Group
             w == ByteWeight
             v == LoadFixed(bytes)
  <1>1. /\ n \in Nat \ {0} /\ a \in Nat \ {0}
        /\ \A k \in 1 .. n : bytes[k] \in 0 .. a - 1
    BY BaseType, ByteIsNat
  <1>2. /\ \A k \in 0 .. n : w[k] \in Nat \ {0}
        /\ w[0] = 1 /\ \A k \in 1 .. n : w[k] = a * w[k - 1]
    BY ByteWeights DEF Powers
  <1>3. PICK acc : Polynomial(acc, a, bytes) /\ v = acc[n]
    BY LoadFold
  <1>4. /\ acc \in [0 .. n -> Nat] /\ acc[0] = 0
        /\ \A k \in 1 .. n : acc[k] = a * acc[k - 1] + bytes[k]
    BY <1>3 DEF Polynomial
  <1>5. Fixed(v) = [i \in 1 .. n |-> (v \div w[n - i]) % a]
    BY DEF Fixed
  <1>6. v \in Nat
    BY <1>1, <1>3, <1>4
  <1>7. Fixed(v) \in Seq(Byte) /\ Len(Fixed(v)) = n
    BY <1>6, FixedIsBytes
  <1> HIDE DEF n, a, w, v
  <1> DEFINE S == {j \in 0 .. n : \E r \in 0 .. w[j] - 1 : v = w[j] * acc[n - j] + r}
  <1>8. 0 \in S
    <2>1. 0 \in 0 .. n /\ n - 0 = n /\ 0 \in 0 .. w[0] - 1 /\ v = w[0] * acc[n] + 0
      BY <1>1, <1>2, <1>3, <1>6
    <2> QED
      BY <2>1
  <1>9. ASSUME NEW j \in 1 .. n, j - 1 \in S PROVE j \in S
    <2> DEFINE u == w[j - 1]
               x == acc[n - j]
               b == bytes[n - (j - 1)]
    <2>1. PICK r \in 0 .. u - 1 : v = u * acc[n - (j - 1)] + r
      BY <1>9
    <2>2. /\ j - 1 \in 0 .. n /\ n - j \in 0 .. n /\ n - (j - 1) \in 1 .. n
          /\ n - (j - 1) - 1 = n - j /\ j \in 0 .. n
      BY <1>1
    <2>3. /\ u \in Nat \ {0} /\ x \in Nat /\ b \in 0 .. a - 1 /\ w[j] = a * u
          /\ acc[n - (j - 1)] = a * x + b
      BY <1>1, <1>2, <1>4, <2>2
    <2> HIDE DEF u, x, b
    <2>4. v = u * (a * x + b) + r
      BY <2>1, <2>3
    <2>5. b * u \in Nat /\ r + b * u < a * u
      BY <1>1, <2>1, <2>3, GroupBelow
    <2>6. u * (a * x + b) + r = (a * u) * x + (r + b * u)
      BY <1>1, <2>1, <2>3
    <2>7. r + b * u \in 0 .. a * u - 1
      BY <1>1, <2>1, <2>3, <2>5
    <2>8. v = w[j] * acc[n - j] + (r + b * u) /\ r + b * u \in 0 .. w[j] - 1
      BY <2>3, <2>4, <2>6, <2>7 DEF x
    <2> QED
      BY <2>2, <2>8
  <1> HIDE DEF S
  <1>10. 0 .. n \subseteq S
    BY <1>1, <1>8, <1>9, UpToInduction
  <1>11. ASSUME NEW i \in 1 .. n PROVE Fixed(v)[i] = bytes[i]
    <2>1. n - i \in 0 .. n /\ n - (n - i) = i /\ i \in 0 .. n /\ i - 1 \in 0 .. n
      BY <1>1
    <2>2. n - i \in S
      BY <1>10, <2>1
    <2>3. PICK r \in 0 .. w[n - i] - 1 : v = w[n - i] * acc[i] + r
      BY <2>1, <2>2 DEF S
    <2>4. w[n - i] \in Nat \ {0} /\ acc[i] \in Nat /\ acc[i - 1] \in Nat
      BY <1>2, <1>4, <2>1
    <2>5. v \div w[n - i] = acc[i]
      BY <1>6, <2>3, <2>4, RemainderUnique
    <2>6. bytes[i] \in 0 .. a - 1 /\ acc[i] = a * acc[i - 1] + bytes[i]
      BY <1>1, <1>4
    <2>7. acc[i] % a = bytes[i]
      BY <1>1, <2>4, <2>6, RemainderUnique
    <2> QED
      BY <1>5, <2>5, <2>7
  <1>12. Fixed(v) = bytes
    BY <1>7, <1>11, SeqEqual DEF n
  <1> QED
    BY <1>6, <1>12 DEF v

-----------------------------------------------------------------------------
(* Sequences of opcodes.                                                   *)

(* What the members of a sequence are mapped to, one after the other.      *)
Mapped(F, s) == [k \in DOMAIN s |-> F[s[k]]]

(* One more member, one more sequence.                                     *)
LEMMA FlattenMapped ==
    ASSUME NEW B, NEW S, NEW F \in [S -> Seq(B)], NEW s \in Seq(S)
    PROVE  /\ FlattenSeq(Mapped(F, s)) \in Seq(B)
           /\ \A e \in S :
                 FlattenSeq(Mapped(F, Append(s, e))) = FlattenSeq(Mapped(F, s)) \o F[e]
  <1> DEFINE u == Mapped(F, s)
  <1>1. Len(s) \in Nat /\ DOMAIN s = 1 .. Len(s) /\ \A k \in 1 .. Len(s) : s[k] \in S
    BY LenProperties, ElementOfSeq
  <1>2. u \in [1 .. Len(s) -> Seq(B)] /\ \A k \in 1 .. Len(s) : u[k] = F[s[k]]
    BY <1>1 DEF Mapped
  <1> HIDE DEF u
  <1>3. u \in Seq(Seq(B)) /\ Len(u) = Len(s)
    BY <1>1, <1>2, FunctionIsSeq
  <1>4. FlattenSeq(u) \in Seq(B)
    <2>1. PICK acc : Flattens(acc, B, u)
      BY <1>3, FlattenExists
    <2>2. FlattenSeq(u) = acc[Len(u)]
      BY <1>3, <2>1, FlattenValue
    <2>3. Len(u) \in 0 .. Len(u)
      BY <1>1, <1>3
    <2> QED
      BY <2>1, <2>2, <2>3 DEF Flattens
  <1>5. ASSUME NEW e \in S
        PROVE  FlattenSeq(Mapped(F, Append(s, e))) = FlattenSeq(u) \o F[e]
    <2> DEFINE more == Append(s, e)
               v    == Mapped(F, more)
               n    == Len(s)
    <2>1. /\ more \in Seq(S) /\ Len(more) = n + 1
          /\ more[n + 1] = e /\ \A k \in 1 .. n : more[k] = s[k]
      BY AppendProperties
    <2> HIDE DEF more, n
    <2>2. /\ DOMAIN more = 1 .. n + 1 /\ \A k \in 1 .. n + 1 : more[k] \in S
          /\ n \in Nat /\ n + 1 \in Nat /\ n + 1 \in 1 .. n + 1
          /\ \A k \in 1 .. n : k \in 1 .. n + 1
      BY <1>1, <2>1, LenProperties, ElementOfSeq DEF n
    <2>3. v = [k \in 1 .. n + 1 |-> F[more[k]]]
      BY <2>2 DEF Mapped
    <2> HIDE DEF v
    <2>4. v \in [1 .. n + 1 -> Seq(B)] /\ \A k \in 1 .. n + 1 : v[k] = F[more[k]]
      BY <2>2, <2>3
    <2>5. v \in Seq(Seq(B)) /\ Len(v) = n + 1
      BY <2>2, <2>4, FunctionIsSeq
    <2>6. Len(u) = n /\ \A k \in 1 .. n : v[k] = u[k]
      BY <1>2, <1>3, <2>1, <2>2, <2>4 DEF n
    <2>7. v[n + 1] = F[e] /\ F[e] \in Seq(B)
      BY <2>1, <2>2, <2>4
    <2>8. v = Append(u, F[e])
      BY <1>3, <2>5, <2>6, <2>7, LastOne
    <2> QED
      BY <1>3, <2>7, <2>8, FlattenAppend DEF v, more
  <1> QED
    BY <1>4, <1>5 DEF u

(* The length of an opcode, as parseDiffData() counts it                   *)
(* (DeltaViewer.cpp:89-93).                                               *)
LEMMA OpcodeLayout ==
    ASSUME NEW o \in OpType
    PROVE  /\ OpcodeBytes(o) \in Seq(Byte)
           /\ Len(OpcodeBytes(o)) = 1 + FixedBytes
                  + (IF o.op = "X" THEN FixedBytes ELSE 1 + Len(o.bytes))
  <1> DEFINE p == Fixed(o.pos)
             d == Fixed(o.del)
             t == OpTag[o.op]
             n == Len(o.bytes)
             rest == IF o.op = "X" THEN d ELSE <<n>> \o o.bytes
  <1>1. /\ o.pos \in Nat /\ o.del \in Nat /\ o.bytes \in Seq(Byte) /\ o.op \in DOMAIN OpTag
        /\ n \in Byte
    BY DEF OpType
  <1>2. t \in Byte /\ FixedBytes \in Nat
    BY <1>1, LayoutAssumption DEF OpTags
  <1>3. p \in Seq(Byte) /\ Len(p) = FixedBytes /\ d \in Seq(Byte) /\ Len(d) = FixedBytes
    BY <1>1, FixedIsBytes
  <1>4. OpcodeBytes(o) = <<t>> \o p \o rest
    BY DEF OpcodeBytes
  <1> HIDE DEF p, d, t
  <1>5. <<t>> \in Seq(Byte) /\ Len(<<t>>) = 1 /\ <<n>> \in Seq(Byte) /\ Len(<<n>>) = 1
    BY <1>1, <1>2
  <1> HIDE DEF n
  <1>6. rest \in Seq(Byte) /\ Len(rest) = IF o.op = "X" THEN FixedBytes ELSE 1 + Len(o.bytes)
    BY <1>1, <1>3, <1>5, Joined
  <1>7. <<t>> \o p \in Seq(Byte) /\ Len(<<t>> \o p) = 1 + FixedBytes
    BY <1>3, <1>5, Joined
  <1> HIDE DEF rest
  <1>8. /\ <<t>> \o p \o rest \in Seq(Byte)
        /\ Len(<<t>> \o p \o rest) = 1 + FixedBytes + Len(rest)
    BY <1>6, <1>7, Joined
  <1> QED
    BY <1>4, <1>6, <1>8

(* One more opcode of a run.                                               *)
LEMMA OpcodesLayout ==
    ASSUME NEW ops \in Seq(OpType)
    PROVE  /\ OpcodesBytes(ops) \in Seq(Byte)
           /\ \A o \in OpType : OpcodesBytes(Append(ops, o)) = OpcodesBytes(ops) \o OpcodeBytes(o)
  <1> DEFINE F == [o \in OpType |-> OpcodeBytes(o)]
  <1>1. F \in [OpType -> Seq(Byte)] /\ \A o \in OpType : F[o] = OpcodeBytes(o)
    BY OpcodeLayout
  <1> HIDE DEF F
  <1>2. \A t \in Seq(OpType) : OpcodesBytes(t) = FlattenSeq(Mapped(F, t))
    <2> TAKE t \in Seq(OpType)
    <2>1. \A k \in DOMAIN t : t[k] \in OpType
      BY LenProperties, ElementOfSeq
    <2>2. [k \in DOMAIN t |-> OpcodeBytes(t[k])] = [k \in DOMAIN t |-> F[t[k]]]
      BY <1>1, <2>1
    <2> QED
      BY <2>2 DEF OpcodesBytes, Mapped
  <1>3. /\ FlattenSeq(Mapped(F, ops)) \in Seq(Byte)
        /\ \A o \in OpType :
              FlattenSeq(Mapped(F, Append(ops, o))) = FlattenSeq(Mapped(F, ops)) \o F[o]
    BY <1>1, FlattenMapped
  <1>4. \A o \in OpType : Append(ops, o) \in Seq(OpType)
    BY AppendProperties
  <1> QED
    BY <1>1, <1>2, <1>3, <1>4

(* A run of none.                                                          *)
LEMMA NoOpcodes == OpcodesBytes(<<>>) = <<>>
  <1>1. [k \in DOMAIN <<>> |-> OpcodeBytes(<<>>[k])] = <<>>
    BY EmptySeq
  <1> QED
    BY <1>1, FlattenEmpty DEF OpcodesBytes

-----------------------------------------------------------------------------
(* What is written.                                                        *)

(* The function Varint is, and VarintSize.                                 *)
Groupwise(f) ==
    f = [value \in Nat |->
            IF value < Group THEN <<value>>
            ELSE <<Group + (value % Group)>> \o f[value \div Group]]

Counting(f) ==
    f = [value \in Nat |-> IF value < Group THEN 1 ELSE 1 + f[value \div Group]]

(* Varint is such a function, as there is one.                             *)
LEMMA VarintChosen ==
    ASSUME NEW f, Groupwise(f)
    PROVE  Groupwise(Varint)
  BY Zenon DEF Varint, Groupwise

(* The same of their number.                                               *)
LEMMA VarintSizeChosen ==
    ASSUME NEW f, Counting(f)
    PROVE  Counting(VarintSize)
  BY DEF VarintSize, Counting

(* A function of this kind for the bytes ...                               *)
LEMMA GroupwiseExists == \E f : Groupwise(f)
  <1> DEFINE V == Seq(Byte)
             B == [v \in 0 .. Group - 1 |-> <<v>>]
             G == [p \in V \X Nat |-> <<Group + (p[2] % Group)>> \o p[1]]
  <1>1. Group \in Nat \ {0, 1} /\ Byte = 0 .. 2 * Group - 1
    BY ByteType DEF Byte
  <1>2. B \in [0 .. Group - 1 -> V] /\ \A v \in Nat : v < Group => B[v] = <<v>>
    <2>1. ASSUME NEW v \in 0 .. Group - 1 PROVE <<v>> \in V
      <3>1. v \in Byte
        BY <1>1
      <3> QED
        BY <3>1
    <2>2. \A v \in Nat : v < Group => v \in 0 .. Group - 1
      BY <1>1
    <2> HIDE DEF V
    <2> QED
      BY <2>1, <2>2
  <1>3. /\ G \in [V \X Nat -> V]
        /\ \A u \in V, v \in Nat : G[<<u, v>>] = <<Group + (v % Group)>> \o u
    <2>1. ASSUME NEW p \in V \X Nat PROVE <<Group + (p[2] % Group)>> \o p[1] \in V
      <3>1. p[1] \in V /\ p[2] \in Nat
        OBVIOUS
      <3>2. p[2] % Group \in 0 .. Group - 1
        BY <1>1, <3>1, Division
      <3> DEFINE r == p[2] % Group
      <3>3. Group + r \in Byte
        <4> HIDE DEF r
        <4> QED
          BY <1>1, <3>2 DEF r
      <3>4. <<Group + r>> \in V
        BY <3>3
      <3> QED
        BY <3>1, <3>4, ConcatProperties
    <2> HIDE DEF V
    <2> QED
      BY <2>1
  <1> HIDE DEF V, B, G
  <1>4. Divisible(V, Group, B, G)
    BY <1>1, <1>2, <1>3 DEF Divisible
  <1>5. PICK f \in [Nat -> V] :
            \A v \in Nat : f[v] = IF v < Group THEN B[v] ELSE G[<<f[v \div Group], v>>]
    BY <1>4, QuotientRecursion
  <1>6. ASSUME NEW v \in Nat
        PROVE  f[v] = IF v < Group THEN <<v>> ELSE <<Group + (v % Group)>> \o f[v \div Group]
    <2>1. v \div Group \in Nat
      BY <1>1, Division
    <2>2. f[v \div Group] \in V
      BY <2>1
    <2> QED
      BY <1>2, <1>3, <1>5, <2>2
  <1>7. f = [v \in Nat |-> f[v]]
    OBVIOUS
  <1>8. Groupwise(f)
    BY <1>6, <1>7, Zenon DEF Groupwise
  <1> QED
    BY <1>8

(* ... and one for their number.                                           *)
LEMMA CountingExists == \E f : Counting(f)
  <1> DEFINE B == [v \in 0 .. Group - 1 |-> 1]
             G == [p \in Nat \X Nat |-> 1 + p[1]]
  <1>1. Group \in Nat \ {0, 1}
    BY ByteType
  <1>2. B \in [0 .. Group - 1 -> Nat] /\ \A v \in Nat : v < Group => B[v] = 1
    BY <1>1
  <1>3. G \in [Nat \X Nat -> Nat] /\ \A u \in Nat, v \in Nat : G[<<u, v>>] = 1 + u
    OBVIOUS
  <1> HIDE DEF B, G
  <1>4. Divisible(Nat, Group, B, G)
    BY <1>1, <1>2, <1>3 DEF Divisible
  <1>5. PICK f \in [Nat -> Nat] :
            \A v \in Nat : f[v] = IF v < Group THEN B[v] ELSE G[<<f[v \div Group], v>>]
    BY <1>4, QuotientRecursion
  <1>6. ASSUME NEW v \in Nat
        PROVE  f[v] = IF v < Group THEN 1 ELSE 1 + f[v \div Group]
    <2>1. v \div Group \in Nat
      BY <1>1, Division
    <2>2. f[v \div Group] \in Nat
      BY <2>1
    <2> QED
      BY <1>2, <1>3, <1>5, <2>2
  <1>7. f = [v \in Nat |-> f[v]]
    OBVIOUS
  <1>8. Counting(f)
    BY <1>6, <1>7, Zenon DEF Counting
  <1> QED
    BY <1>8

(* push_varint() writes as many bytes as varint_size() says                *)
(* (DeltaCodec.hpp:65-82).                                                 *)
LEMMA VarintWritten ==
    ASSUME NEW v \in Nat
    PROVE  /\ Varint[v] \in Seq(Byte) /\ VarintSize[v] \in Nat \ {0}
           /\ Len(Varint[v]) = VarintSize[v]
  <1> DEFINE P(w) == /\ Varint[w] \in Seq(Byte) /\ VarintSize[w] \in Nat \ {0}
                     /\ Len(Varint[w]) = VarintSize[w]
             S == {k \in Nat : \A w \in 0 .. k : P(w)}
  <1>1. Group \in Nat \ {0, 1} /\ Byte = 0 .. 2 * Group - 1
    BY ByteType DEF Byte
  <1>2. Groupwise(Varint) /\ Counting(VarintSize)
    BY GroupwiseExists, CountingExists, VarintChosen, VarintSizeChosen
  <1>3. \A w \in Nat :
            /\ Varint[w] = IF w < Group THEN <<w>>
                           ELSE <<Group + (w % Group)>> \o Varint[w \div Group]
            /\ VarintSize[w] = IF w < Group THEN 1 ELSE 1 + VarintSize[w \div Group]
    <2> DEFINE V == Varint
               Z == VarintSize
    <2> HIDE DEF V, Z
    <2>1. Groupwise(V) /\ Counting(Z)
      BY <1>2 DEF V, Z
    <2>2. \A w \in Nat : /\ V[w] = IF w < Group THEN <<w>>
                                   ELSE <<Group + (w % Group)>> \o V[w \div Group]
                         /\ Z[w] = IF w < Group THEN 1 ELSE 1 + Z[w \div Group]
      BY <2>1 DEF Groupwise, Counting
    <2> QED
      BY <2>2, Zenon DEF V, Z
  <1>4. ASSUME NEW w \in Nat, w < Group PROVE P(w)
    <2>1. w \in Byte
      BY <1>1, <1>4
    <2>2. Varint[w] = <<w>> /\ VarintSize[w] = 1
      BY <1>3, <1>4, Zenon
    <2>3. <<w>> \in Seq(Byte) /\ Len(<<w>>) = 1
      BY <2>1
    <2> QED
      BY <2>2, <2>3
  <1>5. ASSUME NEW w \in Nat, ~(w < Group), P(w \div Group) PROVE P(w)
    <2> DEFINE q == w \div Group
               r == w % Group
    <2>1. Varint[w] = <<Group + r>> \o Varint[q] /\ VarintSize[w] = 1 + VarintSize[q]
      BY <1>3, <1>5
    <2>2. r \in 0 .. Group - 1
      BY <1>1, Division
    <2>3. Varint[q] \in Seq(Byte) /\ VarintSize[q] \in Nat \ {0} /\ Len(Varint[q]) = VarintSize[q]
      BY <1>5
    <2> HIDE DEF q, r
    <2>4. Group + r \in Byte
      BY <1>1, <2>2
    <2>5. <<Group + r>> \in Seq(Byte) /\ Len(<<Group + r>>) = 1
      BY <2>4
    <2>6. <<Group + r>> \o Varint[q] \in Seq(Byte) /\ Len(<<Group + r>> \o Varint[q]) = 1 + VarintSize[q]
      BY <2>3, <2>5, Joined
    <2> QED
      BY <2>1, <2>3, <2>6
  <1> HIDE DEF P
  <1>6. 0 \in S
    <2>1. P(0)
      BY <1>1, <1>4
    <2> QED
      BY <2>1
  <1>7. ASSUME NEW k \in Nat, k \in S PROVE k + 1 \in S
    <2>1. P(k + 1)
      <3>1. (k + 1) \div Group \in 0 .. k
        BY <1>1, QuotientOfNext
      <3>2. P((k + 1) \div Group)
        BY <1>7, <3>1
      <3> QED
        BY <1>4, <1>5, <3>2
    <2>2. \A w \in 0 .. k + 1 : w \in 0 .. k \/ w = k + 1
      OBVIOUS
    <2> QED
      BY <1>7, <2>1, <2>2
  <1> HIDE DEF S
  <1>8. v \in S
    BY <1>6, <1>7, SetInduction
  <1>9. P(v)
    BY <1>8 DEF S
  <1> QED
    BY <1>9 DEF P

(* A field of a record: a number, or nothing.                              *)
Field(n) == n = NoBytes \/ \E v \in Nat : n = Number(v)

(* It takes the bytes it says.                                             *)
LEMMA FieldLength ==
    ASSUME NEW n, Field(n)
    PROVE  FieldBytes(n) \in Seq(Byte) /\ n.i \in Nat /\ Len(FieldBytes(n)) = n.i
  <1>1. CASE n = NoBytes
    BY <1>1, EmptySeq DEF FieldBytes, NoBytes
  <1>2. CASE \E v \in Nat : n = Number(v)
    <2>1. PICK v \in Nat : n = Number(v)
      BY <1>2
    <2>2. n.value = v /\ n.i = VarintSize[v]
      BY <2>1 DEF Number
    <2>3. Varint[v] \in Seq(Byte) /\ VarintSize[v] \in Nat \ {0} /\ Len(Varint[v]) = VarintSize[v]
      BY VarintWritten
    <2>4. n # NoBytes
      <3>1. n.i # 0
        BY <2>2, <2>3
      <3> QED
        BY <3>1 DEF NoBytes
    <2> QED
      BY <2>2, <2>3, <2>4 DEF FieldBytes
  <1> QED
    BY <1>1, <1>2 DEF Field

(* An entry as the writer knows it.                                        *)
Recorded(e) ==
    /\ e.type \in 0 .. TypeLimit - 1 /\ Field(e.index) /\ Field(e.size)
    /\ e.digest \in Seq(Byte) /\ BodyBytes(e) \in Seq(Byte)

(* The length of its record is the sum of those of its fields.             *)
LEMMA RecordLength ==
    ASSUME NEW e, Recorded(e)
    PROVE  /\ RecordBytes(e) \in Seq(Byte) /\ Len(RecordBytes(e)) \in Nat
           /\ Len(RecordBytes(e)) = 1 + e.index.i + e.size.i + Len(e.digest) + Len(BodyBytes(e))
  <1> DEFINE t == <<e.type>>
             a == FieldBytes(e.index)
             b == FieldBytes(e.size)
             d == e.digest
             r == BodyBytes(e)
             p == e.index.i
             q == e.size.i
  <1>1. /\ a \in Seq(Byte) /\ p \in Nat /\ Len(a) = p
        /\ b \in Seq(Byte) /\ q \in Nat /\ Len(b) = q
    BY FieldLength DEF Recorded
  <1>2. t \in Seq(Byte) /\ Len(t) = 1
    <2>1. e.type \in 0 .. 3 - 1
      BY DEF Recorded, TypeLimit
    <2>2. \A x \in 0 .. 3 - 1 : x \in Byte
      BY ByteType DEF Byte
    <2>3. e.type \in Byte
      BY <2>1, <2>2
    <2> QED
      BY <2>3
  <1>3. d \in Seq(Byte) /\ r \in Seq(Byte) /\ Len(d) \in Nat /\ Len(r) \in Nat
    BY LenProperties DEF Recorded
  <1>4. RecordBytes(e) = t \o (a \o b) \o d \o r
    BY DEF RecordBytes, EntryBytes
  <1> HIDE DEF t, a, b, d, r, p, q
  <1>5. a \o b \in Seq(Byte) /\ Len(a \o b) = p + q
    BY <1>1, Joined
  <1>6. t \o (a \o b) \in Seq(Byte) /\ Len(t \o (a \o b)) = 1 + p + q
    <2> DEFINE u == a \o b
    <2>1. u \in Seq(Byte) /\ Len(u) = p + q
      BY <1>5
    <2> HIDE DEF u
    <2>2. t \o u \in Seq(Byte) /\ Len(t \o u) = Len(t) + Len(u)
      BY <1>2, <2>1, Joined
    <2>3. t \o u \in Seq(Byte) /\ Len(t \o u) = 1 + p + q
      BY <1>1, <1>2, <2>1, <2>2
    <2> QED
      BY <2>3 DEF u
  <1>7. /\ t \o (a \o b) \o d \in Seq(Byte)
        /\ Len(t \o (a \o b) \o d) = 1 + p + q + Len(d)
    BY ZenonT(60), <1>1, <1>3, <1>6, Joined
  <1>8. /\ t \o (a \o b) \o d \o r \in Seq(Byte)
        /\ Len(t \o (a \o b) \o d \o r) = 1 + p + q + Len(d) + Len(r)
    BY <1>1, <1>3, <1>7, Joined
  <1>9. 1 + p + q + Len(d) + Len(r) \in Nat
    BY <1>1, <1>3
  <1>10. /\ RecordBytes(e) \in Seq(Byte)
         /\ Len(RecordBytes(e)) = 1 + p + q + Len(d) + Len(r)
    BY <1>4, <1>8, Zenon
  <1> QED
    BY <1>9, <1>10 DEF d, r, p, q

(* The records that a chunk may have; those of a new chunk are as long as  *)
(* added_size() and modified_size() say (DeltaCodec.hpp:124-129).           *)
LEMMA ChunkRecords ==
    ASSUME NEW c \in Chunks, NEW k \in Nat
    PROVE  /\ RecordBytes(ReusedEntry(c)) \in Seq(Byte)
           /\ RecordBytes(AddedEntry(c)) \in Seq(Byte)
           /\ RecordBytes(DiffEntry(c, k)) \in Seq(Byte)
           /\ Len(RecordBytes(AddedEntry(c))) = AddedSize(Len(c.payload))
           /\ Len(RecordBytes(DiffEntry(c, k)))
                = ModifiedSize(k, Len(c.payload), Len(OpcodesBytes(c.ops)))
  <1> DEFINE n == Len(c.payload)
             m == Len(OpcodesBytes(c.ops))
             r == ReusedEntry(c)
             a == AddedEntry(c)
             d == DiffEntry(c, k)
  <1>1. /\ c.index \in Nat /\ c.payload \in Seq(Byte) /\ c.ops \in Seq(OpType)
        /\ c.digest \in Seq(Byte) /\ Len(c.digest) = DigestBytes
    BY ChunkAssumption
  <1>2. n \in Nat /\ m \in Nat /\ OpcodesBytes(c.ops) \in Seq(Byte) /\ DigestBytes \in Nat
    BY <1>1, OpcodesLayout, LenProperties, LayoutAssumption
  <1>3. Field(Number(c.index)) /\ Field(Number(n)) /\ Field(Number(k)) /\ Field(NoBytes)
    BY <1>1, <1>2 DEF Field
  <1>4. /\ r.type = Original /\ r.index = Number(c.index) /\ r.size = NoBytes
        /\ r.digest = c.digest /\ BodyBytes(r) = <<>>
    BY DEF ReusedEntry, NewEntry, BodyBytes, Original, Modified
  <1>5. /\ a.type = Added /\ a.index = NoBytes /\ a.size = Number(n)
        /\ a.digest = c.digest /\ BodyBytes(a) = c.payload
    BY DEF AddedEntry, NewEntry, BodyBytes, Added, Modified
  <1>6. /\ d.type = Modified /\ d.index = Number(k) /\ d.size = Number(n)
        /\ d.digest = c.digest /\ BodyBytes(d) = OpcodesBytes(c.ops)
    BY DEF DiffEntry, NewEntry, BodyBytes, Modified
  <1> HIDE DEF r, a, d
  <1>7. Recorded(r) /\ Recorded(a) /\ Recorded(d)
    BY <1>1, <1>2, <1>3, <1>4, <1>5, <1>6, EmptySeq
       DEF Recorded, TypeLimit, Original, Added, Modified
  <1>8. /\ RecordBytes(r) \in Seq(Byte) /\ RecordBytes(a) \in Seq(Byte)
        /\ RecordBytes(d) \in Seq(Byte)
        /\ Len(RecordBytes(a)) = 1 + a.index.i + a.size.i + Len(a.digest) + Len(BodyBytes(a))
        /\ Len(RecordBytes(d)) = 1 + d.index.i + d.size.i + Len(d.digest) + Len(BodyBytes(d))
    BY <1>7, RecordLength
  <1> DEFINE x == VarintSize[n]
             y == VarintSize[k]
  <1>9. x \in Nat /\ y \in Nat
    BY <1>2, VarintWritten
  <1>10. a.index.i = 0 /\ a.size.i = x /\ d.index.i = y /\ d.size.i = x
    BY <1>5, <1>6 DEF Number, NoBytes
  <1>11. /\ AddedSize(n) = 1 + x + DigestBytes + n
         /\ ModifiedSize(k, n, m) = 1 + y + x + DigestBytes + m
    BY DEF AddedSize, ModifiedSize
  <1>12. Len(BodyBytes(a)) = n /\ Len(BodyBytes(d)) = m
    BY <1>5, <1>6
  <1> HIDE DEF n, m, x, y
  <1>13. Len(RecordBytes(a)) = 1 + 0 + x + DigestBytes + n
    BY <1>1, <1>5, <1>8, <1>10, <1>12
  <1>14. Len(RecordBytes(d)) = 1 + y + x + DigestBytes + m
    BY <1>1, <1>6, <1>8, <1>10, <1>12
  <1>15. Len(RecordBytes(a)) = AddedSize(n) /\ Len(RecordBytes(d)) = ModifiedSize(k, n, m)
    BY <1>2, <1>9, <1>11, <1>13, <1>14
  <1> QED
    BY <1>8, <1>15 DEF n, m, r, a, d

(* What is written consists of bytes.                                      *)
LEMMA WrittenIsBytes ==
    /\ MaxItems \in Nat /\ HeaderBytes \in Seq(Byte)
    /\ \A c \in Chunks, k \in 0 .. MaxItems - 1 : RecordBytes(EntryFor(c, k)) \in Seq(Byte)
    /\ \A w \in Wholes : TrailerRecord(w) \in Seq(Byte)
  <1>1. MaxItems \in Nat
    BY ChunkAssumption
  <1>2. HeaderBytes \in Seq(Byte)
    <2>1. Magic \in Seq(Byte) /\ Fixed(Version) \in Seq(Byte)
      BY LayoutAssumption, FixedIsBytes
    <2> QED
      BY <2>1, ConcatProperties DEF HeaderBytes
  <1>3. ASSUME NEW c \in Chunks, NEW k \in 0 .. MaxItems - 1
        PROVE  RecordBytes(EntryFor(c, k)) \in Seq(Byte)
    <2>1. k \in Nat
      BY <1>1
    <2> QED
      BY <2>1, ChunkRecords DEF EntryFor
  <1>4. ASSUME NEW w \in Wholes PROVE TrailerRecord(w) \in Seq(Byte)
    <2>1. w \in Seq(Byte) /\ <<TrailerTag>> \in Seq(Byte)
      BY ChunkAssumption, LayoutAssumption
    <2> QED
      BY <2>1, ConcatProperties DEF TrailerRecord
  <1> QED
    BY <1>1, <1>2, <1>3, <1>4

-----------------------------------------------------------------------------
(* The inductive invariant.                                                *)

Numbers == [value : 0 .. WordSize - 1, i : 0 .. MaxBytes]

(* Where the reader stands, and what it has read ahead.                    *)
FileInv ==
    /\ content \in Seq(Byte) /\ chunks \in Seq(Chunks)
    /\ Good(file, content, Byte)
    /\ pc \in {"write", "stored"} => file = Opened(<<>>)

(* A varint under way is below the weight of its next group; a size is     *)
(* checked before anything is read for it.                                 *)
NumberInv ==
    /\ item = [type |-> item.type, index |-> item.index, size |-> item.size,
               digest |-> item.digest, body |-> item.body, diff |-> item.diff]
    /\ item.type \in 0 .. TypeLimit - 1 /\ item.index \in Numbers /\ item.size \in Numbers
    /\ pc = "index" => /\ item.index.i < MaxBytes /\ item.index.value < Weight[item.index.i]
                       /\ item.size = NoBytes
    /\ pc = "size" => item.size.i < MaxBytes /\ item.size.value < Weight[item.size.i]
    /\ pc \in {"digest", "payload", "opcodes", "opcode", "pos", "length", "inline"} =>
           item.size.value <= MaxChunk

(* How far the program has come, and with what.                            *)
PhaseInv ==
    /\ damage \in {"none", "cut", "altered"}
    /\ pc \in {"write", "stored", "header", "item", "tag", "index", "size", "digest",
               "payload", "opcodes", "opcode", "pos", "length", "inline", "trailer",
               "finish", "done"}
    /\ IF pc # "done" THEN status = -1
       ELSE IF file.error THEN status = 2 ELSE status \in {0, 1}

IInv == FileInv /\ NumberInv /\ PhaseInv

-----------------------------------------------------------------------------
(* The file.                                                               *)

(* The reads of FileIO, over a delta: what they return consists of bytes.  *)
LEMMA Reads ==
    ASSUME NEW c \in Seq(Byte), NEW f, Good(f, c, Byte)
    PROVE  /\ \A r \in PeekByte(f, c) : Good(r.file, c, Byte)
           /\ \A r \in ReadByte(f, c) :
                 /\ Good(r.file, c, Byte)
                 /\ \/ r.byte = EndOfFile
                    \/ /\ r.byte \in Byte /\ Position(r.file) = Position(f) + 1
                       /\ r.byte = c[Position(r.file)]
           /\ \A n \in Nat : \A r \in ReadChunk(f, c, n) :
                 Good(r.file, c, Byte) /\ r.bytes \in Seq(Byte) /\ Len(r.bytes) <= n
  <1>1. ASSUME NEW r \in PeekByte(f, c)
        PROVE  Good(r.file, c, Byte)
    BY PeekByteReads
  <1>2. ASSUME NEW r \in ReadByte(f, c)
        PROVE  /\ Good(r.file, c, Byte)
               /\ \/ r.byte = EndOfFile
                  \/ /\ r.byte \in Byte /\ Position(r.file) = Position(f) + 1
                     /\ r.byte = c[Position(r.file)]
    <2>1. /\ Good(r.file, c, Byte)
          /\ \/ r.byte = EndOfFile
             \/ /\ Position(r.file) = Position(f) + 1 /\ Position(r.file) \in 1 .. Len(c)
                /\ r.byte = c[Position(r.file)]
      BY ReadByteReads
    <2>2. Position(r.file) \in 1 .. Len(c) => c[Position(r.file)] \in Byte
      BY ElementOfSeq
    <2> QED
      BY <2>1, <2>2
  <1>3. ASSUME NEW n \in Nat, NEW r \in ReadChunk(f, c, n)
        PROVE  Good(r.file, c, Byte) /\ r.bytes \in Seq(Byte) /\ Len(r.bytes) <= n
    BY ReadChunkReads
  <1> QED
    BY <1>1, <1>2, <1>3

(* Every step of the reader leaves a file that was read correctly.         *)
LEMMA ViewReads ==
    ASSUME IInv, View
    PROVE  /\ Good(file', content, Byte) /\ content' = content /\ chunks' = chunks
           /\ pc' \notin {"write", "stored"}
  <1> DEFINE Right(f) == Good(f, content, Byte)
  <1>1. content \in Seq(Byte) /\ Right(file)
    BY DEF IInv, FileInv
  <1>2. /\ \A r \in PeekByte(file, content) : Right(r.file)
        /\ \A r \in ReadByte(file, content) :
              Right(r.file) /\ (r.byte = EndOfFile \/ r.byte \in Byte)
        /\ \A n \in Nat : \A r \in ReadChunk(file, content, n) : Right(r.file)
    BY <1>1, Reads
  <1>3. \A r \in ReadByte(file, content) :
           /\ \A n \in Nat : \A q \in ReadChunk(r.file, content, n) : Right(q.file)
           /\ \A n \in Nat : \A q \in ReadChunk(r.file, content, n) :
                 \A p \in PeekByte(q.file, content) : Right(p.file)
    <2> TAKE r \in ReadByte(file, content)
    <2>1. Right(r.file)
      BY <1>2
    <2>2. \A n \in Nat : \A q \in ReadChunk(r.file, content, n) : Right(q.file)
      BY <1>1, <2>1, Reads
    <2>3. ASSUME NEW n \in Nat, NEW q \in ReadChunk(r.file, content, n)
          PROVE  \A p \in PeekByte(q.file, content) : Right(p.file)
      <3>1. Right(q.file)
        BY <2>2
      <3> QED
        BY <1>1, <3>1, Reads
    <2> QED
      BY <2>2, <2>3
  <1>4. /\ DigestBytes \in Nat /\ TrailerBytes \in Nat /\ FixedBytes \in Nat
        /\ \A b \in Byte : b \in Nat
        /\ item.size.value \in Nat
    BY SMTT(60), LayoutAssumption, ByteType DEF IInv, NumberInv, Numbers
  <1>5. UNCHANGED written => content' = content /\ chunks' = chunks
    BY DEF written
  <1>6. \A f : Refuse(f) => pc' \notin {"write", "stored"}
    BY DEF Refuse
  <1> HIDE DEF Right
  <1>7. CASE Open
    <2>1. Right([Opened(content) EXCEPT !.error = TRUE]) /\ Right(Opened(content))
      <3>1. Good(Opened(content), content, Byte) /\ Opened(content) \in FileType(Byte)
        BY <1>1, OpenedGood
      <3>2. Good([Opened(content) EXCEPT !.error = TRUE], content, Byte)
        BY <3>1 DEF Good, FileType, Position
      <3> QED
        BY <3>1, <3>2 DEF Right
    <2> QED
      BY <1>5, <1>6, <1>7, <2>1 DEF Open, Goto, Right
  <1>8. CASE ReadHeader
    <2>1. Len(HeaderBytes) \in Nat
      BY WrittenIsBytes, LenProperties
    <2> QED
      BY <1>2, <1>5, <1>6, <1>8, <2>1 DEF ReadHeader, Goto, Right
  <1>9. CASE NextItem
    BY <1>2, <1>5, <1>9 DEF NextItem, Goto, Right
  <1>10. CASE ReadTag
    BY <1>2, <1>5, <1>6, <1>10 DEF ReadTag, Goto, Right
  <1>11. CASE ReadDigest
    BY <1>2, <1>4, <1>5, <1>6, <1>11 DEF ReadDigest, Goto, Show, Right
  <1>12. CASE ReadPayload
    BY <1>2, <1>4, <1>5, <1>6, <1>12 DEF ReadPayload, Goto, Show, Right
  <1>13. CASE AtOpcode
    BY <1>2, <1>5, <1>6, <1>13 DEF AtOpcode, Goto, Show, Right
  <1>14. CASE ReadOpcode
    BY <1>2, <1>5, <1>14 DEF ReadOpcode, Goto, Right
  <1>15. CASE ReadPos
    BY <1>2, <1>4, <1>5, <1>6, <1>15 DEF ReadPos, Goto, Right
  <1>16. CASE ReadLength
    BY <1>2, <1>4, <1>5, <1>6, <1>16 DEF ReadLength, Tally, Goto, Right
  <1>17. CASE ReadInline
    <2>1. PICK c \in ReadByte(file, content) :
             IF c.byte = EndOfFile
             THEN file' = c.file /\ Refuse(c.file)
             ELSE \E r \in ReadChunk(c.file, content, c.byte) :
                     file' = r.file /\ (Refuse(r.file) \/ pc' = "opcodes")
      BY <1>17 DEF ReadInline, Tally, Goto
    <2>2. Right(file') /\ pc' \notin {"write", "stored"}
      <3>1. CASE c.byte = EndOfFile
        BY <1>2, <1>6, <2>1, <3>1
      <3>2. CASE c.byte # EndOfFile
        <4>1. c.byte \in Nat
          BY <1>2, <1>4, <3>2
        <4> QED
          BY <1>3, <1>6, <2>1, <3>2, <4>1
      <3> QED
        BY <3>1, <3>2
    <2> QED
      BY <1>5, <1>17, <2>2 DEF ReadInline, Right
  <1>18. CASE ReadTrailer
    <2>1. PICK t \in ReadByte(file, content) : \E r \in ReadChunk(t.file, content, TrailerBytes) :
             /\ \/ file' = r.file
                \/ \E p \in PeekByte(r.file, content) : file' = p.file
             /\ pc' \notin {"write", "stored"}
      BY <1>6, <1>18 DEF ReadTrailer, Goto
    <2> QED
      BY <1>3, <1>4, <1>5, <1>18, <2>1 DEF ReadTrailer, Right
  <1>19. CASE Finish
    BY <1>1, <1>5, <1>6, <1>19 DEF Finish, Right
  <1>20. CASE \E field \in {"index", "size"} : ReadNumber(field)
    BY <1>2, <1>5, <1>6, <1>20 DEF ReadNumber, Goto, Right
  <1> QED
    BY <1>7, <1>8, <1>9, <1>10, <1>11, <1>12, <1>13, <1>14, <1>15, <1>16, <1>17, <1>18, <1>19,
       <1>20 DEF View

(* Before the file is opened, what is written is a sequence of bytes.      *)
LEMMA FileStep ==
    ASSUME IInv, [Next]_vars
    PROVE  FileInv'
  <1>1. content \in Seq(Byte) /\ chunks \in Seq(Chunks) /\ Good(file, content, Byte)
    BY DEF IInv, FileInv
  <1>2. pc \in {"write", "stored"} => file = Opened(<<>>)
    BY DEF IInv, FileInv
  <1>3. \A c \in Seq(Byte) : Good(Opened(<<>>), c, Byte)
    <2>1. \A c \in Seq(Byte) : Len(c) \in Nat
      BY LenProperties
    <2>2. <<>> \in Seq(Byte) /\ Len(<<>>) = 0
      BY EmptySeq
    <2> QED
      BY <2>1, <2>2 DEF Opened, Good, FileType, Position
  <1>4. CASE WriteEntry
    <2>1. PICK c \in Chunks :
             /\ chunks' = Append(chunks, c)
             /\ content' = content \o RecordBytes(EntryFor(c, Len(chunks)))
      BY <1>4 DEF WriteEntry
    <2>2. Len(chunks) \in 0 .. MaxItems - 1
      BY <1>1, <1>4, WrittenIsBytes, LenProperties DEF WriteEntry
    <2>3. RecordBytes(EntryFor(c, Len(chunks))) \in Seq(Byte)
      BY <2>2, WrittenIsBytes
    <2>4. content' \in Seq(Byte)
      BY <1>1, <2>1, <2>3, ConcatProperties
    <2>5. chunks' \in Seq(Chunks)
      BY <1>1, <2>1, AppendProperties
    <2>6. pc' = "write" /\ file' = Opened(<<>>)
      BY <1>2, <1>4 DEF WriteEntry
    <2> QED
      BY <1>3, <2>4, <2>5, <2>6 DEF FileInv
  <1>5. CASE WriteTrailer
    <2>1. whole' \in Wholes /\ content' = content \o TrailerRecord(whole')
      BY <1>5 DEF WriteTrailer
    <2>2. TrailerRecord(whole') \in Seq(Byte)
      BY <2>1, WrittenIsBytes
    <2>3. content' \in Seq(Byte)
      BY <1>1, <2>1, <2>2, ConcatProperties
    <2>4. chunks' = chunks /\ file' = Opened(<<>>)
      BY <1>2, <1>5 DEF WriteTrailer
    <2> QED
      BY <1>1, <1>3, <2>3, <2>4 DEF FileInv
  <1>6. CASE Damage
    <2>1. content' \in Seq(Byte)
      <3>1. \A i \in 1 .. Len(content) : content[i] \in Byte
        BY <1>1, ElementOfSeq
      <3>2. Len(content) \in Nat /\ DOMAIN content = 1 .. Len(content)
        BY <1>1, LenProperties
      <3>3. ASSUME NEW k \in 0 .. Len(content) - 1
            PROVE  SubSeq(content, 1, k) \in Seq(Byte)
        <4>1. k \in Int /\ \A i \in 1 .. k : content[i] \in Byte
          BY <3>1, <3>2
        <4> QED
          BY <1>1, <4>1, SubSeqProperties
      <3>4. ASSUME NEW k \in DOMAIN content, NEW b \in Byte
            PROVE  [content EXCEPT ![k] = b] \in Seq(Byte)
        BY <1>1, <3>2, ExceptSeq
      <3>5. ASSUME NEW k \in DOMAIN content
            PROVE  RemoveAt(content, k) \in Seq(Byte)
        <4>1. k \in 1 .. Len(content)
          BY <3>2
        <4>2. SubSeq(content, 1, k - 1) \in Seq(Byte)
          <5>1. k - 1 \in Int /\ \A i \in 1 .. k - 1 : content[i] \in Byte
            BY <3>1, <3>2, <4>1
          <5> QED
            BY <1>1, <5>1, SubSeqProperties
        <4>3. SubSeq(content, k + 1, Len(content)) \in Seq(Byte)
          <5>1. k + 1 \in Int /\ \A i \in k + 1 .. Len(content) : content[i] \in Byte
            BY <3>1, <3>2, <4>1
          <5> QED
            BY <1>1, <3>2, <5>1, SubSeqProperties
        <4> QED
          BY <4>2, <4>3, ConcatProperties DEF RemoveAt
      <3>6. ASSUME NEW b \in Byte
            PROVE  Append(content, b) \in Seq(Byte)
        BY <1>1, AppendProperties
      <3> QED
        BY <1>6, <3>3, <3>4, <3>5, <3>6 DEF Damage
    <2>2. chunks' = chunks /\ file' = Opened(<<>>) /\ pc' = "stored"
      BY <1>2, <1>6 DEF Damage
    <2> QED
      BY <1>1, <1>3, <2>1, <2>2 DEF FileInv
  <1>7. CASE View
    <2>1. /\ Good(file', content, Byte) /\ content' = content /\ chunks' = chunks
          /\ pc' \notin {"write", "stored"}
      BY <1>7, ViewReads
    <2> QED
      BY <1>1, <2>1 DEF FileInv
  <1>8. CASE UNCHANGED vars
    <2>1. content' = content /\ chunks' = chunks /\ file' = file /\ pc' = pc
      BY <1>8 DEF vars, written
    <2> QED
      BY <1>1, <1>2, <2>1 DEF FileInv
  <1> QED
    BY <1>4, <1>5, <1>6, <1>7, <1>8 DEF Next, Done

-----------------------------------------------------------------------------
(* The phases: what stops the reader sets the status it stops with.        *)
LEMMA PhaseStep ==
    ASSUME IInv, [Next]_vars
    PROVE  PhaseInv'
  <1> DEFINE Reading == {"header", "item", "tag", "index", "size", "digest", "payload",
                         "opcodes", "opcode", "pos", "length", "inline", "trailer", "finish"}
  <1>1. PhaseInv
    BY DEF IInv
  <1>2. CASE WriteEntry \/ WriteTrailer \/ Damage
    BY <1>1, <1>2 DEF PhaseInv, WriteEntry, WriteTrailer, Damage
  <1>3. CASE View
    <2>1. damage' = damage /\ pc # "done"
      BY <1>3 DEF View, Open, ReadHeader, NextItem, ReadTag, ReadDigest, ReadPayload, AtOpcode,
                  ReadOpcode, ReadPos, ReadLength, ReadInline, ReadTrailer, Finish, ReadNumber,
                  written
    <2>2. \/ pc' \in Reading /\ UNCHANGED status
          \/ Refuse(file')
          \/ pc' = "done" /\ status' = 0 /\ ~file'.error
      <3>1. CASE Open
        BY <3>1 DEF Open, Goto
      <3>2. CASE ReadHeader
        BY <3>2 DEF ReadHeader, Goto
      <3>3. CASE NextItem
        BY <3>3 DEF NextItem, Goto
      <3>4. CASE ReadTag
        BY <3>4 DEF ReadTag, Goto
      <3>5. CASE ReadDigest
        BY <3>5 DEF ReadDigest, Goto, Show
      <3>6. CASE ReadPayload
        BY <3>6 DEF ReadPayload, Goto, Show
      <3>7. CASE AtOpcode
        BY <3>7 DEF AtOpcode, Goto, Show
      <3>8. CASE ReadOpcode
        BY <3>8 DEF ReadOpcode, Goto
      <3>9. CASE ReadPos
        BY <3>9 DEF ReadPos, Goto
      <3>10. CASE ReadLength
        BY <3>10 DEF ReadLength, Goto, Tally
      <3>11. CASE ReadInline
        BY <3>11 DEF ReadInline, Goto, Tally
      <3>12. CASE ReadTrailer
        BY <3>12 DEF ReadTrailer, Goto
      <3>13. CASE Finish
        BY <3>13 DEF Finish
      <3>14. CASE \E field \in {"index", "size"} : ReadNumber(field)
        BY <3>14 DEF ReadNumber, Goto
      <3> QED
        BY <1>3, <3>1, <3>2, <3>3, <3>4, <3>5, <3>6, <3>7, <3>8, <3>9, <3>10, <3>11, <3>12,
           <3>13, <3>14 DEF View
    <2>3. CASE pc' \in Reading /\ UNCHANGED status
      BY <1>1, <2>1, <2>3 DEF PhaseInv
    <2>4. CASE Refuse(file')
      BY <1>1, <2>1, <2>4 DEF PhaseInv, Refuse
    <2>5. CASE pc' = "done" /\ status' = 0 /\ ~file'.error
      BY <1>1, <2>1, <2>5 DEF PhaseInv
    <2> QED
      BY <2>2, <2>3, <2>4, <2>5
  <1>4. CASE UNCHANGED vars
    BY <1>1, <1>4 DEF PhaseInv, vars, written
  <1> QED
    BY <1>2, <1>3, <1>4 DEF Next, Done

-----------------------------------------------------------------------------
(* The numbers.                                                            *)

(* One step of read_varint(): either it stops with an error, or the number *)
(* grows by one group in full.                                             *)
LEMMA NumberReads ==
    ASSUME IInv, NEW field \in {"index", "size"}, ReadNumber(field)
    PROVE  \E r \in ReadByte(file, content) :
              /\ file' = r.file
              /\ \/ item' = item /\ pc' = "done"
                 \/ LET n == AddGroup(item[field], r.byte)
                    IN  /\ r.byte \in Byte /\ r.byte = content[Position(file')]
                        /\ item' = [item EXCEPT ![field] = n]
                        /\ n \in [value : 0 .. WordSize - 1, i : 1 .. MaxBytes]
                        /\ n = [value |-> item[field].value
                                          + Bits(r.byte) * Weight[item[field].i],
                                i     |-> item[field].i + 1]
                        /\ \/ More(r.byte) /\ pc' = field
                              /\ n.i < MaxBytes /\ n.value < Weight[n.i]
                           \/ ~More(r.byte) /\ field = "index" /\ pc' \in {"digest", "size"}
                              /\ (pc' = "digest" <=> item.type = Original)
                           \/ ~More(r.byte) /\ field = "size" /\ pc' = "done"
                           \/ ~More(r.byte) /\ field = "size" /\ pc' = "digest"
                              /\ n.value <= MaxChunk
  <1> DEFINE m == item[field]
  <1>1. PICK r \in ReadByte(file, content) :
           /\ file' = r.file
           /\ IF \/ r.byte = EndOfFile \/ Oversized(m, r.byte)
                 \/ More(r.byte) /\ m.i = MaxBytes - 1
              THEN pc' = "done" /\ item' = item
              ELSE /\ item' = [item EXCEPT ![field] = AddGroup(@, r.byte)]
                   /\ IF More(r.byte) THEN pc' = field
                      ELSE IF field = "index"
                      THEN pc' = IF item.type = Original THEN "digest" ELSE "size"
                      ELSE \/ pc' = "done"
                           \/ pc' = "digest" /\ ~TooLarge(item'.size.value)
    BY DEF ReadNumber, Goto, Refuse
  <1>2. CASE \/ r.byte = EndOfFile \/ Oversized(m, r.byte)
             \/ More(r.byte) /\ m.i = MaxBytes - 1
    BY <1>1, <1>2
  <1>3. CASE ~ \/ r.byte = EndOfFile \/ Oversized(m, r.byte)
               \/ More(r.byte) /\ m.i = MaxBytes - 1
    <2> DEFINE n == AddGroup(m, r.byte)
    <2>1. r.byte \in Byte /\ r.byte = content[Position(r.file)]
      BY <1>3, Reads DEF IInv, FileInv
    <2>2. pc = field
      BY DEF ReadNumber
    <2>3. m \in Numbers /\ m.i < MaxBytes /\ m.value < Weight[m.i]
      BY <2>2 DEF IInv, NumberInv
    <2>4. WordSize \in Nat /\ MaxBytes \in Nat
      BY ByteType
    <2>5. m \in [value : Nat, i : Nat]
      BY <2>3, <2>4 DEF Numbers
    <2> HIDE DEF m
    <2>6. /\ n = [value |-> m.value + Bits(r.byte) * Weight[m.i], i |-> m.i + 1]
          /\ n \in [value : 0 .. WordSize - 1, i : 1 .. MaxBytes]
          /\ More(r.byte) => m.i + 1 < MaxBytes /\ n.value < Weight[m.i + 1]
      BY <1>3, <2>1, <2>3, <2>5, GroupFits
    <2>7. n.i = m.i + 1
      BY <2>6
    <2>8. item' = [item EXCEPT ![field] = n]
      BY <1>1, <1>3 DEF m
    <2> HIDE DEF n
    <2>9. \/ More(r.byte) /\ pc' = field /\ n.i < MaxBytes /\ n.value < Weight[n.i]
          \/ ~More(r.byte) /\ field = "index" /\ pc' \in {"digest", "size"}
             /\ (pc' = "digest" <=> item.type = Original)
          \/ ~More(r.byte) /\ field = "size" /\ pc' = "done"
          \/ ~More(r.byte) /\ field = "size" /\ pc' = "digest" /\ n.value <= MaxChunk
      <3>1. CASE More(r.byte)
        BY <1>1, <1>3, <2>6, <2>7, <3>1
      <3>2. CASE ~More(r.byte) /\ field = "index"
        BY <1>1, <1>3, <3>2
      <3>3. CASE ~More(r.byte) /\ field = "size"
        <4>1. n.value \in Nat /\ MaxChunk \in Nat
          BY <2>4, <2>6, LayoutAssumption
        <4>2. item'.size = n
          <5>1. item' = [item EXCEPT !["size"] = n] /\ "size" \in DOMAIN item
            BY <2>8, <3>3 DEF IInv, NumberInv
          <5> QED
            BY <5>1
        <4>3. TooLarge(n.value) \/ n.value <= MaxChunk
          BY <4>1 DEF TooLarge
        <4> QED
          BY <1>1, <1>3, <3>3, <4>2, <4>3
      <3> QED
        BY <3>1, <3>2, <3>3
    <2> QED
      BY <1>1, <2>1, <2>6, <2>8, <2>9 DEF n, m
  <1> QED
    BY <1>2, <1>3

(* No number that is under way, or asked for, is out of bounds.            *)
LEMMA NumberStep ==
    ASSUME IInv, [Next]_vars
    PROVE  NumberInv'
  <1> DEFINE Sized    == {"digest", "payload", "opcodes", "opcode", "pos", "length", "inline"}
             Entry(e) == e = [type |-> e.type, index |-> e.index, size |-> e.size,
                              digest |-> e.digest, body |-> e.body, diff |-> e.diff]
  <1>1. /\ Entry(item)
        /\ item.type \in 0 .. TypeLimit - 1 /\ item.index \in Numbers /\ item.size \in Numbers
        /\ pc = "index" => /\ item.index.i < MaxBytes /\ item.index.value < Weight[item.index.i]
                           /\ item.size = NoBytes
        /\ pc = "size" => item.size.i < MaxBytes /\ item.size.value < Weight[item.size.i]
        /\ pc \in Sized => item.size.value <= MaxChunk
    BY DEF IInv, NumberInv
  <1>2. /\ NoBytes \in Numbers /\ NoBytes.i < MaxBytes /\ NoBytes.value < Weight[NoBytes.i]
        /\ NoBytes.value <= MaxChunk
    <2>1. Weight[0] = 1 /\ MaxBytes \in Nat \ {0} /\ MaxChunk \in Nat
      BY WidthAssumption, LayoutAssumption
    <2>2. WordSize \in Nat /\ WordSize > 0
      <3>1. MaxBytes - 1 \in 0 .. MaxBytes /\ 0 \in 0 .. MaxBytes /\ 0 <= MaxBytes - 1
        BY <2>1
      <3>2. Weight[0] <= Weight[MaxBytes - 1]
        BY <3>1, WidthAssumption
      <3> QED
        BY <2>1, <3>2, ByteType
    <2> QED
      BY <2>1, <2>2 DEF NoBytes, Numbers
  (* Where the numbers stay, and no number is begun. *)
  <1>3. ASSUME Entry(item'), item'.type = item.type, item'.index = item.index,
               item'.size = item.size, pc' \notin {"index", "size"},
               pc' \in Sized => pc \in Sized
        PROVE  NumberInv'
    BY <1>1, <1>3 DEF NumberInv
  <1>4. CASE WriteEntry \/ WriteTrailer \/ Damage
    <2>1. item' = item /\ pc' \in {"write", "stored"}
      BY <1>4 DEF WriteEntry, WriteTrailer, Damage
    <2> QED
      BY <1>1, <1>3, <2>1
  <1>5. CASE Open \/ ReadHeader \/ NextItem \/ ReadTrailer \/ Finish
    <2>1. item' = item
      BY <1>5 DEF Open, ReadHeader, NextItem, ReadTrailer, Finish
    <2>2. pc' \in {"header", "item", "trailer", "tag", "finish", "done"}
      BY <1>5 DEF Open, ReadHeader, NextItem, ReadTrailer, Finish, Goto, Refuse
    <2> QED
      BY <1>1, <1>3, <2>1, <2>2
  <1>6. CASE ReadTag
    <2>1. PICK type : \/ item' = item /\ pc' = "done"
                      \/ /\ type \in 0 .. TypeLimit - 1
                         /\ item' = NewEntry(type) /\ pc' \in {"index", "size"}
      BY <1>6 DEF ReadTag, Goto, Refuse
    <2>2. CASE item' = item /\ pc' = "done"
      BY <1>1, <1>3, <2>2
    <2>3. CASE /\ type \in 0 .. TypeLimit - 1
               /\ item' = NewEntry(type) /\ pc' \in {"index", "size"}
      BY <1>2, <2>3 DEF NumberInv, NewEntry
    <2> QED
      BY <2>1, <2>2, <2>3
  <1>7. CASE ReadDigest \/ ReadPayload
    <2>1. \/ \E d : item' = [item EXCEPT !.digest = d]
          \/ \E b : item' = [item EXCEPT !.body = b]
      BY <1>7 DEF ReadDigest, ReadPayload
    <2>2. pc \in Sized /\ pc' \in {"done", "item", "payload", "opcodes"}
      BY <1>7 DEF ReadDigest, ReadPayload, Show, Goto, Refuse
    <2>3. /\ Entry(item') /\ item'.type = item.type
          /\ item'.index = item.index /\ item'.size = item.size
      BY <1>1, <2>1
    <2> QED
      BY <1>3, <2>2, <2>3
  <1>8. CASE AtOpcode \/ ReadOpcode \/ ReadPos
    <2>1. item' = item /\ pc \in Sized
      BY <1>8 DEF AtOpcode, ReadOpcode, ReadPos
    <2>2. pc' \in {"opcode", "item", "pos", "length", "inline", "done"}
      BY <1>8 DEF AtOpcode, ReadOpcode, ReadPos, Show, Goto, Refuse
    <2> QED
      BY <1>1, <1>3, <2>1, <2>2
  <1>9. CASE ReadLength \/ ReadInline
    <2>1. item' = item \/ \E b, d : item' = [item EXCEPT !.body = b, !.diff = d]
      BY ZenonT(60), <1>9 DEF ReadLength, ReadInline, Tally
    <2>2. pc \in Sized /\ pc' \in {"opcodes", "done"}
      BY <1>9 DEF ReadLength, ReadInline, Tally, Goto, Refuse
    <2>3. /\ Entry(item') /\ item'.type = item.type
          /\ item'.index = item.index /\ item'.size = item.size
      BY <1>1, <2>1
    <2> QED
      BY SMTT(60), <1>3, <2>2, <2>3
  <1>10. ASSUME NEW field \in {"index", "size"}, ReadNumber(field)
         PROVE  NumberInv'
    <2>1. pc = field
      BY <1>10 DEF ReadNumber
    <2>2. CASE item' = item /\ pc' = "done"
      BY <1>1, <1>3, <2>2
    <2>3. ASSUME NEW n \in [value : 0 .. WordSize - 1, i : 1 .. MaxBytes],
                 item' = [item EXCEPT ![field] = n],
                 \/ pc' = field /\ n.i < MaxBytes /\ n.value < Weight[n.i]
                 \/ field = "index" /\ pc' \in {"digest", "size"}
                 \/ field = "size" /\ pc' = "done"
                 \/ field = "size" /\ pc' = "digest" /\ n.value <= MaxChunk
          PROVE  NumberInv'
      <3>1. n \in Numbers
        BY DEF Numbers
      <3>2. CASE field = "index"
        <4>1. Entry(item') /\ item'.type = item.type /\ item'.index = n /\ item'.size = NoBytes
          BY <1>1, <2>1, <2>3, <3>2
        <4>2. \/ pc' = "index" /\ n.i < MaxBytes /\ n.value < Weight[n.i]
              \/ pc' \in {"digest", "size"}
          BY <2>3, <3>2
        <4> QED
          BY <1>1, <1>2, <3>1, <4>1, <4>2 DEF NumberInv
      <3>3. CASE field = "size"
        <4>1. Entry(item') /\ item'.type = item.type /\ item'.index = item.index /\ item'.size = n
          BY <1>1, <2>3, <3>3
        <4>2. \/ pc' = "size" /\ n.i < MaxBytes /\ n.value < Weight[n.i]
              \/ pc' = "done"
              \/ pc' = "digest" /\ n.value <= MaxChunk
          BY <2>3, <3>3
        <4> QED
          BY <1>1, <3>1, <4>1, <4>2 DEF NumberInv
      <3> QED
        BY <3>2, <3>3
    <2> QED
      BY <1>10, <2>2, <2>3, NumberReads
  <1>11. CASE UNCHANGED vars
    <2>1. item' = item /\ pc' = pc
      BY <1>11 DEF vars
    <2> QED
      BY <1>1, <2>1 DEF NumberInv
  <1> QED
    BY <1>4, <1>5, <1>6, <1>7, <1>8, <1>9, <1>10, <1>11 DEF Next, View, Done

-----------------------------------------------------------------------------
(* Types, positions, statuses and numbers.                                 *)

(* The file is empty and nothing is under way.                             *)
LEMMA Starts == Init => IInv
  <1> SUFFICES ASSUME Init PROVE IInv
    OBVIOUS
  <1>1. FileInv
    <2>1. content \in Seq(Byte) /\ Len(content) \in Nat /\ chunks \in Seq(Chunks)
      BY WrittenIsBytes, EmptySeq, LenProperties DEF Init
    <2>2. file = Opened(<<>>)
      BY DEF Init
    <2>3. <<>> \in Seq(Byte) /\ Len(<<>>) = 0
      BY EmptySeq
    <2>4. Good(file, content, Byte)
      BY <2>1, <2>2, <2>3 DEF Opened, Good, FileType, Position
    <2> QED
      BY <2>1, <2>2, <2>4 DEF FileInv
  <1>2. NumberInv
    <2>1. item = NewEntry(Original) /\ pc = "write"
      BY DEF Init
    <2>2. NoBytes \in Numbers
      <3>1. Weight[0] = 1 /\ MaxBytes \in Nat \ {0} /\ MaxBytes - 1 \in 0 .. MaxBytes
        BY WidthAssumption
      <3>2. Weight[0] <= Weight[MaxBytes - 1]
        BY <3>1, WidthAssumption
      <3>3. WordSize \in Nat /\ WordSize > 0
        BY <3>1, <3>2, ByteType
      <3> QED
        BY <3>1, <3>3 DEF NoBytes, Numbers
    <2>3. Original \in 0 .. TypeLimit - 1
      BY DEF Original, TypeLimit
    <2> QED
      BY <2>1, <2>2, <2>3 DEF NumberInv, NewEntry
  <1>3. PhaseInv
    BY DEF Init, PhaseInv
  <1> QED
    BY <1>1, <1>2, <1>3 DEF IInv

(* Types, positions, numbers and phases, in every reachable state.         *)
THEOREM Inductive == Spec => []IInv
  <1>1. IInv /\ [Next]_vars => IInv'
    BY FileStep, NumberStep, PhaseStep DEF IInv
  <1> QED
    BY <1>1, Starts, PTL DEF Spec

(* No size beyond the maximum gets to where a digest, a payload or opcodes *)
(* are read for it, whatever the bytes of the delta (DeltaCodec.hpp:255).  *)
THEOREM TypeCorrect == Spec => []TypeOK
  <1>1. IInv => TypeOK
    <2> SUFFICES ASSUME IInv PROVE TypeOK
      OBVIOUS
    <2>1. content \in Seq(Byte) /\ NumberType(item.index) /\ NumberType(item.size)
      BY DEF IInv, FileInv, NumberInv, Numbers, NumberType
    <2>2. pc \in {"digest", "payload", "opcodes"} => item.size.value <= MaxChunk
      BY DEF IInv, NumberInv
    <2>3. status \in -1 .. 2 /\ (status = -1 <=> pc # "done")
      BY DEF IInv, PhaseInv
    <2>4. item.type \in 0 .. TypeLimit - 1
      BY DEF IInv, NumberInv
    <2> QED
      BY <2>1, <2>2, <2>3, <2>4 DEF TypeOK, IInv, PhaseInv
  <1> QED
    BY <1>1, Inductive, PTL

(* For every length of the buffer, of the reads and of the file, and       *)
(* wherever a read fails: what was read ahead is what comes next.          *)
THEOREM ReadAhead == Spec => []ReadAheadIsNext
  <1>1. IInv => ReadAheadIsNext
    <2> SUFFICES ASSUME IInv PROVE ReadAheadIsNext
      OBVIOUS
    <2> DEFINE b == file.buf
               p == Consumed(file)
               t == SubSeq(content, p + 1, file.at)
    <2>1. /\ content \in Seq(Byte) /\ b \in Seq(Byte) /\ file.at \in Nat
          /\ Len(b) \in Nat /\ Len(b) <= file.at /\ Len(content) \in Nat /\ file.at <= Len(content)
          /\ p = file.at - Len(b) /\ p \in Nat
          /\ \A i \in 1 .. Len(b) : b[i] = content[p + i]
      BY LenProperties DEF IInv, FileInv, Good, FileType, Position, Consumed
    <2> HIDE DEF b, p
    <2>2. \A i \in p + 1 .. file.at : content[i] \in Byte
      BY <2>1, ElementOfSeq
    <2>3. /\ SubSeq(content, p + 1, file.at) \in Seq(Byte)
          /\ Len(SubSeq(content, p + 1, file.at))
               = IF p + 1 <= file.at THEN file.at - (p + 1) + 1 ELSE 0
          /\ \A i \in 1 .. file.at - (p + 1) + 1 :
                SubSeq(content, p + 1, file.at)[i] = content[p + 1 + i - 1]
      <3> DEFINE m == p + 1
                 l == file.at
      <3>1. m \in Int /\ l \in Int /\ content \in Seq(Byte)
        BY <2>1
      <3>2. \A i \in m .. l : content[i] \in Byte
        BY <2>2
      <3> HIDE DEF m, l
      <3>3. /\ SubSeq(content, m, l) \in Seq(Byte)
            /\ Len(SubSeq(content, m, l)) = IF m <= l THEN l - m + 1 ELSE 0
            /\ \A i \in 1 .. l - m + 1 : SubSeq(content, m, l)[i] = content[m + i - 1]
        BY <3>1, <3>2, SubSeqProperties
      <3> QED
        BY <3>3 DEF m, l
    <2> HIDE DEF t
    <2>t. t = SubSeq(content, p + 1, file.at)
      BY DEF t
    <2>4. Len(t) = Len(b)
      BY SMTT(60), <2>1, <2>3, <2>t
    <2>5. \A i \in 1 .. Len(b) : b[i] = t[i]
      <3> TAKE i \in 1 .. Len(b)
      <3>1. i \in 1 .. file.at - (p + 1) + 1 /\ p + 1 + i - 1 = p + i
        BY SMTT(60), <2>1
      <3> QED
        BY <2>1, <2>3, <2>t, <3>1
    <2>6. b = t
      <3>1. t \in Seq(Byte)
        BY <2>3, <2>t
      <3> QED
        BY <2>1, <2>4, <2>5, <3>1, SeqEqual
    <2>7. file.at \in 0 .. Len(content) /\ Len(b) <= file.at
      BY <2>1
    <2> QED
      BY <2>6, <2>7, <2>t DEF ReadAheadIsNext, b, p
  <1> QED
    BY <1>1, Inductive, PTL

(* Wherever a read fails, or the bytes are wrong, the status says which.   *)
THEOREM StatusTold == Spec => []StatusTellsWhy
  <1>1. IInv => StatusTellsWhy
    BY DEF IInv, FileInv, Good, FileType, PhaseInv, StatusTellsWhy
  <1> QED
    BY <1>1, Inductive, PTL

(* For every width of the word and of its groups, no bit of a varint is    *)
(* shifted out, however many bytes it has and whatever they are.           *)
THEOREM NumbersExact == Spec => NumberExact
  <1> DEFINE Exact(field) ==
               item'[field].i = item[field].i + 1 =>
                   item'[field].value =
                       item[field].value + Bits(content[Consumed(file')]) * Weight[item[field].i]
  <1>1. ASSUME IInv, [Next]_vars
        PROVE  [\A field \in {"index", "size"} : Exact(field)]_vars
    <2>1. /\ item.index.i \in Nat /\ item.size.i \in Nat
          /\ item = [type |-> item.type, index |-> item.index, size |-> item.size,
                     digest |-> item.digest, body |-> item.body, diff |-> item.diff]
      BY <1>1, ByteType DEF IInv, NumberInv, Numbers
    <2>2. CASE item'.index = item.index /\ item'.size = item.size
      <3>1. ASSUME NEW field \in {"index", "size"}
            PROVE  item'[field].i # item[field].i + 1
        BY <2>1, <2>2
      <3> QED
        BY <3>1
    <2>3. CASE item'.index = NoBytes /\ item'.size = NoBytes
      <3>1. ASSUME NEW field \in {"index", "size"}
            PROVE  item'[field].i # item[field].i + 1
        BY <2>1, <2>3 DEF NoBytes
      <3> QED
        BY <3>1
    <2>4. ASSUME NEW field \in {"index", "size"}, ReadNumber(field)
          PROVE  \A other \in {"index", "size"} : Exact(other)
      <3>1. CASE item' = item
        BY <2>2, <3>1, <2>1
      <3>2. ASSUME NEW byte \in Byte, NEW n,
                   byte = content[Position(file')],
                   item' = [item EXCEPT ![field] = n],
                   n = [value |-> item[field].value + Bits(byte) * Weight[item[field].i],
                        i     |-> item[field].i + 1]
            PROVE  \A other \in {"index", "size"} : Exact(other)
        <4> TAKE other \in {"index", "size"}
        <4>1. CASE other = field
          <5>1. item'[field] = n
            BY <2>1, <3>2
          <5>2. Consumed(file') = Position(file')
            BY DEF Consumed, Position
          <5> QED
            BY <3>2, <4>1, <5>1, <5>2
        <4>2. CASE other # field
          <5>1. item'[other] = item[other]
            BY <2>1, <3>2, <4>2
          <5>2. item[other].i \in Nat
            BY <2>1
          <5> QED
            BY <5>1, <5>2
        <4> QED
          BY <4>1, <4>2
      <3>3. PICK r \in ReadByte(file, content) :
               \/ item' = item
               \/ \E n : /\ r.byte \in Byte /\ r.byte = content[Position(file')]
                        /\ item' = [item EXCEPT ![field] = n]
                        /\ n = [value |-> item[field].value
                                          + Bits(r.byte) * Weight[item[field].i],
                                i     |-> item[field].i + 1]
        BY <1>1, <2>4, NumberReads
      <3> QED
        BY <3>1, <3>2, <3>3
    <2>5. CASE ~\E field \in {"index", "size"} : ReadNumber(field)
      <3>1. \/ item'.index = item.index /\ item'.size = item.size
            \/ item'.index = NoBytes /\ item'.size = NoBytes
        <4>1. CASE WriteEntry \/ WriteTrailer \/ Damage \/ UNCHANGED vars
          BY <4>1 DEF WriteEntry, WriteTrailer, Damage, vars
        <4>2. CASE Open \/ ReadHeader \/ NextItem \/ ReadTrailer \/ Finish \/ AtOpcode \/ ReadOpcode
                   \/ ReadPos
          BY <4>2 DEF Open, ReadHeader, NextItem, ReadTrailer, Finish, AtOpcode, ReadOpcode, ReadPos
        <4>3. CASE ReadTag
          BY <4>3 DEF ReadTag, NewEntry
        <4>4. CASE ReadDigest \/ ReadPayload
          BY SMTT(60), <2>1, <4>4 DEF ReadDigest, ReadPayload
        <4>5. CASE ReadLength \/ ReadInline
          BY <2>1, <4>5 DEF ReadLength, ReadInline, Tally
        <4> QED
          BY <1>1, <2>5, <4>1, <4>2, <4>3, <4>4, <4>5 DEF Next, View, Done
      <3> QED
        BY <2>2, <2>3, <3>1
    <2> QED
      BY <2>4, <2>5
  <1> QED
    BY <1>1, Inductive, PTL DEF Spec, NumberExact

-----------------------------------------------------------------------------
(* Varints.                                                                *)

(* A varint under way: every byte so far says that more follow.            *)
Groups(n) == [k \in 1 .. n.i |-> ((n.value \div Weight[k - 1]) % Group) + Group]

(* The weights of the groups of a varint.                                  *)
LEMMA WeightType ==
    /\ \A k \in 0 .. MaxBytes : Weight[k] \in Nat \ {0}
    /\ \A k \in 1 .. MaxBytes : Weight[k] = Group * Weight[k - 1]
    /\ MaxBytes \in Nat \ {0} /\ Group \in Nat \ {0, 1}
  <1>1. /\ Group \in Nat \ {0, 1} /\ MaxBytes \in Nat \ {0}
        /\ Weight \in [0 .. MaxBytes -> Nat] /\ Weight[0] = 1
        /\ \A i \in 0 .. MaxBytes - 1 : Weight[i + 1] = Group * Weight[i]
        /\ \A i, j \in 0 .. MaxBytes : i <= j => Weight[i] <= Weight[j]
    BY WidthAssumption
  <1>2. ASSUME NEW k \in 0 .. MaxBytes PROVE Weight[k] \in Nat \ {0}
    <2>1. 0 \in 0 .. MaxBytes /\ 0 <= k
      BY <1>1
    <2>2. Weight[0] <= Weight[k] /\ Weight[k] \in Nat
      BY <1>1, <2>1
    <2> QED
      BY <1>1, <2>2
  <1>3. ASSUME NEW k \in 1 .. MaxBytes PROVE Weight[k] = Group * Weight[k - 1]
    <2>1. k - 1 \in 0 .. MaxBytes - 1 /\ (k - 1) + 1 = k
      BY <1>1
    <2> QED
      BY <1>1, <2>1
  <1> QED
    BY <1>1, <1>2, <1>3

(* A weight is a multiple of the lower ones.                               *)
LEMMA WeightMultiple ==
    ASSUME NEW j \in 0 .. MaxBytes, NEW i \in 0 .. MaxBytes, j <= i
    PROVE  \E q \in Nat : Weight[i] = q * Weight[j]
  <1> DEFINE n == MaxBytes - j
             S == {d \in 0 .. n : \E q \in Nat : Weight[j + d] = q * Weight[j]}
  <1>1. n \in Nat /\ j \in Nat /\ j + n = MaxBytes /\ Weight[j] \in Nat
    BY WeightType
  <1>2. 0 \in S
    <2>1. j + 0 = j /\ 0 \in 0 .. n /\ Weight[j] = 1 * Weight[j]
      BY <1>1
    <2> QED
      BY <2>1
  <1>3. ASSUME NEW d \in 1 .. n, d - 1 \in S PROVE d \in S
    <2>1. PICK q \in Nat : Weight[j + (d - 1)] = q * Weight[j]
      BY <1>3
    <2>2. j + d \in 1 .. MaxBytes /\ j + d - 1 = j + (d - 1) /\ d \in 0 .. n
      BY <1>1
    <2>3. Weight[j + d] = Group * (q * Weight[j]) /\ Group \in Nat
      BY <2>1, <2>2, WeightType
    <2>4. Group * (q * Weight[j]) = (Group * q) * Weight[j] /\ Group * q \in Nat
      BY <1>1, <2>3
    <2> QED
      BY <2>2, <2>3, <2>4
  <1> HIDE DEF S
  <1>4. 0 .. n \subseteq S
    BY <1>1, <1>2, <1>3, UpToInduction
  <1>5. i - j \in 0 .. n /\ j + (i - j) = i
    BY <1>1
  <1> QED
    BY <1>4, <1>5 DEF S

(* Another group leaves those below it as they are.                        *)
LEMMA DigitsKept ==
    ASSUME NEW x \in Nat, NEW i \in 0 .. MaxBytes - 1, x < Weight[i], NEW b \in 0 .. Group - 1
    PROVE  /\ \A k \in 1 .. i : ((x + b * Weight[i]) \div Weight[k - 1]) % Group
                                   = (x \div Weight[k - 1]) % Group
           /\ ((x + b * Weight[i]) \div Weight[i]) % Group = b
  <1> DEFINE u == Weight[i]
             v == x + b * u
  <1>1. /\ u \in Nat \ {0} /\ Group \in Nat \ {0} /\ b \in Nat /\ i \in 0 .. MaxBytes
        /\ x < u
    BY WeightType
  <1> HIDE DEF u
  <1>2. v \in Nat /\ x \in 0 .. u - 1 /\ v = u * b + x
    BY <1>1
  <1> HIDE DEF v
  <1>3. v \div u = b
    BY <1>1, <1>2, RemainderUnique
  <1>4. b % Group = b
    <2>1. b = Group * 0 + b
      BY <1>1
    <2> QED
      BY <1>1, <2>1, RemainderUnique
  <1>5. ASSUME NEW k \in 1 .. i PROVE (v \div Weight[k - 1]) % Group = (x \div Weight[k - 1]) % Group
    <2> DEFINE w == Weight[k - 1]
               y == x \div w
               r == x % w
    <2>1. k \in 1 .. MaxBytes /\ k \in 0 .. MaxBytes /\ k - 1 \in 0 .. MaxBytes /\ k <= i
      BY <1>1, WeightType
    <2>2. w \in Nat \ {0} /\ Weight[k] = Group * w
      BY <2>1, WeightType
    <2>3. PICK q \in Nat : u = q * Weight[k]
      BY <1>1, <2>1, WeightMultiple DEF u
    <2> HIDE DEF w
    <2>4. y \in Nat /\ r \in 0 .. w - 1 /\ x = w * y + r
      BY <2>2, Division
    <2> HIDE DEF y, r
    <2>5. u = w * (Group * q)
      BY <1>1, <2>2, <2>3
    <2>6. b * u = w * (Group * (b * q))
      BY <1>1, <2>2, <2>5
    <2>7. b * q \in Nat /\ Group * (b * q) \in Nat
      BY <1>1
    <2>8. v = w * (y + Group * (b * q)) + r
      <3> DEFINE z == Group * (b * q)
      <3>1. v = x + w * z /\ z \in Nat
        BY <1>1, <1>2, <2>6, <2>7
      <3> HIDE DEF z
      <3>2. v = w * (y + z) + r
        BY <2>2, <2>4, <3>1
      <3> QED
        BY <3>2 DEF z
    <2>9. y + Group * (b * q) \in Nat
      BY <2>4, <2>7
    <2>10. v \div w = y + Group * (b * q)
      BY <1>2, <2>2, <2>4, <2>8, <2>9, RemainderUnique
    <2>11. (y + Group * (b * q)) % Group = y % Group
      <3> DEFINE z == b * q
                 t == y + Group * z
      <3>1. z \in Int /\ t \in Nat /\ t = y + Group * z
        BY <2>7, <2>9
      <3> HIDE DEF z, t
      <3>2. t % Group = y % Group
        BY <1>1, <2>4, <3>1, SameRemainder
      <3> QED
        BY <3>2 DEF t, z
    <2> QED
      BY <2>10, <2>11 DEF w, y
  <1> QED
    BY <1>3, <1>4, <1>5 DEF v, u

(* The bytes of a varint.                                                  *)
LEMMA VarintType ==
    ASSUME NEW n \in [value : Nat, i : 0 .. MaxBytes]
    PROVE  /\ Groups(n) \in Seq(Byte) /\ Len(Groups(n)) = n.i
           /\ Padded(n) \in Seq(Byte) /\ Len(Padded(n)) = n.i
           /\ \A k \in 1 .. n.i : (n.value \div Weight[k - 1]) % Group \in 0 .. Group - 1
  <1> DEFINE d(k) == (n.value \div Weight[k - 1]) % Group
             g == Groups(n)
             p == Padded(n)
  <1>1. n.i \in Nat /\ n.value \in Nat /\ Group \in Nat \ {0} /\ Byte = 0 .. 2 * Group - 1
    BY WeightType, BaseType
  <1>2. ASSUME NEW k \in 1 .. n.i PROVE d(k) \in 0 .. Group - 1
    <2>1. k - 1 \in 0 .. MaxBytes
      BY WeightType
    <2>2. Weight[k - 1] \in Nat \ {0}
      BY <2>1, WeightType
    <2>3. n.value \div Weight[k - 1] \in Nat
      BY <1>1, <2>2, Division
    <2> QED
      BY <1>1, <2>3, Division
  <1>3. \A k \in 1 .. n.i : d(k) + Group \in Byte /\ d(k) + 0 \in Byte
    <2> HIDE DEF d
    <2> QED
      BY <1>1, <1>2
  <1>4. /\ g = [k \in 1 .. n.i |-> d(k) + Group]
        /\ p = [k \in 1 .. n.i |-> d(k) + (IF k < n.i THEN Group ELSE 0)]
    BY DEF Groups, Padded
  <1> HIDE DEF d, g, p
  <1>5. g \in [1 .. n.i -> Byte] /\ p \in [1 .. n.i -> Byte]
    BY <1>3, <1>4
  <1>6. g \in Seq(Byte) /\ Len(g) = n.i /\ p \in Seq(Byte) /\ Len(p) = n.i
    BY SMTT(60), <1>1, <1>5, SeqDef, LenProperties
  <1> QED
    BY <1>2, <1>6 DEF g, p, d

(* One byte of a varint that is accepted is the next one of its layout.    *)
LEMMA GroupTaken ==
    ASSUME NEW n \in [value : Nat, i : 0 .. MaxBytes - 1], n.value < Weight[n.i],
           NEW byte \in Byte, NEW m \in [value : Nat, i : 0 .. MaxBytes],
           m = [value |-> n.value + Bits(byte) * Weight[n.i], i |-> n.i + 1]
    PROVE  /\ More(byte) => Groups(m) = Append(Groups(n), byte)
           /\ ~More(byte) => Padded(m) = Append(Groups(n), byte)
  <1> DEFINE i == n.i
             b == Bits(byte)
             d(k) == (n.value \div Weight[k - 1]) % Group
             e(k) == (m.value \div Weight[k - 1]) % Group
             g == Groups(n)
  <1>1. /\ i \in Nat /\ i \in 0 .. MaxBytes - 1 /\ i \in 0 .. MaxBytes /\ m.i = i + 1
        /\ Group \in Nat \ {0} /\ byte \in 0 .. 2 * Group - 1 /\ b \in 0 .. Group - 1
        /\ (i + 1) - 1 = i /\ n \in [value : Nat, i : 0 .. MaxBytes]
    <2>1. Group \in Nat \ {0} /\ MaxBytes \in Nat \ {0} /\ byte \in 0 .. 2 * Group - 1
      BY WeightType, BaseType
    <2>2. b \in 0 .. Group - 1
      BY ByteType
    <2>3. i \in 0 .. MaxBytes - 1 /\ n.value \in Nat
      OBVIOUS
    <2>4. i \in Nat /\ i \in 0 .. MaxBytes /\ (i + 1) - 1 = i
      BY <2>1, <2>3
    <2>5. n \in [value : Nat, i : 0 .. MaxBytes]
      BY <2>4
    <2> QED
      BY <2>1, <2>2, <2>3, <2>4, <2>5
  <1>2. byte = IF More(byte) THEN b + Group ELSE b
    <2>1. CASE byte >= Group
      <3> DEFINE x == byte - Group
      <3>1. x \in 0 .. Group - 1 /\ byte = Group * 1 + x /\ byte \in Nat /\ 1 \in Nat
        BY <1>1, <2>1
      <3> HIDE DEF x
      <3>2. x = byte % Group
        BY <1>1, <3>1, RemainderUnique
      <3>3. byte = (byte % Group) + Group
        BY <1>1, <3>1, <3>2
      <3> QED
        BY <2>1, <3>3 DEF More, Bits
    <2>2. CASE ~(byte >= Group)
      <3>1. byte \in 0 .. Group - 1 /\ byte = Group * 0 + byte /\ byte \in Nat /\ 0 \in Nat
        BY <1>1, <2>2
      <3>2. byte = byte % Group
        BY ZenonT(60), <1>1, <3>1, RemainderUnique
      <3> QED
        BY <2>2, <3>2 DEF More, Bits
    <2> QED
      BY <2>1, <2>2
  <1>3. (\A k \in 1 .. i : e(k) = d(k)) /\ e(i + 1) = b
    <2>1. m.value = n.value + b * Weight[i] /\ n.value \in Nat
      BY <1>1
    <2> HIDE DEF b
    <2>2. /\ \A k \in 1 .. i : ((n.value + b * Weight[i]) \div Weight[k - 1]) % Group
                                   = (n.value \div Weight[k - 1]) % Group
          /\ ((n.value + b * Weight[i]) \div Weight[i]) % Group = b
      BY <1>1, <2>1, DigitsKept
    <2> QED
      BY <1>1, <2>1, <2>2
  <1>4. /\ g \in Seq(Byte) /\ Len(g) = i
        /\ Groups(m) \in Seq(Byte) /\ Len(Groups(m)) = i + 1
        /\ Padded(m) \in Seq(Byte) /\ Len(Padded(m)) = i + 1
    BY <1>1, VarintType
  <1>5. /\ g = [k \in 1 .. i |-> d(k) + Group]
        /\ Groups(m) = [k \in 1 .. i + 1 |-> e(k) + Group]
        /\ Padded(m) = [k \in 1 .. i + 1 |-> e(k) + (IF k < i + 1 THEN Group ELSE 0)]
    BY <1>1 DEF Groups, Padded
  <1> HIDE DEF i, b, d, e, g
  <1>6. i + 1 \in 1 .. i + 1 /\ \A k \in 1 .. i : k \in 1 .. i + 1 /\ k < i + 1
    BY <1>1
  <1>7. ASSUME More(byte) PROVE Groups(m) = Append(g, byte)
    <2>1. \A k \in 1 .. i : Groups(m)[k] = g[k]
      BY <1>3, <1>5, <1>6
    <2>2. Groups(m)[i + 1] = byte
      BY <1>2, <1>3, <1>5, <1>6, <1>7
    <2> QED
      BY <1>4, <2>1, <2>2, LastOne
  <1>8. ASSUME ~More(byte) PROVE Padded(m) = Append(g, byte)
    <2>1. \A k \in 1 .. i : Padded(m)[k] = g[k]
      BY <1>3, <1>5, <1>6
    <2>2. Padded(m)[i + 1] = b + 0
      BY <1>1, <1>3, <1>5, <1>6
    <2>3. Padded(m)[i + 1] = byte
      BY <1>1, <1>2, <1>8, <2>2
    <2> QED
      BY <1>4, <2>1, <2>3, LastOne
  <1> QED
    BY <1>7, <1>8 DEF g

-----------------------------------------------------------------------------
(* What has been read.                                                     *)

(* The bytes before the caller's position.                                 *)
Upto(f, c) == SubSeq(c, 1, Position(f))

(* A file read correctly, whose eofbit says that the stream is at the end. *)
Known(f, c) == Good(f, c, Byte) /\ (f.eof => f.at = Len(c))

(* The bytes before the caller's position are the first of the file.       *)
LEMMA PositionType ==
    ASSUME NEW c \in Seq(Byte), NEW f, Good(f, c, Byte)
    PROVE  /\ Position(f) \in 0 .. Len(c) /\ Len(c) \in Nat
           /\ Upto(f, c) \in Seq(Byte) /\ Len(Upto(f, c)) = Position(f)
           /\ \A k \in 1 .. Position(f) : Upto(f, c)[k] = c[k]
  <1> DEFINE p == Position(f)
             t == SubSeq(c, 1, p)
  <1>1. p \in 0 .. Len(c) /\ Len(c) \in Nat
    BY LenProperties DEF Good, FileType, Position
  <1> HIDE DEF p
  <1>2. \A k \in 1 .. p : c[k] \in Byte
    BY <1>1, ElementOfSeq
  <1>3. /\ t \in Seq(Byte) /\ Len(t) = IF 1 <= p THEN p - 1 + 1 ELSE 0
        /\ \A k \in 1 .. p - 1 + 1 : t[k] = c[1 + k - 1]
    BY <1>1, <1>2, SubSeqProperties
  <1> HIDE DEF t
  <1>4. Len(t) = p /\ \A k \in 1 .. p : t[k] = c[k]
    BY <1>1, <1>3
  <1> QED
    BY <1>1, <1>3, <1>4 DEF p, t, Upto

(* Reading on.                                                             *)
LEMMA ReadOn ==
    ASSUME NEW c \in Seq(Byte), NEW f, Good(f, c, Byte), NEW g, Good(g, c, Byte),
           NEW bytes \in Seq(Byte), Position(g) = Position(f) + Len(bytes),
           \A k \in 1 .. Len(bytes) : bytes[k] = c[Position(f) + k]
    PROVE  Upto(g, c) = Upto(f, c) \o bytes
  <1> DEFINE s == Upto(f, c)
             t == Upto(g, c)
             p == Position(f)
             q == Position(g)
             l == Len(bytes)
  <1>1. /\ p \in Nat /\ s \in Seq(Byte) /\ Len(s) = p /\ \A k \in 1 .. p : s[k] = c[k]
        /\ q \in Nat /\ t \in Seq(Byte) /\ Len(t) = q /\ \A k \in 1 .. q : t[k] = c[k]
        /\ l \in Nat /\ q = p + l
    BY PositionType, LenProperties
  <1>2. /\ s \o bytes \in Seq(Byte) /\ Len(s \o bytes) = Len(s) + l
        /\ \A k \in 1 .. Len(s) + l :
              (s \o bytes)[k] = IF k <= Len(s) THEN s[k] ELSE bytes[k - Len(s)]
    BY <1>1, ConcatProperties
  <1> HIDE DEF s, t, p, q, l
  <1>3. ASSUME NEW k \in 1 .. q PROVE t[k] = (s \o bytes)[k]
    <2>1. CASE k <= p
      <3>1. k \in 1 .. p
        BY <1>1, <2>1
      <3> QED
        BY <1>1, <1>2, <2>1, <3>1
    <2>2. CASE ~(k <= p)
      <3>1. k - p \in 1 .. l /\ p + (k - p) = k
        BY <1>1, <2>2
      <3>2. bytes[k - p] = c[p + (k - p)]
        BY <3>1 DEF p, l
      <3> QED
        BY <1>1, <1>2, <2>2, <3>1, <3>2
    <2> QED
      BY <2>1, <2>2
  <1> QED
    BY <1>1, <1>2, <1>3, SeqEqual DEF s, t

(* The stream sets its eofbit at the end only, and stops nowhere else      *)
(* unless it fails.                                                        *)
LEMMA StreamEnds ==
    ASSUME NEW c \in Seq(Byte), NEW f, Known(f, c), f.buf = <<>>, NEW n \in Nat,
           NEW r \in StreamRead(f, c, n)
    PROVE  /\ r.file.eof => r.file.at = Len(c)
           /\ Len(r.bytes) < n /\ ~r.file.error => r.file.at = Len(c)
  <1> DEFINE m    == Min({f.at + n, Len(c)})
             left == IF f.eof THEN <<>> ELSE SubSeq(c, f.at + 1, m)
             Got(k, eof, bad) == [bytes |-> SubSeq(left, 1, k),
                                  file  |-> [f EXCEPT !.at = @ + k, !.eof = eof, !.error = bad]]
  <1>1. /\ f \in FileType(Byte) /\ f.at \in Nat /\ f.at <= Len(c) /\ Len(c) \in Nat
        /\ f.eof => f.at = Len(c)
    BY LenProperties DEF Known, Good, FileType
  <1>2. m = IF f.at + n <= Len(c) THEN f.at + n ELSE Len(c)
    BY <1>1, MinOfTwo
  <1>3. /\ left \in Seq(Byte)
        /\ Len(left) = IF f.eof THEN 0 ELSE m - f.at
    <2>1. CASE f.eof
      BY <2>1, EmptySeq
    <2>2. CASE ~f.eof
      <3> HIDE DEF m
      <3>1. f.at + 1 \in Nat \ {0} /\ m \in Int /\ m <= Len(c) /\ m >= f.at
        BY <1>1, <1>2
      <3>2. /\ SubSeq(c, f.at + 1, m) \in Seq(Byte)
            /\ Len(SubSeq(c, f.at + 1, m)) = IF f.at + 1 <= m THEN m - (f.at + 1) + 1 ELSE 0
        BY <3>1, Part
      <3>3. Len(SubSeq(c, f.at + 1, m)) = m - f.at
        BY <1>1, <3>1, <3>2
      <3> QED
        BY <2>2, <3>2, <3>3
    <2> QED
      BY <2>1, <2>2
  <1>4. \/ r = Got(Len(left), Len(left) < n, FALSE)
        \/ \E k \in 0 .. Len(left) : r = Got(k, FALSE, TRUE)
    <2>1. r \in {Got(Len(left), Len(left) < n, FALSE)}
                \cup (IF f.eof THEN {} ELSE {Got(k, FALSE, TRUE) : k \in 0 .. Len(left)})
      BY DEF StreamRead
    <2> HIDE DEF left, Got
    <2> QED
      BY <2>1
  <1>5. CASE r = Got(Len(left), Len(left) < n, FALSE)
    <2> HIDE DEF left, m
    <2>1. /\ r.bytes = SubSeq(left, 1, Len(left))
          /\ r.file = [f EXCEPT !.at = @ + Len(left), !.eof = (Len(left) < n), !.error = FALSE]
      BY <1>5
    <2>2. /\ r.file.at = f.at + Len(left) /\ r.file.eof = (Len(left) < n)
      BY <1>1, <2>1 DEF FileType
    <2>3. Len(r.bytes) = Len(left)
      <3>1. Len(left) \in Nat
        BY <1>3, LenProperties
      <3>2. Len(SubSeq(left, 1, Len(left))) = IF 1 <= Len(left) THEN Len(left) - 1 + 1 ELSE 0
        BY <1>3, <3>1, Part
      <3> QED
        BY <2>1, <3>1, <3>2
    <2>4. Len(left) < n => f.at + Len(left) = Len(c)
      BY <1>1, <1>2, <1>3
    <2> QED
      BY <2>2, <2>3, <2>4
  <1>6. CASE \E k \in 0 .. Len(left) : r = Got(k, FALSE, TRUE)
    <2> HIDE DEF left
    <2>1. PICK k \in 0 .. Len(left) : r = Got(k, FALSE, TRUE)
      BY <1>6
    <2>2. r.file = [f EXCEPT !.at = @ + k, !.eof = FALSE, !.error = TRUE]
      BY <2>1
    <2>3. ~r.file.eof /\ r.file.error
      BY <1>1, <2>2 DEF FileType
    <2> QED
      BY <2>3
  <1> QED
    BY <1>4, <1>5, <1>6

(* A buffer that stays empty without an error is at the end of the file.   *)
LEMMA RefillEnds ==
    ASSUME NEW c \in Seq(Byte), NEW f, Known(f, c), f.buf = <<>>, NEW g \in Refill(f, c)
    PROVE  /\ Known(g, c) /\ Position(g) = Position(f)
           /\ g.buf = <<>> /\ ~g.error => Position(g) = Len(c)
  <1>1. Good(g, c, Byte) /\ Position(g) = Position(f)
    BY RefillGood DEF Known
  <1>2. CASE f.error
    BY <1>1, <1>2 DEF Refill
  <1>3. CASE ~f.error
    <2>1. PICK r \in StreamRead(f, c, BufferSize) : g = [r.file EXCEPT !.buf = r.bytes]
      BY <1>3 DEF Refill
    <2>2. BufferSize \in Nat /\ BufferSize > 0
      BY BufferAssumption
    <2>3. /\ r.file.eof => r.file.at = Len(c)
          /\ r.bytes = <<>> /\ ~r.file.error => r.file.at = Len(c)
      <3>1. Len(<<>>) = 0
        BY EmptySeq
      <3> QED
        BY <2>1, <2>2, <3>1, StreamEnds
    <2>4. r.file \in FileType(Byte)
      BY <2>1, <2>2, StreamReads DEF Known
    <2>5. g.eof = r.file.eof /\ g.at = r.file.at /\ g.error = r.file.error /\ g.buf = r.bytes
      BY <2>1, <2>4 DEF FileType
    <2>6. g.buf = <<>> => Position(g) = g.at
      <3>1. Len(<<>>) = 0 /\ g.at \in Nat
        BY <1>1, EmptySeq DEF Good, FileType
      <3> QED
        BY <3>1 DEF Position
    <2> QED
      BY <1>1, <2>3, <2>5, <2>6 DEF Known
  <1> QED
    BY <1>2, <1>3

(* A peek moves nothing: it shows what comes next, or the end.             *)
LEMMA Peeks ==
    ASSUME NEW c \in Seq(Byte), NEW f, Known(f, c), NEW r \in PeekByte(f, c)
    PROVE  /\ Known(r.file, c) /\ Upto(r.file, c) = Upto(f, c)
           /\ \/ /\ r.byte = EndOfFile
                 /\ r.file.buf = <<>> /\ (~r.file.error => Upto(r.file, c) = c)
              \/ r.byte \in Byte /\ r.file.buf # <<>> /\ Head(r.file.buf) = r.byte
  <1>1. PICK g \in (IF f.buf = <<>> THEN Refill(f, c) ELSE {f}) :
           r = IF g.buf = <<>> THEN [byte |-> EndOfFile, file |-> g]
               ELSE [byte |-> Head(g.buf), file |-> g]
    BY DEF PeekByte
  <1>2. /\ Known(g, c) /\ Position(g) = Position(f)
        /\ g.buf = <<>> /\ ~g.error => Position(g) = Len(c)
    BY <1>1, RefillEnds
  <1>3. Upto(g, c) = Upto(f, c)
    BY <1>2 DEF Upto
  <1>4. CASE g.buf = <<>>
    <2>1. r.byte = EndOfFile /\ r.file = g
      BY <1>1, <1>4
    <2>2. ASSUME ~g.error PROVE Upto(g, c) = c
      <3>1. /\ Upto(g, c) \in Seq(Byte) /\ Len(Upto(g, c)) = Len(c)
            /\ \A k \in 1 .. Len(c) : Upto(g, c)[k] = c[k]
        BY <1>2, <1>4, <2>2, PositionType DEF Known
      <3> QED
        BY <3>1, SeqEqual
    <2> QED
      BY <1>2, <1>3, <1>4, <2>1, <2>2
  <1>5. CASE g.buf # <<>>
    <2>1. r.byte = Head(g.buf) /\ r.file = g
      BY <1>1, <1>5
    <2>2. g.buf \in Seq(Byte)
      BY <1>2 DEF Known, Good, FileType
    <2>3. Head(g.buf) \in Byte
      BY <1>5, <2>2, HeadTailProperties
    <2> QED
      BY <1>2, <1>3, <1>5, <2>1, <2>3
  <1> QED
    BY <1>4, <1>5

(* A byte that is read is the next one, and the one that was peeked at.    *)
LEMMA Bytewise ==
    ASSUME NEW c \in Seq(Byte), NEW f, Known(f, c), NEW r \in ReadByte(f, c)
    PROVE  /\ Known(r.file, c)
           /\ f.buf # <<>> => r.byte = Head(f.buf)
           /\ \/ /\ r.byte = EndOfFile /\ Upto(r.file, c) = Upto(f, c)
                 /\ ~r.file.error => Upto(r.file, c) = c
              \/ r.byte \in Byte /\ Upto(r.file, c) = Upto(f, c) \o <<r.byte>>
  <1>1. PICK g \in (IF f.buf = <<>> THEN Refill(f, c) ELSE {f}) :
           r = IF g.buf = <<>> THEN [byte |-> EndOfFile, file |-> g]
               ELSE [byte |-> Head(g.buf), file |-> [g EXCEPT !.buf = Tail(@)]]
    BY DEF ReadByte
  <1>2. Known(g, c) /\ (g.buf = <<>> /\ ~g.error => Position(g) = Len(c))
    BY <1>1, RefillEnds
  <1>3. Good(f, c, Byte)
    BY DEF Known
  <1>4. /\ Good(r.file, c, Byte)
        /\ \/ r.byte = EndOfFile /\ Position(r.file) = Position(f)
           \/ /\ Position(r.file) = Position(f) + 1 /\ Position(r.file) \in 1 .. Len(c)
              /\ r.byte = c[Position(r.file)]
    BY <1>3, ReadByteReads
  <1>5. r.file.eof = g.eof /\ r.file.at = g.at
    <2>1. r.file = g \/ r.file = [g EXCEPT !.buf = Tail(@)]
      BY <1>1
    <2>2. g \in FileType(Byte)
      BY <1>2 DEF Known, Good
    <2> QED
      BY <2>1, <2>2 DEF FileType
  <1>6. Known(r.file, c)
    BY <1>2, <1>4, <1>5 DEF Known
  <1>7. f.buf # <<>> => r.byte = Head(f.buf)
    BY <1>1
  <1>8. CASE r.byte = EndOfFile /\ Position(r.file) = Position(f)
    <2>1. ASSUME g.buf # <<>> PROVE FALSE
      <3>1. g.buf \in Seq(Byte) /\ r.byte = Head(g.buf)
        BY <1>1, <1>2, <2>1 DEF Known, Good, FileType
      <3>2. Head(g.buf) \in Byte
        BY <2>1, <3>1, HeadTailProperties
      <3> QED
        BY <1>8, <3>1, <3>2, ByteType
    <2>2. r.file = g
      BY <1>1, <2>1
    <2>3. ASSUME ~r.file.error PROVE Upto(r.file, c) = c
      <3>1. /\ Upto(g, c) \in Seq(Byte) /\ Len(Upto(g, c)) = Len(c)
            /\ \A k \in 1 .. Len(c) : Upto(g, c)[k] = c[k]
        BY <1>2, <2>1, <2>2, <2>3, PositionType DEF Known
      <3> QED
        BY <2>2, <3>1, SeqEqual
    <2> QED
      BY <1>6, <1>7, <1>8, <2>3 DEF Upto
  <1>9. CASE /\ Position(r.file) = Position(f) + 1 /\ Position(r.file) \in 1 .. Len(c)
             /\ r.byte = c[Position(r.file)]
    <2>1. r.byte \in Byte
      BY <1>9, ElementOfSeq
    <2>2. <<r.byte>> \in Seq(Byte) /\ Len(<<r.byte>>) = 1 /\ <<r.byte>>[1] = r.byte
      BY <2>1
    <2>3. \A k \in 1 .. 1 : <<r.byte>>[k] = c[Position(f) + k]
      BY <1>9, <2>2
    <2>4. Upto(r.file, c) = Upto(f, c) \o <<r.byte>>
      BY <1>3, <1>4, <1>9, <2>2, <2>3, ReadOn
    <2> QED
      BY <1>6, <1>7, <2>1, <2>4
  <1> QED
    BY <1>4, <1>8, <1>9

(* The bytes of a chunk are the next ones; it is cut short by an error, or *)
(* by the end of the file.                                                 *)
LEMMA Chunkwise ==
    ASSUME NEW c \in Seq(Byte), NEW f, Known(f, c), NEW n \in Nat, NEW r \in ReadChunk(f, c, n)
    PROVE  /\ Known(r.file, c) /\ r.bytes \in Seq(Byte) /\ Len(r.bytes) \in Nat /\ Len(r.bytes) <= n
           /\ Upto(r.file, c) = Upto(f, c) \o r.bytes
           /\ Len(r.bytes) < n /\ ~r.file.error => Upto(r.file, c) = c
  <1> DEFINE ahead == SubSeq(f.buf, 1, Min({n, Len(f.buf)}))
             g     == [f EXCEPT !.buf = SubSeq(f.buf, n + 1, Len(f.buf))]
  <1>1. /\ Good(f, c, Byte) /\ f \in FileType(Byte) /\ f.buf \in Seq(Byte) /\ Len(f.buf) \in Nat
        /\ f.at \in Nat /\ (f.eof => f.at = Len(c))
    BY LenProperties DEF Known, Good, FileType
  <1>2. /\ Good(r.file, c, Byte) /\ r.bytes \in Seq(Byte) /\ Len(r.bytes) <= n
        /\ Position(r.file) = Position(f) + Len(r.bytes)
        /\ \A i \in 1 .. Len(r.bytes) : r.bytes[i] = c[Position(f) + i]
    BY <1>1, ReadChunkReads
  <1>3. Upto(r.file, c) = Upto(f, c) \o r.bytes
    BY <1>1, <1>2, ReadOn
  <1>4. /\ r.file.eof => r.file.at = Len(c)
        /\ Len(r.bytes) < n /\ ~r.file.error => Position(r.file) = Len(c)
    <2>1. CASE f.error
      <3>1. r = [bytes |-> <<>>, file |-> f]
        BY <2>1 DEF ReadChunk
      <3> QED
        BY <1>1, <2>1, <3>1
    <2>2. CASE ~f.error /\ Len(ahead) = n
      <3>0. r = [bytes |-> ahead, file |-> g]
        BY <2>2 DEF ReadChunk
      <3>1. r.file = g /\ r.bytes = ahead
        <4> HIDE DEF ahead, g
        <4> QED
          BY <3>0
      <3>2. r.file.eof = f.eof /\ r.file.at = f.at
        BY <1>1, <3>1 DEF FileType
      <3> HIDE DEF ahead, g
      <3>3. ~(Len(r.bytes) < n)
        BY <2>2, <3>1
      <3> QED
        BY <1>1, <3>2, <3>3
    <2>3. CASE ~f.error /\ Len(ahead) # n
      <3> DEFINE j == Min({n, Len(f.buf)})
      <3>1. j = IF n <= Len(f.buf) THEN n ELSE Len(f.buf)
        BY <1>1, MinOfTwo
      <3>2. Len(ahead) = j
        <4> HIDE DEF j
        <4>1. j \in Nat /\ j <= Len(f.buf)
          BY <1>1, <3>1
        <4>2. Len(SubSeq(f.buf, 1, j)) = IF 1 <= j THEN j - 1 + 1 ELSE 0
          BY <1>1, <4>1, Part
        <4>3. Len(SubSeq(f.buf, 1, j)) = j
          BY <4>1, <4>2
        <4> QED
          BY <4>3 DEF j
      <3> HIDE DEF j, ahead, g
      <3>3. j = Len(f.buf) /\ j < n /\ n - Len(ahead) \in Nat
        BY <1>1, <2>3, <3>1, <3>2
      <3>4. SubSeq(f.buf, n + 1, Len(f.buf)) = <<>>
        <4>1. n + 1 \in Nat \ {0} /\ Len(f.buf) \in Int /\ ~(n + 1 <= Len(f.buf))
          BY <1>1, <3>3
        <4>2. /\ SubSeq(f.buf, n + 1, Len(f.buf)) \in Seq(Byte)
              /\ Len(SubSeq(f.buf, n + 1, Len(f.buf))) = 0
          BY <1>1, <4>1, Part
        <4> QED
          BY <4>2, EmptySeq
      <3>5. g.buf = <<>> /\ g.at = f.at /\ g.eof = f.eof /\ g.error = f.error /\ g \in FileType(Byte)
        BY <1>1, <3>4, EmptySeq DEF FileType, g
      <3>6. PICK q \in StreamRead(g, c, n - Len(ahead)) : r = [q EXCEPT !.bytes = ahead \o @]
        BY <2>3 DEF ReadChunk, g, ahead
      <3>7. Known(g, c)
        <4>1. Len(<<>>) = 0 /\ f.at <= Len(c)
          BY <1>1, EmptySeq DEF Good
        <4> QED
          BY <1>1, <3>5, <4>1 DEF Known, Good
      <3>8. /\ q.file.eof => q.file.at = Len(c)
            /\ Len(q.bytes) < n - Len(ahead) /\ ~q.file.error => q.file.at = Len(c)
        BY <3>3, <3>5, <3>6, <3>7, StreamEnds
      <3>9. /\ q = [bytes |-> q.bytes, file |-> q.file] /\ q.bytes \in Seq(Byte)
            /\ q.file.at \in Nat /\ q.file.buf = <<>>
        BY <3>3, <3>5, <3>6, <3>7, StreamReads DEF Known, FileType
      <3>10. r.file = q.file /\ r.bytes = ahead \o q.bytes
        BY <3>6, <3>9
      <3>11. Position(q.file) = q.file.at
        <4>1. Len(<<>>) = 0
          BY EmptySeq
        <4> QED
          BY <3>9, <4>1 DEF Position
      <3>12. Len(r.bytes) < n => Len(q.bytes) < n - Len(ahead)
        <4>1. ahead \in Seq(Byte)
          <5>1. j \in Nat /\ j <= Len(f.buf)
            BY <1>1, <3>1
          <5>2. SubSeq(f.buf, 1, j) \in Seq(Byte)
            BY <1>1, <5>1, Part
          <5> QED
            BY <5>2 DEF ahead, j
        <4>2. /\ Len(ahead \o q.bytes) = Len(ahead) + Len(q.bytes)
              /\ Len(ahead) \in Nat /\ Len(q.bytes) \in Nat
          BY <3>9, <4>1, Joined
        <4> QED
          BY <3>10, <4>2
      <3> QED
        BY <3>8, <3>10, <3>11, <3>12
    <2> QED
      BY <2>1, <2>2, <2>3
  <1>5. Position(r.file) = Len(c) => Upto(r.file, c) = c
    <2> SUFFICES ASSUME Position(r.file) = Len(c) PROVE Upto(r.file, c) = c
      OBVIOUS
    <2>1. /\ Upto(r.file, c) \in Seq(Byte) /\ Len(Upto(r.file, c)) = Len(c)
          /\ \A k \in 1 .. Len(c) : Upto(r.file, c)[k] = c[k]
      BY <1>2, PositionType
    <2> QED
      BY <2>1, SeqEqual
  <1> QED
    BY <1>2, <1>3, <1>4, <1>5, LenProperties DEF Known

-----------------------------------------------------------------------------
(* What entries and opcodes are laid out as.                               *)

(* An entry under way; the bytes of an opcode run are counted as it grows. *)
EntryType ==
    {e \in [type : 0 .. TypeLimit - 1, index : Numbers, size : Numbers, digest : Seq(Byte),
            body : Seq(OpType) \cup Seq(Byte), diff : Nat] :
        IF e.type = Modified THEN e.body \in Seq(OpType) /\ e.diff = Len(BodyBytes(e))
        ELSE e.body \in Seq(Byte)}

(* An entry that is complete.                                              *)
Complete == {e \in EntryType : e.type = Added => Len(e.body) = e.size.value}

(* The entries' texts.                                                     *)
LEMMA EntryLayout ==
    ASSUME NEW e \in EntryType
    PROVE  /\ BodyBytes(e) \in Seq(Byte) /\ <<e.type>> \in Seq(Byte) /\ e.digest \in Seq(Byte)
           /\ Padded(e.index) \in Seq(Byte) /\ Padded(e.size) \in Seq(Byte)
           /\ Groups(e.index) \in Seq(Byte) /\ Groups(e.size) \in Seq(Byte)
           /\ Layout(e) \in Seq(Byte)
           /\ Layout(e) = <<e.type>> \o (Padded(e.index) \o Padded(e.size)) \o e.digest \o BodyBytes(e)
  <1>1. /\ e.type \in 0 .. 2 /\ e.index \in Numbers /\ e.size \in Numbers /\ e.digest \in Seq(Byte)
        /\ e.type = Modified => e.body \in Seq(OpType)
        /\ e.type # Modified => e.body \in Seq(Byte)
    BY DEF EntryType, TypeLimit
  <1>2. e.type \in Byte
    <2>1. Group \in Nat /\ Group > 1
      BY ByteType
    <2> QED
      BY <1>1, <2>1 DEF Byte
  <1>3. <<e.type>> \in Seq(Byte)
    BY <1>2
  <1>4. \A n \in Numbers : Padded(n) \in Seq(Byte) /\ Groups(n) \in Seq(Byte)
    <2> TAKE n \in Numbers
    <2>1. WordSize \in Nat
      BY ByteType
    <2>2. n \in [value : Nat, i : 0 .. MaxBytes]
      BY <2>1 DEF Numbers
    <2> QED
      BY <2>2, VarintType
  <1>5. BodyBytes(e) \in Seq(Byte)
    BY <1>1, OpcodesLayout DEF BodyBytes
  <1>6. /\ Padded(e.index) \in Seq(Byte) /\ Padded(e.size) \in Seq(Byte)
        /\ Groups(e.index) \in Seq(Byte) /\ Groups(e.size) \in Seq(Byte)
    BY <1>1, <1>4
  <1>7. Padded(e.index) \o Padded(e.size) \in Seq(Byte)
    BY <1>6, ConcatProperties
  <1>8. <<e.type>> \o (Padded(e.index) \o Padded(e.size)) \o e.digest \o BodyBytes(e) \in Seq(Byte)
    BY <1>1, <1>3, <1>5, <1>7, ConcatProperties
  <1>9. Layout(e) = <<e.type>> \o (Padded(e.index) \o Padded(e.size)) \o e.digest \o BodyBytes(e)
    BY DEF Layout, EntryBytes
  <1> QED
    BY <1>1, <1>3, <1>5, <1>6, <1>8, <1>9

Text(es) == HeaderBytes \o FlattenSeq([k \in DOMAIN es |-> Layout(es[k])])

(* One more entry of the list.                                             *)
LEMMA TextNext ==
    ASSUME NEW es \in Seq(Complete)
    PROVE  /\ Text(es) \in Seq(Byte)
           /\ \A e \in Complete : Text(Append(es, e)) = Text(es) \o Layout(e)
  <1> DEFINE F == [e \in Complete |-> Layout(e)]
             Body(t) == FlattenSeq(Mapped(F, t))
  <1>1. F \in [Complete -> Seq(Byte)] /\ \A e \in Complete : F[e] = Layout(e) /\ F[e] \in Seq(Byte)
    BY EntryLayout DEF Complete
  <1> HIDE DEF F
  <1>2. \A t \in Seq(Complete) : Text(t) = HeaderBytes \o Body(t)
    <2> TAKE t \in Seq(Complete)
    <2>1. \A k \in DOMAIN t : t[k] \in Complete
      BY LenProperties, ElementOfSeq
    <2>2. [k \in DOMAIN t |-> Layout(t[k])] = [k \in DOMAIN t |-> F[t[k]]]
      BY <1>1, <2>1
    <2> QED
      BY <2>2 DEF Text, Mapped
  <1>3. Body(es) \in Seq(Byte) /\ \A e \in Complete : Body(Append(es, e)) = Body(es) \o F[e]
    BY <1>1, FlattenMapped
  <1> HIDE DEF Body
  <1>4. HeaderBytes \in Seq(Byte)
    BY WrittenIsBytes
  <1>5. Text(es) = HeaderBytes \o Body(es) /\ Text(es) \in Seq(Byte)
    BY <1>2, <1>3, <1>4, ConcatProperties
  <1>6. ASSUME NEW e \in Complete
        PROVE  Text(Append(es, e)) = Text(es) \o Layout(e)
    <2>1. Append(es, e) \in Seq(Complete)
      BY AppendProperties
    <2>2. Text(Append(es, e)) = HeaderBytes \o (Body(es) \o F[e])
      BY <1>2, <1>3, <2>1
    <2>3. HeaderBytes \o (Body(es) \o F[e]) = HeaderBytes \o Body(es) \o F[e]
      BY SMTT(60), <1>1, <1>3, <1>4, ConcatAssociative
    <2> QED
      BY <1>1, <1>5, <2>2, <2>3
  <1> QED
    BY <1>5, <1>6

-----------------------------------------------------------------------------
(* What is spelled while an entry is under way.                            *)

(* What the reader is in the middle of, where it is at p.                  *)
Spelled(p, e, o) ==
    IF p = "index" THEN <<e.type>> \o Groups(e.index)
    ELSE IF p = "size" THEN <<e.type>> \o (Padded(e.index) \o Groups(e.size))
    ELSE IF p \in {"digest", "payload", "opcodes", "opcode"} THEN Layout(e)
    ELSE IF p = "pos" THEN Layout(e) \o <<OpTag[o.op]>>
    ELSE IF p \in {"length", "inline"} THEN Layout(e) \o (<<OpTag[o.op]>> \o Fixed(o.pos))
    ELSE <<>>

(* Nothing before, and nothing after.                                      *)
LEMMA Empties ==
    ASSUME NEW s \in Seq(Byte)
    PROVE  s \o <<>> = s /\ <<>> \o s = s /\ <<>> \in Seq(Byte)
  BY ConcatEmptySeq, EmptySeq

(* A number of which no byte has been read.                                *)
LEMMA NothingYet ==
    /\ Padded(NoBytes) = <<>> /\ Groups(NoBytes) = <<>>
    /\ NoBytes \in Numbers /\ NoBytes.i = 0
  <1>1. NoBytes \in Numbers /\ NoBytes.i = 0 /\ NoBytes \in [value : Nat, i : 0 .. MaxBytes]
    <2>1. Weight[0] = 1 /\ MaxBytes \in Nat \ {0} /\ MaxBytes - 1 \in 0 .. MaxBytes
      BY WidthAssumption
    <2>2. Weight[0] <= Weight[MaxBytes - 1]
      BY <2>1, WidthAssumption
    <2>3. WordSize \in Nat /\ WordSize > 0
      BY <2>1, <2>2, ByteType
    <2> QED
      BY <2>1, <2>3 DEF NoBytes, Numbers
  <1>2. /\ Padded(NoBytes) \in Seq(Byte) /\ Len(Padded(NoBytes)) = 0
        /\ Groups(NoBytes) \in Seq(Byte) /\ Len(Groups(NoBytes)) = 0
    BY <1>1, VarintType
  <1> QED
    BY <1>1, <1>2, EmptySeq

(* What is spelled consists of bytes.                                      *)
LEMMA SpelledType ==
    ASSUME NEW p, NEW e \in EntryType, NEW o \in OpType
    PROVE  Spelled(p, e, o) \in Seq(Byte) /\ <<OpTag[o.op]>> \in Seq(Byte)
  <1>1. /\ <<e.type>> \in Seq(Byte) /\ Groups(e.index) \in Seq(Byte) /\ Groups(e.size) \in Seq(Byte)
        /\ Padded(e.index) \in Seq(Byte) /\ Layout(e) \in Seq(Byte)
    BY EntryLayout
  <1>2. o.op \in DOMAIN OpTag /\ o.pos \in Nat
    BY DEF OpType
  <1>3. OpTag[o.op] \in Byte /\ Fixed(o.pos) \in Seq(Byte)
    BY <1>2, FixedIsBytes, LayoutAssumption DEF OpTags
  <1>4. <<OpTag[o.op]>> \in Seq(Byte)
    BY <1>3
  <1>5. /\ <<e.type>> \o Groups(e.index) \in Seq(Byte)
        /\ <<e.type>> \o (Padded(e.index) \o Groups(e.size)) \in Seq(Byte)
        /\ Layout(e) \o <<OpTag[o.op]>> \in Seq(Byte)
        /\ Layout(e) \o (<<OpTag[o.op]>> \o Fixed(o.pos)) \in Seq(Byte)
        /\ <<>> \in Seq(Byte)
    BY <1>1, <1>3, <1>4, ConcatProperties, EmptySeq
  <1> QED
    BY <1>1, <1>4, <1>5 DEF Spelled

(* An entry of which only the type is known.                               *)
LEMMA BeginText ==
    ASSUME NEW t \in 0 .. TypeLimit - 1, NEW o \in OpType
    PROVE  /\ NewEntry(t) \in EntryType /\ NewEntry(t).type = t
           /\ NewEntry(t).digest = <<>> /\ NewEntry(t).body = <<>>
           /\ Spelled("index", NewEntry(t), o) = <<t>>
           /\ Spelled("size", NewEntry(t), o) = <<t>>
  <1> DEFINE e == NewEntry(t)
  <1>1. e = [type |-> t, index |-> NoBytes, size |-> NoBytes,
             digest |-> <<>>, body |-> <<>>, diff |-> 0]
    BY DEF NewEntry
  <1> HIDE DEF e
  <1>2. /\ e.type = t /\ e.index = NoBytes /\ e.size = NoBytes /\ e.digest = <<>>
        /\ e.body = <<>> /\ e.diff = 0
    BY <1>1
  <1>3. <<>> \in Seq(OpType) /\ <<>> \in Seq(Byte) /\ Len(<<>>) = 0
    BY EmptySeq
  <1>4. e.type = Modified => e.diff = Len(BodyBytes(e))
    BY <1>2, <1>3, NoOpcodes DEF BodyBytes
  <1>5. e \in [type : 0 .. TypeLimit - 1, index : Numbers, size : Numbers, digest : Seq(Byte),
               body : Seq(OpType) \cup Seq(Byte), diff : Nat]
    BY <1>1, <1>3, NothingYet
  <1>6. e \in EntryType
    BY <1>2, <1>3, <1>4, <1>5 DEF EntryType
  <1>7. <<t>> \in Seq(Byte)
    BY <1>2, <1>6, EntryLayout
  <1>8. <<t>> \o <<>> = <<t>> /\ <<>> \o <<>> = <<>>
    BY <1>3, <1>7, Empties
  <1>9. Spelled("index", e, o) = <<t>> /\ Spelled("size", e, o) = <<t>>
    BY <1>2, <1>8, NothingYet DEF Spelled
  <1> QED
    BY <1>2, <1>6, <1>9 DEF e

(* A digest comes after the numbers, and before the body.                  *)
LEMMA DigestText ==
    ASSUME NEW e \in EntryType, e.digest = <<>>, e.body = <<>>, NEW d \in Seq(Byte)
    PROVE  LET f == [e EXCEPT !.digest = d]
           IN  /\ f \in EntryType /\ f.type = e.type /\ f.body = <<>> /\ f.size = e.size
               /\ Layout(f) = Layout(e) \o d
  <1> DEFINE f == [e EXCEPT !.digest = d]
             n == <<e.type>> \o (Padded(e.index) \o Padded(e.size))
  <1>1. /\ f \in [type : 0 .. TypeLimit - 1, index : Numbers, size : Numbers, digest : Seq(Byte),
                  body : Seq(OpType) \cup Seq(Byte), diff : Nat]
        /\ f.type = e.type /\ f.index = e.index /\ f.size = e.size /\ f.digest = d
        /\ f.body = e.body /\ f.diff = e.diff
    BY DEF EntryType
  <1> HIDE DEF f
  <1>2. BodyBytes(f) = BodyBytes(e) /\ BodyBytes(e) = <<>>
    BY <1>1, NoOpcodes DEF BodyBytes
  <1>3. f \in EntryType
    BY <1>1, <1>2 DEF EntryType
  <1>4. /\ Layout(f) = n \o d \o <<>> /\ Layout(e) = n \o <<>> \o <<>>
        /\ n \in Seq(Byte)
    <2>1. n \in Seq(Byte)
      BY EntryLayout, ConcatProperties
    <2> QED
      BY <1>1, <1>2, <1>3, <2>1, EntryLayout
  <1> HIDE DEF n
  <1>5. n \o d \in Seq(Byte)
    BY <1>4, ConcatProperties
  <1>6. Layout(f) = Layout(e) \o d
    BY <1>4, <1>5, Empties
  <1> QED
    BY <1>1, <1>3, <1>6 DEF f

(* A payload comes last.                                                   *)
LEMMA PayloadText ==
    ASSUME NEW e \in EntryType, e.type = Added, e.body = <<>>, NEW b \in Seq(Byte)
    PROVE  LET f == [e EXCEPT !.body = b]
           IN  /\ f \in EntryType /\ f.type = Added /\ f.body = b /\ f.size = e.size
               /\ Layout(f) = Layout(e) \o b
  <1> DEFINE f == [e EXCEPT !.body = b]
             n == <<e.type>> \o (Padded(e.index) \o Padded(e.size)) \o e.digest
  <1>0. Added # Modified
    BY DEF Added, Modified
  <1>1. /\ f \in [type : 0 .. TypeLimit - 1, index : Numbers, size : Numbers, digest : Seq(Byte),
                  body : Seq(OpType) \cup Seq(Byte), diff : Nat]
        /\ f.type = e.type /\ f.index = e.index /\ f.size = e.size /\ f.digest = e.digest
        /\ f.body = b
    BY DEF EntryType
  <1> HIDE DEF f
  <1>2. BodyBytes(f) = b /\ BodyBytes(e) = <<>>
    BY <1>0, <1>1 DEF BodyBytes
  <1>3. f \in EntryType
    BY <1>0, <1>1 DEF EntryType
  <1>4. Layout(f) = n \o b /\ Layout(e) = n \o <<>> /\ n \in Seq(Byte)
    <2>1. n \in Seq(Byte)
      BY EntryLayout, ConcatProperties
    <2> QED
      BY <1>1, <1>2, <1>3, <2>1, EntryLayout
  <1> HIDE DEF n
  <1>6. Layout(f) = Layout(e) \o b
    BY <1>4, Empties
  <1> QED
    BY <1>1, <1>3, <1>6 DEF f

(* One more opcode, and what it adds to the size of the run.               *)
LEMMA OpcodeText ==
    ASSUME NEW e \in EntryType, e.type = Modified, NEW o \in OpType
    PROVE  LET f == [e EXCEPT !.body = Append(@, o),
                              !.diff = @ + 1 + FixedBytes
                                       + (IF o.op = "X" THEN FixedBytes ELSE 1 + Len(o.bytes))]
           IN  f \in EntryType /\ f.type = Modified /\ Layout(f) = Layout(e) \o OpcodeBytes(o)
  <1> DEFINE l == 1 + FixedBytes + (IF o.op = "X" THEN FixedBytes ELSE 1 + Len(o.bytes))
             h == e.diff + 1 + FixedBytes
                  + (IF o.op = "X" THEN FixedBytes ELSE 1 + Len(o.bytes))
             f == [e EXCEPT !.body = Append(@, o),
                            !.diff = @ + 1 + FixedBytes
                                     + (IF o.op = "X" THEN FixedBytes ELSE 1 + Len(o.bytes))]
             n == <<e.type>> \o (Padded(e.index) \o Padded(e.size)) \o e.digest
             s == OpcodesBytes(e.body)
             b == OpcodeBytes(o)
  <1>1. /\ e.body \in Seq(OpType) /\ e.diff = Len(s) /\ e.diff \in Nat
        /\ e = [type |-> e.type, index |-> e.index, size |-> e.size,
                digest |-> e.digest, body |-> e.body, diff |-> e.diff]
    BY DEF EntryType, BodyBytes
  <1>2. s \in Seq(Byte) /\ OpcodesBytes(Append(e.body, o)) = s \o b
    BY <1>1, OpcodesLayout
  <1>3. b \in Seq(Byte) /\ Len(b) = l
    BY OpcodeLayout
  <1>4. Append(e.body, o) \in Seq(OpType)
    BY <1>1, AppendProperties
  <1>5. s \o b \in Seq(Byte) /\ Len(s \o b) = Len(s) + l /\ h \in Nat /\ h = Len(s) + l
    <2>1. s \o b \in Seq(Byte) /\ Len(s \o b) = Len(s) + Len(b) /\ Len(s) \in Nat /\ Len(b) \in Nat
      BY <1>2, <1>3, Joined
    <2>2. FixedBytes \in Nat /\ Len(o.bytes) \in Nat
      BY BaseType, LenProperties DEF OpType
    <2>3. s \o b \in Seq(Byte) /\ Len(s \o b) = Len(s) + l
      <3> HIDE DEF s, b, l
      <3> QED
        BY <1>3, <2>1
    <2>4. h = e.diff + l /\ h \in Nat
      <3> DEFINE x == IF o.op = "X" THEN FixedBytes ELSE 1 + Len(o.bytes)
                 d == e.diff
      <3>1. x \in Nat /\ d \in Nat /\ FixedBytes \in Nat
        BY <1>1, <2>2
      <3>2. h = d + 1 + FixedBytes + x /\ l = 1 + FixedBytes + x
        OBVIOUS
      <3> HIDE DEF x, h, l, d
      <3>3. h = d + l /\ h \in Nat
        BY <3>1, <3>2
      <3> QED
        BY <3>3 DEF d
    <2> HIDE DEF s, b, l, h
    <2> QED
      BY <1>1, <2>3, <2>4
  <1>6. /\ f.type = e.type /\ f.index = e.index /\ f.size = e.size /\ f.digest = e.digest
        /\ f.body = Append(e.body, o) /\ f.diff = h
        /\ f = [type |-> e.type, index |-> e.index, size |-> e.size,
                digest |-> e.digest, body |-> Append(e.body, o), diff |-> h]
    <2>1. f = [e EXCEPT !.body = Append(e.body, o), !.diff = h]
      OBVIOUS
    <2> HIDE DEF n, s, b, f, h
    <2> QED
      BY <1>1, <2>1
  <1> HIDE DEF l, h
  <1> HIDE DEF f
  <1>7. BodyBytes(f) = s \o b /\ BodyBytes(e) = s
    BY <1>2, <1>6 DEF BodyBytes
  <1>8. f \in EntryType
    <2>1. /\ e.type \in 0 .. TypeLimit - 1 /\ e.index \in Numbers /\ e.size \in Numbers
          /\ e.digest \in Seq(Byte)
      BY DEF EntryType
    <2> HIDE DEF s, b
    <2>2. f \in [type : 0 .. TypeLimit - 1, index : Numbers, size : Numbers, digest : Seq(Byte),
                 body : Seq(OpType) \cup Seq(Byte), diff : Nat]
      BY <1>4, <1>5, <1>6, <2>1
    <2> QED
      BY <1>4, <1>5, <1>6, <1>7, <2>2 DEF EntryType
  <1>9. Layout(f) = n \o (s \o b) /\ Layout(e) = n \o s /\ n \in Seq(Byte)
    <2>1. n \in Seq(Byte)
      BY EntryLayout, ConcatProperties
    <2> HIDE DEF s, b
    <2> QED
      BY <1>6, <1>7, <1>8, <2>1, EntryLayout
  <1> HIDE DEF n, s, b
  <1>10. Layout(f) = Layout(e) \o b
    <2>1. (n \o s) \o b = n \o (s \o b)
      BY SMTT(60), <1>2, <1>3, <1>9, ConcatAssociative
    <2> QED
      BY <1>9, <2>1
  <1> QED
    BY <1>6, <1>8, <1>10 DEF f, b

(* Two groups of fields, and one more byte.                                *)
LEMMA ByteOn ==
    ASSUME NEW s \in Seq(Byte), NEW t \in Seq(Byte), NEW b \in Byte
    PROVE  s \o Append(t, b) = (s \o t) \o <<b>>
  <1>1. <<b>> \in Seq(Byte)
    OBVIOUS
  <1>2. Append(t, b) = t \o <<b>>
    BY AppendIsConcat
  <1>3. s \o (t \o <<b>>) = (s \o t) \o <<b>>
    BY SMTT(60), <1>1, ConcatAssociative
  <1> QED
    BY <1>2, <1>3

(* A byte of a number that read_varint() accepts.                          *)
Taken(e, o, field, byte, n, f) ==
    /\ e \in EntryType /\ e.digest = <<>> /\ e.body = <<>> /\ o \in OpType
    /\ field \in {"index", "size"} /\ byte \in Byte
    /\ n \in [value : 0 .. WordSize - 1, i : 1 .. MaxBytes]
    /\ n = [value |-> e[field].value + Bits(byte) * Weight[e[field].i], i |-> e[field].i + 1]
    /\ e[field].i < MaxBytes /\ e[field].value < Weight[e[field].i]
    /\ field = "index" => e.size = NoBytes
    /\ f = [e EXCEPT ![field] = n]

(* The number is one group longer, and so is what is spelled.              *)
Grown(e, o, field, byte, f) ==
    /\ f \in EntryType /\ f.type = e.type /\ f.digest = <<>> /\ f.body = <<>>
    /\ More(byte) => Spelled(field, f, o) = Spelled(field, e, o) \o <<byte>>
    /\ ~More(byte) /\ field = "index" =>
          /\ Spelled("size", f, o) = Spelled(field, e, o) \o <<byte>>
          /\ Spelled("digest", f, o) = Spelled(field, e, o) \o <<byte>>
    /\ ~More(byte) /\ field = "size" =>
          Spelled("digest", f, o) = Spelled(field, e, o) \o <<byte>>

(* One more group of a number.                                             *)
LEMMA NumberText ==
    ASSUME NEW e, NEW o, NEW field, NEW byte, NEW n, NEW f, Taken(e, o, field, byte, n, f)
    PROVE  Grown(e, o, field, byte, f)
  <1> USE DEF Taken, Grown
  <1> DEFINE m == e[field]
  <1>1. /\ e.type \in 0 .. TypeLimit - 1 /\ e.index \in Numbers /\ e.size \in Numbers
        /\ e.diff \in Nat
        /\ e.type = Modified => e.diff = Len(BodyBytes(e))
        /\ e = [type |-> e.type, index |-> e.index, size |-> e.size,
                digest |-> e.digest, body |-> e.body, diff |-> e.diff]
    BY DEF EntryType
  <1>2. n \in Numbers /\ n \in [value : Nat, i : 0 .. MaxBytes] /\ m \in [value : Nat, i : 0 .. MaxBytes - 1]
    <2>1. WordSize \in Nat /\ MaxBytes \in Nat
      BY ByteType
    <2>2. m \in Numbers
      BY <1>1
    <2> HIDE DEF m
    <2> QED
      BY <2>1, <2>2 DEF Numbers, m
  <1>3. /\ More(byte) => Groups(n) = Append(Groups(m), byte)
        /\ ~More(byte) => Padded(n) = Append(Groups(m), byte)
    <2>1. m.value < Weight[m.i] /\ n = [value |-> m.value + Bits(byte) * Weight[m.i], i |-> m.i + 1]
      OBVIOUS
    <2> HIDE DEF m
    <2> QED
      BY <1>2, <2>1, GroupTaken
  <1>4. /\ f.type = e.type /\ f.digest = <<>> /\ f.body = <<>> /\ f.diff = e.diff
        /\ f.index \in Numbers /\ f.size \in Numbers
        /\ f = [type |-> e.type, index |-> f.index, size |-> f.size,
                digest |-> <<>>, body |-> <<>>, diff |-> e.diff]
        /\ field = "index" => f.index = n /\ f.size = e.size
        /\ field = "size" => f.size = n /\ f.index = e.index
    <2> HIDE DEF m
    <2>1. CASE field = "index"
      BY <1>1, <1>2, <2>1
    <2>2. CASE field = "size"
      BY <1>1, <1>2, <2>2
    <2> QED
      BY <2>1, <2>2
  <1>5. BodyBytes(f) = <<>> /\ BodyBytes(e) = <<>>
    BY <1>4, NoOpcodes DEF BodyBytes
  <1>6. f \in EntryType
    <2>1. <<>> \in Seq(OpType) /\ <<>> \in Seq(Byte) /\ Len(<<>>) = 0
      BY EmptySeq
    <2>2. f \in [type : 0 .. TypeLimit - 1, index : Numbers, size : Numbers, digest : Seq(Byte),
                 body : Seq(OpType) \cup Seq(Byte), diff : Nat]
      BY <1>1, <1>4, <2>1
    <2> QED
      BY <1>1, <1>4, <1>5, <2>1, <2>2 DEF EntryType
  <1> DEFINE t == <<e.type>>
  <1>7. /\ t \in Seq(Byte) /\ Groups(e.index) \in Seq(Byte) /\ Groups(e.size) \in Seq(Byte)
        /\ Padded(e.index) \in Seq(Byte) /\ Padded(e.size) \in Seq(Byte)
        /\ Padded(f.index) \in Seq(Byte) /\ Padded(f.size) \in Seq(Byte)
        /\ Layout(f) = t \o (Padded(f.index) \o Padded(f.size)) \o <<>> \o <<>>
    BY <1>4, <1>5, <1>6, EntryLayout
  <1> HIDE DEF t
  <1>8. Layout(f) = t \o (Padded(f.index) \o Padded(f.size))
    <2>1. t \o (Padded(f.index) \o Padded(f.size)) \in Seq(Byte)
      BY <1>7, ConcatProperties
    <2> QED
      BY <1>7, <2>1, Empties
  <1>9. /\ Spelled("index", e, o) = t \o Groups(e.index)
        /\ Spelled("index", f, o) = t \o Groups(f.index)
        /\ Spelled("size", e, o) = t \o (Padded(e.index) \o Groups(e.size))
        /\ Spelled("size", f, o) = t \o (Padded(f.index) \o Groups(f.size))
        /\ Spelled("digest", f, o) = Layout(f)
    BY SMTT(60), <1>4 DEF Spelled, t
  <1>10. CASE field = "index"
    <2>1. t \o Append(Groups(e.index), byte) = Spelled("index", e, o) \o <<byte>>
      <3> DEFINE g == Groups(e.index)
      <3>1. g \in Seq(Byte) /\ Spelled("index", e, o) = t \o g
        BY <1>7, <1>9
      <3> HIDE DEF g
      <3>2. t \o Append(g, byte) = (t \o g) \o <<byte>>
        BY ZenonT(60), <1>7, <3>1, ByteOn
      <3> QED
        BY <3>1, <3>2 DEF g
    <2>2. m = e.index /\ f.index = n /\ f.size = NoBytes
      BY <1>4, <1>10
    <2>3. More(byte) => Spelled("index", f, o) = t \o Append(Groups(e.index), byte)
      BY <1>3, <1>9, <2>2
    <2>4. /\ Padded(f.index) \o Groups(f.size) = Padded(f.index)
          /\ Padded(f.index) \o Padded(f.size) = Padded(f.index)
      BY SMTT(60), <1>7, <2>2, NothingYet, Empties
    <2>5. ~More(byte) => /\ Spelled("size", f, o) = t \o Append(Groups(e.index), byte)
                         /\ Spelled("digest", f, o) = t \o Append(Groups(e.index), byte)
      BY ZenonT(60), <1>3, <1>8, <1>9, <2>2, <2>4
    <2> QED
      BY <1>4, <1>6, <1>10, <2>1, <2>3, <2>5
  <1>11. CASE field = "size"
    <2> DEFINE p == Padded(e.index)
               g == Groups(e.size)
    <2>1. t \o (p \o Append(g, byte)) = Spelled("size", e, o) \o <<byte>>
      <3>1. p \in Seq(Byte) /\ g \in Seq(Byte) /\ Spelled("size", e, o) = t \o (p \o g)
        BY <1>7, <1>9
      <3> HIDE DEF p, g
      <3>2. <<byte>> \in Seq(Byte) /\ p \o g \in Seq(Byte)
        BY <3>1, ConcatProperties
      <3>3. p \o Append(g, byte) = (p \o g) \o <<byte>>
        BY <3>1, ByteOn
      <3>4. t \o ((p \o g) \o <<byte>>) = (t \o (p \o g)) \o <<byte>>
        <4> DEFINE u == p \o g
                   b == <<byte>>
        <4>1. u \in Seq(Byte) /\ b \in Seq(Byte) /\ t \in Seq(Byte)
          BY <1>7, <3>2
        <4> HIDE DEF u, b
        <4>2. (t \o u) \o b = t \o (u \o b)
          BY SMTT(60), <4>1, ConcatAssociative
        <4> QED
          BY <4>2 DEF u, b
      <3> QED
        BY <3>1, <3>3, <3>4
    <2>2. m = e.size /\ f.size = n /\ f.index = e.index
      BY <1>4, <1>11
    <2>3. More(byte) => Spelled("size", f, o) = t \o (p \o Append(g, byte))
      BY <1>3, <1>9, <2>2
    <2>4. ~More(byte) => Spelled("digest", f, o) = t \o (p \o Append(g, byte))
      BY <1>3, <1>8, <1>9, <2>2
    <2> QED
      BY <1>4, <1>6, <1>11, <2>1, <2>3, <2>4
  <1> QED
    BY <1>10, <1>11

-----------------------------------------------------------------------------
(* What has been read, and what is shown.                                  *)

(* What an entry and an opcode under way have come to.                     *)
Placed(p, e, o) ==
    /\ p \in {"index", "size", "digest"} => e.digest = <<>>
    /\ p \in {"index", "size", "digest", "payload"} => e.body = <<>>
    /\ p = "payload" => e.type = Added
    /\ p \in {"opcodes", "opcode", "pos", "length", "inline"} => e.type = Modified
    /\ p = "length" => o.op = "X"
    /\ p = "inline" => o.op # "X"

EntryInv ==
    /\ item \in EntryType /\ op \in OpType /\ listed \in Seq(Complete)
    /\ Placed(pc, item, op)
    /\ pc \in {"write", "stored", "header"} => listed = <<>>

Reading == {"item", "tag", "index", "size", "digest", "payload", "opcodes", "opcode", "pos",
            "length", "inline", "trailer"}

(* What has been read is what is listed and what is under way.             *)
ReadInv ==
    /\ file.eof => file.at = Len(content)
    /\ pc = "header" => Position(file) = 0
    /\ pc \in Reading => Upto(file, content) = Text(listed) \o Spelled(pc, item, op)
    /\ pc = "trailer" => file.buf # <<>> /\ Head(file.buf) = TrailerTag

EndInv ==
    /\ trailer # <<>> =>
          pc \in {"finish", "done"} /\ content = Text(listed) \o TrailerRecord(trailer)
    /\ pc = "done" /\ status = 0 => trailer # <<>>

ParseInv == EntryInv /\ ReadInv /\ EndInv

(* What holds while the delta is read.                                     *)
LEMMA Before ==
    ASSUME IInv, ParseInv, pc \in Reading \cup {"header"}
    PROVE  /\ content \in Seq(Byte) /\ Known(file, content) /\ trailer = <<>>
           /\ item \in EntryType /\ op \in OpType /\ listed \in Seq(Complete)
           /\ Spelled(pc, item, op) \in Seq(Byte) /\ Text(listed) \in Seq(Byte)
  <1>1. /\ content \in Seq(Byte) /\ Known(file, content)
        /\ item \in EntryType /\ op \in OpType /\ listed \in Seq(Complete)
    BY DEF IInv, FileInv, ParseInv, EntryInv, ReadInv, Known
  <1>2. pc \notin {"finish", "done"}
    BY DEF Reading
  <1>3. trailer = <<>>
    BY <1>2 DEF ParseInv, EndInv
  <1> QED
    BY <1>1, <1>3, SpelledType, TextNext

(* A step that reads on in an entry, or between two.                       *)
LEMMA Onward ==
    ASSUME IInv, ParseInv, pc \in Reading, pc' \in Reading,
           content' = content, trailer' = trailer, listed' = listed,
           item' \in EntryType, op' \in OpType, Placed(pc', item', op'), Known(file', content),
           NEW bytes \in Seq(Byte), Upto(file', content) = Upto(file, content) \o bytes,
           Spelled(pc', item', op') = Spelled(pc, item, op) \o bytes,
           pc' = "trailer" => file'.buf # <<>> /\ Head(file'.buf) = TrailerTag
    PROVE  ParseInv'
  <1>1. /\ trailer = <<>> /\ listed \in Seq(Complete)
        /\ Spelled(pc, item, op) \in Seq(Byte) /\ Text(listed) \in Seq(Byte)
    BY Before
  <1>2. Upto(file, content) = Text(listed) \o Spelled(pc, item, op)
    BY DEF ParseInv, ReadInv
  <1> DEFINE t == Text(listed)
             s == Spelled(pc, item, op)
  <1>3. (t \o s) \o bytes = t \o (s \o bytes)
    <2>1. t \in Seq(Byte) /\ s \in Seq(Byte)
      BY <1>1
    <2> HIDE DEF t, s
    <2> QED
      BY SMTT(60), <2>1, ConcatAssociative
  <1>4. Upto(file', content) = Text(listed) \o Spelled(pc', item', op')
    BY <1>2, <1>3
  <1>5. pc' \notin {"write", "stored", "header", "finish", "done"}
    BY DEF Reading
  <1>6. EntryInv'
    BY <1>1, <1>5 DEF EntryInv
  <1>7. ReadInv'
    <2>1. Upto(file, content)' = Text(listed)' \o Spelled(pc', item', op')
      BY <1>4 DEF Upto, Position, Text
    <2> QED
      BY <1>5, <2>1 DEF ReadInv, Known
  <1>8. EndInv'
    BY <1>1, <1>5 DEF EndInv
  <1> QED
    BY <1>6, <1>7, <1>8 DEF ParseInv

(* A step with which the reader stops, or comes to the end.                *)
LEMMA Stops ==
    ASSUME IInv, ParseInv, pc \notin {"finish", "done"}, pc' \in {"finish", "done"},
           pc' = "done" => status' # 0,
           content' = content, trailer' = trailer, listed' = listed,
           item' \in EntryType, op' \in OpType, Known(file', content)
    PROVE  ParseInv'
  <1>1. trailer = <<>> /\ listed \in Seq(Complete)
    BY DEF ParseInv, EndInv, EntryInv
  <1>2. EntryInv'
    BY <1>1 DEF EntryInv, Placed
  <1>3. ReadInv'
    BY DEF ReadInv, Reading, Known
  <1>4. EndInv'
    BY <1>1 DEF EndInv
  <1> QED
    BY <1>2, <1>3, <1>4 DEF ParseInv

(* A step that completes an entry.                                         *)
LEMMA Shows ==
    ASSUME IInv, ParseInv, pc \in Reading, pc' = "item",
           content' = content, trailer' = trailer, listed' = Append(listed, item'),
           item' \in Complete, op' = op, Known(file', content),
           NEW bytes \in Seq(Byte), Upto(file', content) = Upto(file, content) \o bytes,
           Layout(item') = Spelled(pc, item, op) \o bytes
    PROVE  ParseInv'
  <1>1. /\ trailer = <<>> /\ listed \in Seq(Complete) /\ op \in OpType
        /\ Spelled(pc, item, op) \in Seq(Byte) /\ Text(listed) \in Seq(Byte)
    BY Before
  <1>2. Upto(file, content) = Text(listed) \o Spelled(pc, item, op)
    BY DEF ParseInv, ReadInv
  <1> DEFINE t == Text(listed)
             s == Spelled(pc, item, op)
  <1>3. (t \o s) \o bytes = t \o (s \o bytes)
    <2>1. t \in Seq(Byte) /\ s \in Seq(Byte)
      BY <1>1
    <2> HIDE DEF t, s
    <2> QED
      BY SMTT(60), <2>1, ConcatAssociative
  <1>4. Append(listed, item') \in Seq(Complete) /\ Text(Append(listed, item')) = t \o Layout(item')
    BY <1>1, TextNext, AppendProperties
  <1>5. Text(Append(listed, item')) \in Seq(Byte)
    BY <1>4, TextNext
  <1>6. Upto(file', content) = Text(Append(listed, item')) \o <<>>
    BY <1>2, <1>3, <1>4, <1>5, Empties
  <1>7. EntryInv'
    BY <1>1, <1>4 DEF EntryInv, Placed, Complete
  <1>8. ReadInv'
    <2>1. Spelled(pc', item', op') = <<>>
      BY DEF Spelled
    <2>2. Upto(file, content)' = Text(listed)' \o Spelled(pc', item', op')
      BY <1>6, <2>1 DEF Upto, Position, Text
    <2> QED
      BY <2>2 DEF ReadInv, Known
  <1>9. EndInv'
    BY <1>1 DEF EndInv
  <1> QED
    BY <1>7, <1>8, <1>9 DEF ParseInv

(* A delta that is refused is not accepted.                                *)
LEMMA RefuseFails == \A f : Refuse(f) => pc' = "done" /\ status' # 0
  BY DEF Refuse

(* The file is opened: nothing has been read.                              *)
LEMMA ParseOpen ==
    ASSUME IInv, ParseInv, Open
    PROVE  ParseInv'
  <1>1. /\ pc = "stored" /\ content' = content /\ trailer' = trailer /\ listed' = listed
        /\ item' = item /\ op' = op
        /\ \/ file' = Opened(content) /\ pc' = "header"
           \/ file' = [Opened(content) EXCEPT !.error = TRUE] /\ Refuse(file')
    BY DEF Open, Goto, written, shown
  <1>2. /\ content \in Seq(Byte) /\ item \in EntryType /\ op \in OpType /\ listed = <<>>
        /\ listed \in Seq(Complete) /\ trailer = <<>>
    BY <1>1 DEF IInv, FileInv, ParseInv, EntryInv, EndInv
  <1>3. /\ Known(Opened(content), content) /\ Position(Opened(content)) = 0
        /\ Known([Opened(content) EXCEPT !.error = TRUE], content)
    <2>1. Good(Opened(content), content, Byte) /\ Opened(content) \in FileType(Byte)
      BY <1>2, OpenedGood
    <2>2. Len(<<>>) = 0
      BY EmptySeq
    <2>3. Position(Opened(content)) = 0
      BY <2>2 DEF Opened, Position
    <2> QED
      BY <2>1, <2>3 DEF Good, FileType, Position, Known, Opened
  <1>4. CASE pc' = "header" /\ file' = Opened(content)
    <2>1. EntryInv'
      BY <1>1, <1>2, <1>4 DEF EntryInv, Placed
    <2>2. ReadInv'
      <3>1. Position(file)' = Position(file')
        BY DEF Position
      <3> QED
        BY <1>1, <1>3, <1>4, <3>1 DEF ReadInv, Reading, Known
    <2>3. EndInv'
      BY <1>1, <1>2, <1>4 DEF EndInv
    <2> QED
      BY <2>1, <2>2, <2>3 DEF ParseInv
  <1>5. CASE file' = [Opened(content) EXCEPT !.error = TRUE] /\ Refuse(file')
    BY <1>1, <1>2, <1>3, <1>5, RefuseFails, Stops
  <1> QED
    BY <1>1, <1>4, <1>5

(* The header is what every delta begins with.                             *)
LEMMA ParseHeader ==
    ASSUME IInv, ParseInv, ReadHeader
    PROVE  ParseInv'
  <1>1. /\ pc = "header" /\ content' = content /\ trailer' = trailer /\ listed' = listed
        /\ item' = item /\ op' = op
    BY DEF ReadHeader, written, shown
  <1>2. PICK r \in ReadChunk(file, content, Len(HeaderBytes)) :
           file' = r.file /\ IF r.bytes = HeaderBytes THEN pc' = "item" ELSE Refuse(r.file)
    BY DEF ReadHeader, Goto
  <1>3. /\ content \in Seq(Byte) /\ item \in EntryType /\ op \in OpType /\ listed = <<>>
        /\ listed \in Seq(Complete) /\ trailer = <<>> /\ Known(file, content)
        /\ Position(file) = 0
    BY <1>1, Before DEF ParseInv, EntryInv, ReadInv
  <1>4. HeaderBytes \in Seq(Byte) /\ Len(HeaderBytes) \in Nat
    BY WrittenIsBytes, LenProperties
  <1>5. Known(r.file, content) /\ Upto(r.file, content) = Upto(file, content) \o r.bytes
    BY <1>2, <1>3, <1>4, Chunkwise
  <1>6. CASE r.bytes = HeaderBytes
    <2>1. Upto(file, content) = <<>>
      <3>1. Upto(file, content) \in Seq(Byte) /\ Len(Upto(file, content)) = 0
        BY <1>3, PositionType DEF Known
      <3> QED
        BY <3>1, EmptySeq
    <2>2. Text(listed) = HeaderBytes
      <3>1. [k \in DOMAIN listed |-> Layout(listed[k])] = <<>>
        BY <1>3, EmptySeq
      <3>2. Text(listed) = HeaderBytes \o <<>>
        BY <3>1, FlattenEmpty DEF Text
      <3> QED
        BY <1>4, <3>2, Empties
    <2>3. Upto(r.file, content) = Text(listed) \o <<>>
      BY <1>4, <1>5, <1>6, <2>1, <2>2, Empties
    <2>4. Spelled("item", item, op) = <<>>
      BY DEF Spelled
    <2>5. pc' = "item"
      BY <1>2, <1>6
    <2>6. EntryInv'
      BY <1>1, <1>3, <2>5 DEF EntryInv, Placed
    <2>7. ReadInv'
      <3>1. Upto(file, content)' = Text(listed)' \o Spelled(pc', item', op')
        BY <1>1, <1>2, <2>3, <2>4, <2>5 DEF Upto, Position, Text
      <3> QED
        BY <1>1, <1>2, <1>5, <2>5, <3>1 DEF ReadInv, Known
    <2>8. EndInv'
      BY <1>1, <1>3, <2>5 DEF EndInv
    <2> QED
      BY <2>6, <2>7, <2>8 DEF ParseInv
  <1>7. CASE r.bytes # HeaderBytes
    BY <1>1, <1>2, <1>3, <1>5, <1>7, RefuseFails, Stops
  <1> QED
    BY <1>6, <1>7

(* A peek decides what comes next, and leaves it to be read.               *)
LEMMA ParseItem ==
    ASSUME IInv, ParseInv, NextItem
    PROVE  ParseInv'
  <1>1. /\ pc = "item" /\ content' = content /\ trailer' = trailer /\ listed' = listed
        /\ item' = item /\ op' = op
    BY DEF NextItem, written, shown
  <1>2. PICK r \in PeekByte(file, content) :
           /\ file' = r.file
           /\ pc' = IF r.byte = EndOfFile THEN "finish"
                    ELSE IF r.byte = TrailerTag THEN "trailer" ELSE "tag"
    BY DEF NextItem, Goto
  <1>3. /\ content \in Seq(Byte) /\ Known(file, content)
        /\ item \in EntryType /\ op \in OpType
    BY <1>1, Before DEF Reading
  <1>4. /\ Known(r.file, content) /\ Upto(r.file, content) = Upto(file, content)
        /\ \/ r.byte = EndOfFile
           \/ r.file.buf # <<>> /\ Head(r.file.buf) = r.byte
    BY <1>2, <1>3, Peeks
  <1>5. CASE pc' = "finish"
    BY <1>1, <1>2, <1>3, <1>4, <1>5, Stops
  <1>6. CASE pc' # "finish"
    <2>1. pc' \in {"trailer", "tag"} /\ (pc' = "trailer" => r.byte = TrailerTag)
          /\ r.byte # EndOfFile
      BY <1>2, <1>6
    <2>2. Spelled(pc', item', op') = <<>> /\ Spelled(pc, item, op) = <<>>
      BY <1>1, <2>1 DEF Spelled
    <2>3. Spelled(pc', item', op') = Spelled(pc, item, op) \o <<>> /\ <<>> \in Seq(Byte)
      BY <2>2, Empties
    <2>4. Upto(r.file, content) = Upto(file, content) \o <<>>
      BY <1>3, <1>4, PositionType, Empties DEF Known
    <2>5. Placed(pc', item', op') /\ pc' \in Reading /\ pc \in Reading
      BY <1>1, <2>1 DEF Placed, Reading
    <2>6. pc' = "trailer" => file'.buf # <<>> /\ Head(file'.buf) = TrailerTag
      BY <1>2, <1>4, <2>1
    <2> QED
      BY <1>1, <1>2, <1>3, <1>4, <2>3, <2>4, <2>5, <2>6, Onward
  <1> QED
    BY <1>5, <1>6

(* The tag is the type of the entry, no other byte is taken for one.       *)
LEMMA ParseTag ==
    ASSUME IInv, ParseInv, ReadTag
    PROVE  ParseInv'
  <1>1. /\ pc = "tag" /\ content' = content /\ trailer' = trailer /\ listed' = listed /\ op' = op
    BY DEF ReadTag, written, shown
  <1>2. PICK r \in ReadByte(file, content) :
           /\ file' = r.file
           /\ IF r.byte \notin 0 .. TypeLimit - 1 THEN Refuse(r.file) /\ item' = item
              ELSE /\ item' = NewEntry(r.byte)
                   /\ pc' = IF ReferencesOld(r.byte) THEN "index" ELSE "size"
    BY DEF ReadTag, Goto
  <1>3. /\ content \in Seq(Byte) /\ Known(file, content)
        /\ item \in EntryType /\ op \in OpType
    BY <1>1, Before DEF Reading
  <1>4. /\ Known(r.file, content)
        /\ \/ r.byte = EndOfFile
           \/ r.byte \in Byte /\ Upto(r.file, content) = Upto(file, content) \o <<r.byte>>
    BY <1>2, <1>3, Bytewise
  <1>5. CASE r.byte \notin 0 .. TypeLimit - 1
    BY <1>1, <1>2, <1>3, <1>4, <1>5, RefuseFails, Stops
  <1>6. CASE r.byte \in 0 .. TypeLimit - 1
    <2>1. r.byte \in Byte /\ Upto(r.file, content) = Upto(file, content) \o <<r.byte>>
      BY <1>4, <1>6 DEF EndOfFile, TypeLimit
    <2> DEFINE t == r.byte
    <2>2. /\ item' = NewEntry(t) /\ pc' \in {"index", "size"}
      BY <1>2, <1>6
    <2>3. t \in 0 .. TypeLimit - 1 /\ <<t>> \in Seq(Byte)
      BY <1>6, <2>1
    <2> HIDE DEF t
    <2>4. /\ item' \in EntryType /\ item'.digest = <<>> /\ item'.body = <<>>
          /\ Spelled(pc', item', op) = <<t>>
      BY <1>3, <2>2, <2>3, BeginText
    <2>5. Spelled(pc, item, op) = <<>>
      BY <1>1 DEF Spelled
    <2>6. Spelled(pc', item', op') = Spelled(pc, item, op) \o <<t>>
      BY <1>1, <2>3, <2>4, <2>5, Empties
    <2>7. Placed(pc', item', op') /\ pc' \in Reading /\ pc \in Reading /\ pc' # "trailer"
      BY <1>1, <2>2, <2>4 DEF Placed, Reading
    <2>8. Upto(file', content) = Upto(file, content) \o <<t>> /\ Known(file', content)
      BY <1>2, <1>4, <2>1 DEF t
    <2> QED
      BY <1>1, <1>3, <2>3, <2>4, <2>6, <2>7, <2>8, Onward
  <1> QED
    BY <1>5, <1>6

(* The groups of a varint are kept, in order, whatever its length.         *)
LEMMA ParseNumber ==
    ASSUME IInv, ParseInv, NEW field \in {"index", "size"}, ReadNumber(field)
    PROVE  ParseInv'
  <1>1. /\ pc = field /\ content' = content /\ trailer' = trailer /\ listed' = listed /\ op' = op
        /\ pc \in Reading
        /\ pc' = "done" => status' # 0
    BY DEF ReadNumber, written, shown, Reading, Goto, Refuse
  <1>2. /\ content \in Seq(Byte) /\ Known(file, content)
        /\ item \in EntryType /\ op \in OpType
    BY <1>1, Before
  <1>3. PICK r \in ReadByte(file, content) :
              /\ file' = r.file
              /\ \/ item' = item /\ pc' = "done"
                 \/ LET n == AddGroup(item[field], r.byte)
                    IN  /\ r.byte \in Byte /\ r.byte = content[Position(file')]
                        /\ item' = [item EXCEPT ![field] = n]
                        /\ n \in [value : 0 .. WordSize - 1, i : 1 .. MaxBytes]
                        /\ n = [value |-> item[field].value
                                          + Bits(r.byte) * Weight[item[field].i],
                                i     |-> item[field].i + 1]
                        /\ \/ More(r.byte) /\ pc' = field
                              /\ n.i < MaxBytes /\ n.value < Weight[n.i]
                           \/ ~More(r.byte) /\ field = "index" /\ pc' \in {"digest", "size"}
                              /\ (pc' = "digest" <=> item.type = Original)
                           \/ ~More(r.byte) /\ field = "size" /\ pc' = "done"
                           \/ ~More(r.byte) /\ field = "size" /\ pc' = "digest"
                              /\ n.value <= MaxChunk
    BY NumberReads
  <1>4. /\ Known(r.file, content)
        /\ r.byte \in Byte => Upto(r.file, content) = Upto(file, content) \o <<r.byte>>
    BY <1>2, <1>3, Bytewise, ByteType
  <1>5. CASE item' = item /\ pc' = "done"
    BY <1>1, <1>2, <1>3, <1>4, <1>5, Stops DEF Reading
  <1>6. CASE ~(item' = item /\ pc' = "done")
    <2> DEFINE n == AddGroup(item[field], r.byte)
               b == r.byte
    <2>1. /\ b \in Byte /\ item' = [item EXCEPT ![field] = n]
          /\ n \in [value : 0 .. WordSize - 1, i : 1 .. MaxBytes]
          /\ n = [value |-> item[field].value + Bits(b) * Weight[item[field].i],
                  i     |-> item[field].i + 1]
          /\ \/ More(b) /\ pc' = field
             \/ ~More(b) /\ field = "index" /\ pc' \in {"digest", "size"}
             \/ ~More(b) /\ field = "size" /\ pc' \in {"done", "digest"}
      BY <1>3, <1>6
    <2>2. Known(file', content) /\ Upto(file', content) = Upto(file, content) \o <<b>>
      BY <1>3, <1>4, <2>1
    <2> HIDE DEF n, b
    <2>3. /\ item[field].i < MaxBytes /\ item[field].value < Weight[item[field].i]
          /\ field = "index" => item.size = NoBytes
      BY <1>1 DEF IInv, NumberInv
    <2>4. item.digest = <<>> /\ item.body = <<>>
      BY <1>1 DEF ParseInv, EntryInv, Placed
    <2>5. /\ item' \in EntryType /\ item'.type = item.type /\ item'.digest = <<>>
          /\ item'.body = <<>>
          /\ More(b) => Spelled(field, item', op) = Spelled(field, item, op) \o <<b>>
          /\ ~More(b) /\ field = "index" =>
                /\ Spelled("size", item', op) = Spelled(field, item, op) \o <<b>>
                /\ Spelled("digest", item', op) = Spelled(field, item, op) \o <<b>>
          /\ ~More(b) /\ field = "size" =>
                Spelled("digest", item', op) = Spelled(field, item, op) \o <<b>>
      <3> DEFINE e == item
                 f == item'
                 o == op
      <3>1. Taken(e, o, field, b, n, f)
        BY <1>2, <2>1, <2>3, <2>4 DEF Taken
      <3> HIDE DEF e, f, o
      <3>2. Grown(e, o, field, b, f)
        BY <3>1, NumberText
      <3> QED
        BY <3>2 DEF Grown, e, f, o
    <2>6. CASE pc' = "done"
      BY <1>1, <1>2, <2>2, <2>5, <2>6, Stops DEF Reading
    <2>7. CASE pc' # "done"
      <3>1. Spelled(pc', item', op') = Spelled(pc, item, op) \o <<b>>
        BY <1>1, <2>1, <2>5, <2>7
      <3>2. pc' \in Reading /\ Placed(pc', item', op') /\ pc' # "trailer"
        BY <2>1, <2>5, <2>7 DEF Reading, Placed
      <3>3. <<b>> \in Seq(Byte)
        BY <2>1
      <3> QED
        BY <1>1, <1>2, <2>2, <2>5, <3>1, <3>2, <3>3, Onward
    <2> QED
      BY <2>6, <2>7
  <1> QED
    BY <1>5, <1>6

(* The digest, with which a reference to an old chunk is complete.         *)
LEMMA ParseDigest ==
    ASSUME IInv, ParseInv, ReadDigest
    PROVE  ParseInv'
  <1>1. /\ pc = "digest" /\ content' = content /\ trailer' = trailer /\ op' = op
        /\ pc \in Reading
    BY DEF ReadDigest, written, Reading
  <1>2. PICK r \in ReadChunk(file, content, DigestBytes) :
           /\ file' = r.file
           /\ item' = [item EXCEPT !.digest = r.bytes]
           /\ IF Len(r.bytes) < DigestBytes THEN Refuse(r.file) /\ listed' = listed
              ELSE IF item.type = Original
              THEN listed' = Append(listed, item') /\ pc' = "item"
              ELSE /\ pc' = IF item.type = Added THEN "payload" ELSE "opcodes"
                   /\ listed' = listed
    BY DEF ReadDigest, Goto, Show
  <1>3. /\ content \in Seq(Byte) /\ Known(file, content)
        /\ item \in EntryType /\ op \in OpType /\ DigestBytes \in Nat
    BY <1>1, Before, LayoutAssumption
  <1> DEFINE d == r.bytes
  <1>4. /\ Known(file', content) /\ d \in Seq(Byte)
        /\ Upto(file', content) = Upto(file, content) \o d
    BY <1>2, <1>3, Chunkwise
  <1>5. item.digest = <<>> /\ item.body = <<>>
    BY <1>1 DEF ParseInv, EntryInv, Placed
  <1>6. item' = [item EXCEPT !.digest = d]
    BY <1>2
  <1>7. /\ Len(d) < DigestBytes => pc' = "done" /\ status' # 0 /\ listed' = listed
        /\ ~(Len(d) < DigestBytes) /\ item.type = Original =>
              listed' = Append(listed, item') /\ pc' = "item"
        /\ ~(Len(d) < DigestBytes) /\ item.type # Original =>
              pc' = (IF item.type = Added THEN "payload" ELSE "opcodes") /\ listed' = listed
    BY <1>2, RefuseFails
  <1> HIDE DEF d
  <1>8. /\ item' \in EntryType /\ item'.type = item.type /\ item'.body = <<>>
        /\ Layout(item') = Layout(item) \o d
    BY <1>3, <1>4, <1>5, <1>6, DigestText
  <1>9. Spelled(pc, item, op) = Layout(item)
    BY <1>1 DEF Spelled
  <1>10. CASE Len(d) < DigestBytes
    BY <1>1, <1>3, <1>4, <1>7, <1>8, <1>10, Stops DEF Reading
  <1>11. CASE ~(Len(d) < DigestBytes) /\ item.type = Original
    <2>1. item' \in Complete
      BY <1>8, <1>11 DEF Complete, Original, Added
    <2> QED
      BY <1>1, <1>3, <1>4, <1>7, <1>8, <1>9, <1>11, <2>1, Shows
  <1>12. CASE ~(Len(d) < DigestBytes) /\ item.type # Original
    <2>1. pc' = (IF item.type = Added THEN "payload" ELSE "opcodes") /\ listed' = listed
      BY <1>7, <1>12
    <2>2. item.type \in {Added, Modified}
      BY <1>3, <1>12 DEF EntryType, TypeLimit, Original, Added, Modified
    <2>3. pc' \in Reading /\ Placed(pc', item', op') /\ pc' # "trailer"
      BY <1>8, <2>1, <2>2 DEF Reading, Placed
    <2>4. Spelled(pc', item', op') = Spelled(pc, item, op) \o d
      BY <1>8, <1>9, <2>1 DEF Spelled
    <2> QED
      BY <1>1, <1>3, <1>4, <1>8, <2>1, <2>3, <2>4, Onward
  <1> QED
    BY <1>10, <1>11, <1>12

(* The payload, as long as the size says.                                  *)
LEMMA ParsePayload ==
    ASSUME IInv, ParseInv, ReadPayload
    PROVE  ParseInv'
  <1>1. /\ pc = "payload" /\ content' = content /\ trailer' = trailer /\ op' = op
        /\ pc \in Reading
    BY DEF ReadPayload, written, Reading
  <1>2. PICK r \in ReadChunk(file, content, item.size.value) :
           /\ file' = r.file
           /\ item' = [item EXCEPT !.body = r.bytes]
           /\ IF Len(r.bytes) < item.size.value THEN Refuse(r.file) /\ listed' = listed
              ELSE listed' = Append(listed, item') /\ pc' = "item"
    BY DEF ReadPayload, Goto, Show
  <1>3. /\ content \in Seq(Byte) /\ Known(file, content)
        /\ item \in EntryType /\ op \in OpType /\ item.size.value \in Nat
    <2>1. item \in EntryType /\ WordSize \in Nat
      BY <1>1, Before, ByteType
    <2>2. item.size \in Numbers
      BY <2>1 DEF EntryType
    <2> QED
      BY <1>1, <2>1, <2>2, Before DEF Numbers
  <1> DEFINE b == r.bytes
  <1>4. /\ Known(file', content) /\ b \in Seq(Byte) /\ Len(b) \in Nat /\ Len(b) <= item.size.value
        /\ Upto(file', content) = Upto(file, content) \o b
    BY <1>2, <1>3, Chunkwise
  <1>5. item.type = Added /\ item.body = <<>>
    BY <1>1 DEF ParseInv, EntryInv, Placed
  <1>6. item' = [item EXCEPT !.body = b]
    BY <1>2
  <1>7. /\ Len(b) < item.size.value => pc' = "done" /\ status' # 0 /\ listed' = listed
        /\ ~(Len(b) < item.size.value) => listed' = Append(listed, item') /\ pc' = "item"
    BY <1>2, RefuseFails
  <1> HIDE DEF b
  <1>8. /\ item' \in EntryType /\ item'.type = Added /\ item'.body = b /\ item'.size = item.size
        /\ Layout(item') = Layout(item) \o b
    BY <1>3, <1>4, <1>5, <1>6, PayloadText
  <1>9. Spelled(pc, item, op) = Layout(item)
    BY <1>1 DEF Spelled
  <1>10. CASE Len(b) < item.size.value
    BY <1>1, <1>3, <1>4, <1>7, <1>8, <1>10, Stops DEF Reading
  <1>11. CASE ~(Len(b) < item.size.value)
    <2>1. Len(b) = item.size.value
      BY <1>3, <1>4, <1>11
    <2>2. item' \in Complete
      BY <1>8, <2>1 DEF Complete
    <2> QED
      BY <1>1, <1>3, <1>4, <1>7, <1>8, <1>9, <1>11, <2>2, Shows
  <1> QED
    BY <1>10, <1>11

(* A peek decides whether the run of opcodes goes on.                      *)
LEMMA ParseOpcodes ==
    ASSUME IInv, ParseInv, AtOpcode
    PROVE  ParseInv'
  <1>1. /\ pc = "opcodes" /\ content' = content /\ trailer' = trailer /\ op' = op /\ item' = item
        /\ pc \in Reading
    BY DEF AtOpcode, written, Reading
  <1>2. PICK r \in PeekByte(file, content) :
           /\ file' = r.file
           /\ \/ pc' = "opcode" /\ listed' = listed
              \/ Refuse(r.file) /\ listed' = listed
              \/ listed' = Append(listed, item) /\ pc' = "item"
    BY DEF AtOpcode, Goto, Show
  <1>3. /\ content \in Seq(Byte) /\ Known(file, content)
        /\ item \in EntryType /\ op \in OpType
    BY <1>1, Before
  <1>4. /\ Known(file', content) /\ Upto(file', content) = Upto(file, content) \o <<>>
        /\ <<>> \in Seq(Byte)
    <2>1. Known(r.file, content) /\ Upto(r.file, content) = Upto(file, content)
      BY <1>2, <1>3, Peeks
    <2>2. Upto(file, content) \in Seq(Byte)
      BY <1>3, PositionType DEF Known
    <2> QED
      BY <1>2, <2>1, <2>2, Empties
  <1>5. item.type = Modified
    BY <1>1 DEF ParseInv, EntryInv, Placed
  <1>6. Spelled(pc, item, op) = Layout(item) /\ Layout(item) = Layout(item) \o <<>>
    BY <1>1, <1>3, EntryLayout, Empties DEF Spelled
  <1>7. CASE pc' = "opcode" /\ listed' = listed
    <2>1. pc' \in Reading /\ Placed(pc', item', op') /\ pc' # "trailer"
      BY <1>1, <1>5, <1>7 DEF Reading, Placed
    <2>2. Spelled(pc', item', op') = Spelled(pc, item, op) \o <<>>
      BY <1>1, <1>6, <1>7 DEF Spelled
    <2> QED
      BY <1>1, <1>3, <1>4, <1>7, <2>1, <2>2, Onward
  <1>8. CASE Refuse(r.file) /\ listed' = listed
    BY <1>1, <1>3, <1>4, <1>8, RefuseFails, Stops DEF Reading
  <1>9. CASE listed' = Append(listed, item) /\ pc' = "item"
    <2>1. item' \in Complete
      BY <1>1, <1>3, <1>5 DEF Complete, Modified, Added
    <2> QED
      BY <1>1, <1>4, <1>6, <1>9, <2>1, Shows
  <1> QED
    BY <1>2, <1>7, <1>8, <1>9

(* The tag of an opcode.                                                   *)
LEMMA ParseOpcode ==
    ASSUME IInv, ParseInv, ReadOpcode
    PROVE  ParseInv'
  <1>1. /\ pc = "opcode" /\ content' = content /\ trailer' = trailer /\ listed' = listed
        /\ item' = item /\ pc \in Reading /\ pc' = "pos"
    BY DEF ReadOpcode, written, shown, Reading, Goto
  <1>2. PICK r \in ReadByte(file, content), name \in DOMAIN OpTag :
           file' = r.file /\ OpTag[name] = r.byte /\ op' = Opcode(name, 0, <<>>, 0)
    BY DEF ReadOpcode
  <1>3. /\ content \in Seq(Byte) /\ Known(file, content)
        /\ item \in EntryType /\ op \in OpType
    BY <1>1, Before
  <1>4. OpTag[name] \in Byte /\ OpTag[name] # EndOfFile
    BY LayoutAssumption, ByteType DEF OpTags
  <1> DEFINE t == OpTag[name]
  <1>5. Known(file', content) /\ Upto(file', content) = Upto(file, content) \o <<t>>
    BY <1>2, <1>3, <1>4, Bytewise
  <1>6. op' \in OpType /\ op'.op = name
    <2>1. <<>> \in Seq(Byte) /\ Len(<<>>) = 0 /\ 0 \in Byte
      <3>1. Group \in Nat /\ Group > 1
        BY ByteType
      <3> QED
        BY <3>1, EmptySeq DEF Byte
    <2> QED
      BY <1>2, <2>1 DEF OpType, Opcode
  <1>7. item.type = Modified
    BY <1>1 DEF ParseInv, EntryInv, Placed
  <1>8. Placed(pc', item', op') /\ pc' \in Reading /\ pc' # "trailer"
    BY <1>1, <1>7 DEF Placed, Reading
  <1>9. Spelled(pc', item', op') = Spelled(pc, item, op) \o <<t>>
    BY <1>1, <1>6 DEF Spelled
  <1>10. <<t>> \in Seq(Byte)
    BY <1>4
  <1> HIDE DEF t
  <1> QED
    BY <1>1, <1>3, <1>5, <1>6, <1>8, <1>9, <1>10, Onward

(* Its position, read back into the same bytes.                            *)
LEMMA ParsePos ==
    ASSUME IInv, ParseInv, ReadPos
    PROVE  ParseInv'
  <1>1. /\ pc = "pos" /\ content' = content /\ trailer' = trailer /\ listed' = listed
        /\ item' = item /\ pc \in Reading
    BY DEF ReadPos, written, shown, Reading
  <1>2. PICK r \in ReadChunk(file, content, FixedBytes) :
           /\ file' = r.file
           /\ IF Len(r.bytes) < FixedBytes THEN Refuse(r.file) /\ op' = op
              ELSE /\ op' = [op EXCEPT !.pos = LoadFixed(r.bytes)]
                   /\ pc' = IF op.op = "X" THEN "length" ELSE "inline"
    BY DEF ReadPos, Goto
  <1>3. /\ content \in Seq(Byte) /\ Known(file, content)
        /\ item \in EntryType /\ op \in OpType /\ FixedBytes \in Nat
    BY <1>1, Before, LayoutAssumption
  <1> DEFINE b == r.bytes
  <1>4. /\ Known(file', content) /\ b \in Seq(Byte) /\ Len(b) \in Nat /\ Len(b) <= FixedBytes
        /\ Upto(file', content) = Upto(file, content) \o b
    BY <1>2, <1>3, Chunkwise
  <1>5. CASE Len(b) < FixedBytes
    BY <1>1, <1>2, <1>3, <1>4, <1>5, RefuseFails, Stops DEF Reading
  <1>6. CASE ~(Len(b) < FixedBytes)
    <2> DEFINE v == LoadFixed(b)
    <2>1. /\ op' = [op EXCEPT !.pos = v] /\ pc' = IF op.op = "X" THEN "length" ELSE "inline"
          /\ Len(b) = FixedBytes
      BY <1>2, <1>3, <1>4, <1>6
    <2>2. v \in Nat /\ Fixed(v) = b
      BY <1>4, <2>1, FixedLoad
    <2> HIDE DEF b, v
    <2>3. op' \in OpType /\ op'.op = op.op /\ op'.pos = v
      BY <1>3, <2>1, <2>2 DEF OpType
    <2>4. item.type = Modified
      BY <1>1 DEF ParseInv, EntryInv, Placed
    <2>5. Placed(pc', item', op') /\ pc' \in Reading /\ pc' # "trailer"
      BY <1>1, <2>1, <2>3, <2>4 DEF Placed, Reading
    <2>6. Spelled(pc', item', op') = Spelled(pc, item, op) \o b
      <3> DEFINE l == Layout(item)
                 t == <<OpTag[op.op]>>
      <3>1. l \in Seq(Byte) /\ t \in Seq(Byte)
        BY <1>3, EntryLayout, SpelledType
      <3>2. Spelled(pc', item', op') = l \o (t \o b) /\ Spelled(pc, item, op) = l \o t
        BY <1>1, <2>1, <2>2, <2>3 DEF Spelled
      <3> HIDE DEF l, t
      <3>3. (l \o t) \o b = l \o (t \o b)
        BY SMTT(60), <1>4, <3>1, ConcatAssociative
      <3> QED
        BY <3>2, <3>3
    <2> QED
      BY <1>1, <1>3, <1>4, <2>3, <2>5, <2>6, Onward
  <1> QED
    BY <1>5, <1>6

(* An opcode that is complete: what was still to come of it is `rest`.     *)
LEMMA ParseTally ==
    ASSUME IInv, ParseInv, pc \in {"length", "inline"}, content' = content, trailer' = trailer,
           listed' = listed, op' = op, Known(file', content),
           NEW o \in OpType, o.op = op.op, o.pos = op.pos, Tally(o),
           NEW rest \in Seq(Byte), OpcodeBytes(o) = <<OpTag[o.op]>> \o Fixed(o.pos) \o rest,
           Upto(file', content) = Upto(file, content) \o rest
    PROVE  ParseInv'
  <1>1. /\ item' = [item EXCEPT !.body = Append(@, o),
                                !.diff = @ + 1 + FixedBytes
                                         + (IF o.op = "X" THEN FixedBytes ELSE 1 + Len(o.bytes))]
        /\ pc' = "opcodes"
    BY DEF Tally, Goto
  <1>2. pc \in Reading
    BY DEF Reading
  <1>3. content \in Seq(Byte) /\ item \in EntryType /\ op \in OpType
    BY <1>2, Before
  <1>4. item.type = Modified
    BY DEF ParseInv, EntryInv, Placed
  <1>5. /\ item' \in EntryType /\ item'.type = Modified
        /\ Layout(item') = Layout(item) \o OpcodeBytes(o)
    BY <1>1, <1>3, <1>4, OpcodeText
  <1>6. Placed(pc', item', op') /\ pc' \in Reading /\ pc' # "trailer"
    BY <1>1, <1>5 DEF Placed, Reading
  <1>7. Spelled(pc', item', op') = Spelled(pc, item, op) \o rest
    <2> DEFINE l == Layout(item)
               h == <<OpTag[o.op]>> \o Fixed(o.pos)
    <2>1. l \in Seq(Byte) /\ h \in Seq(Byte)
      <3>1. OpTag[o.op] \in Byte /\ o.pos \in Nat
        BY LayoutAssumption DEF OpType, OpTags
      <3>2. <<OpTag[o.op]>> \in Seq(Byte)
        BY <3>1
      <3> QED
        BY <1>3, <3>1, <3>2, EntryLayout, FixedIsBytes, ConcatProperties
    <2>2. Spelled(pc, item, op) = l \o h
      BY DEF Spelled
    <2>3. Spelled(pc', item', op') = l \o (h \o rest)
      BY <1>1, <1>5 DEF Spelled
    <2> HIDE DEF l, h
    <2>4. (l \o h) \o rest = l \o (h \o rest)
      BY SMTT(60), <2>1, ConcatAssociative
    <2> QED
      BY <2>2, <2>3, <2>4
  <1> QED
    BY <1>2, <1>3, <1>5, <1>6, <1>7, Onward

(* The number of bytes it deletes.                                         *)
LEMMA ParseLength ==
    ASSUME IInv, ParseInv, ReadLength
    PROVE  ParseInv'
  <1>1. /\ pc = "length" /\ content' = content /\ trailer' = trailer /\ listed' = listed
        /\ op' = op /\ pc \in Reading
    BY DEF ReadLength, written, shown, Reading
  <1>2. PICK r \in ReadChunk(file, content, FixedBytes) :
           /\ file' = r.file
           /\ IF Len(r.bytes) < FixedBytes THEN Refuse(r.file) /\ item' = item
              ELSE Tally([op EXCEPT !.del = LoadFixed(r.bytes)])
    BY DEF ReadLength
  <1>3. /\ content \in Seq(Byte) /\ Known(file, content)
        /\ item \in EntryType /\ op \in OpType /\ FixedBytes \in Nat
    BY <1>1, Before, LayoutAssumption
  <1> DEFINE b == r.bytes
  <1>4. /\ Known(file', content) /\ b \in Seq(Byte) /\ Len(b) \in Nat /\ Len(b) <= FixedBytes
        /\ Upto(file', content) = Upto(file, content) \o b
    BY <1>2, <1>3, Chunkwise
  <1>5. CASE Len(b) < FixedBytes
    BY <1>1, <1>2, <1>3, <1>4, <1>5, RefuseFails, Stops DEF Reading
  <1>6. CASE ~(Len(b) < FixedBytes)
    <2> DEFINE v == LoadFixed(b)
               o == [op EXCEPT !.del = v]
    <2>1. Tally(o) /\ Len(b) = FixedBytes
      BY <1>2, <1>3, <1>4, <1>6
    <2>2. v \in Nat /\ Fixed(v) = b
      BY <1>4, <2>1, FixedLoad
    <2> HIDE DEF b, v
    <2>3. o \in OpType /\ o.op = op.op /\ o.pos = op.pos /\ o.del = v
      BY <1>3, <2>2 DEF OpType
    <2>4. op.op = "X"
      BY <1>1 DEF ParseInv, EntryInv, Placed
    <2> HIDE DEF o
    <2>5. OpcodeBytes(o) = <<OpTag[o.op]>> \o Fixed(o.pos) \o b
      BY <2>2, <2>3, <2>4 DEF OpcodeBytes
    <2> QED
      BY <1>1, <1>4, <2>1, <2>3, <2>5, ParseTally
  <1> QED
    BY <1>5, <1>6

(* The bytes it carries, and before them how many.                         *)
LEMMA ParseInline ==
    ASSUME IInv, ParseInv, ReadInline
    PROVE  ParseInv'
  <1>1. /\ pc = "inline" /\ content' = content /\ trailer' = trailer /\ listed' = listed
        /\ op' = op /\ pc \in Reading
    BY DEF ReadInline, written, shown, Reading
  <1>2. PICK c \in ReadByte(file, content) :
           IF c.byte = EndOfFile
           THEN file' = c.file /\ Refuse(c.file) /\ item' = item
           ELSE \E r \in ReadChunk(c.file, content, c.byte) :
                   /\ file' = r.file
                   /\ IF Len(r.bytes) < c.byte THEN Refuse(r.file) /\ item' = item
                      ELSE Tally([op EXCEPT !.bytes = r.bytes])
    BY DEF ReadInline
  <1>3. /\ content \in Seq(Byte) /\ Known(file, content)
        /\ item \in EntryType /\ op \in OpType
    BY <1>1, Before
  <1>4. /\ Known(c.file, content)
        /\ \/ c.byte = EndOfFile
           \/ c.byte \in Byte /\ Upto(c.file, content) = Upto(file, content) \o <<c.byte>>
    BY <1>2, <1>3, Bytewise
  <1>5. CASE c.byte = EndOfFile
    BY <1>1, <1>2, <1>3, <1>4, <1>5, RefuseFails, Stops DEF Reading
  <1>6. CASE c.byte # EndOfFile
    <2> DEFINE n == c.byte
    <2>1. n \in Byte /\ n \in Nat /\ Upto(c.file, content) = Upto(file, content) \o <<n>>
      BY <1>4, <1>6, ByteType
    <2>2. PICK r \in ReadChunk(c.file, content, n) :
             /\ file' = r.file
             /\ IF Len(r.bytes) < n THEN Refuse(r.file) /\ item' = item
                ELSE Tally([op EXCEPT !.bytes = r.bytes])
      BY <1>2, <1>6
    <2> DEFINE b == r.bytes
    <2>3. /\ Known(file', content) /\ b \in Seq(Byte) /\ Len(b) \in Nat /\ Len(b) <= n
          /\ Upto(file', content) = Upto(c.file, content) \o b
      BY <1>3, <1>4, <2>1, <2>2, Chunkwise
    <2>4. CASE Len(b) < n
      BY <1>1, <1>3, <2>2, <2>3, <2>4, RefuseFails, Stops DEF Reading
    <2>5. CASE ~(Len(b) < n)
      <3> DEFINE o == [op EXCEPT !.bytes = b]
                 rest == <<n>> \o b
      <3>1. Tally(o)
        BY <2>2, <2>5
      <3> HIDE DEF b, n
      <3>2. Len(b) = n
        BY <2>1, <2>3, <2>5
      <3>3. o \in OpType /\ o.op = op.op /\ o.pos = op.pos /\ o.bytes = b
        BY <1>3, <2>1, <2>3, <3>2 DEF OpType
      <3>4. op.op # "X"
        BY <1>1 DEF ParseInv, EntryInv, Placed
      <3> HIDE DEF o
      <3>5. OpcodeBytes(o) = <<OpTag[o.op]>> \o Fixed(o.pos) \o rest
        BY <3>2, <3>3, <3>4 DEF OpcodeBytes
      <3>6. rest \in Seq(Byte) /\ Upto(file', content) = Upto(file, content) \o rest
        <4> DEFINE u == Upto(file, content)
                   m == <<n>>
        <4>1. u \in Seq(Byte) /\ m \in Seq(Byte)
          BY <1>3, <2>1, PositionType DEF Known
        <4>2. Upto(file', content) = (u \o m) \o b
          BY <2>1, <2>3
        <4> HIDE DEF u, m
        <4>3. (u \o m) \o b = u \o (m \o b) /\ m \o b \in Seq(Byte)
          BY SMTT(60), <2>3, <4>1, ConcatAssociative, ConcatProperties
        <4> QED
          BY <4>2, <4>3 DEF u, m
      <3> HIDE DEF rest
      <3> QED
        BY <1>1, <2>3, <3>1, <3>3, <3>5, <3>6, ParseTally
    <2> QED
      BY <2>4, <2>5
  <1> QED
    BY <1>5, <1>6

(* The tag that was peeked at, the digest, and then the end of the file:   *)
(* what was read is all there is.                                          *)
LEMMA ParseTrailer ==
    ASSUME IInv, ParseInv, ReadTrailer
    PROVE  ParseInv'
  <1>1. /\ pc = "trailer" /\ content' = content /\ listed' = listed
        /\ op' = op /\ item' = item /\ pc \in Reading
    BY DEF ReadTrailer, written, Reading
  <1>2. PICK t \in ReadByte(file, content) : \E r \in ReadChunk(t.file, content, TrailerBytes) :
          IF Len(r.bytes) < TrailerBytes
          THEN file' = r.file /\ Refuse(r.file) /\ trailer' = trailer
          ELSE \E p \in PeekByte(r.file, content) :
                  /\ file' = p.file
                  /\ IF p.byte # EndOfFile \/ p.file.error
                     THEN Refuse(p.file) /\ trailer' = trailer
                     ELSE trailer' = r.bytes /\ pc' = "finish"
    BY DEF ReadTrailer, Goto
  <1>3. PICK r \in ReadChunk(t.file, content, TrailerBytes) :
          IF Len(r.bytes) < TrailerBytes
          THEN file' = r.file /\ Refuse(r.file) /\ trailer' = trailer
          ELSE \E p \in PeekByte(r.file, content) :
                  /\ file' = p.file
                  /\ IF p.byte # EndOfFile \/ p.file.error
                     THEN Refuse(p.file) /\ trailer' = trailer
                     ELSE trailer' = r.bytes /\ pc' = "finish"
    BY <1>2
  <1>4. /\ content \in Seq(Byte) /\ Known(file, content) /\ listed \in Seq(Complete)
        /\ item \in EntryType /\ op \in OpType /\ Text(listed) \in Seq(Byte)
        /\ TrailerBytes \in Nat /\ TrailerTag \in Byte
    BY <1>1, Before, LayoutAssumption
  <1>5. t.byte = TrailerTag
    BY <1>1, <1>2, <1>4, Bytewise DEF ParseInv, ReadInv
  <1>6. Known(t.file, content) /\ Upto(t.file, content) = Upto(file, content) \o <<TrailerTag>>
    <2>1. TrailerTag # EndOfFile
      BY <1>4, ByteType
    <2> QED
      BY <1>2, <1>4, <1>5, <2>1, Bytewise
  <1>7. /\ Known(r.file, content) /\ r.bytes \in Seq(Byte)
        /\ Upto(r.file, content) = Upto(t.file, content) \o r.bytes
    BY <1>3, <1>4, <1>6, Chunkwise
  <1>8. CASE Len(r.bytes) < TrailerBytes
    BY <1>1, <1>3, <1>4, <1>7, <1>8, RefuseFails, Stops DEF Reading
  <1>9. CASE ~(Len(r.bytes) < TrailerBytes)
    <2>1. PICK p \in PeekByte(r.file, content) :
                  /\ file' = p.file
                  /\ IF p.byte # EndOfFile \/ p.file.error
                     THEN Refuse(p.file) /\ trailer' = trailer
                     ELSE trailer' = r.bytes /\ pc' = "finish"
      BY <1>3, <1>9
    <2>2. /\ Known(p.file, content) /\ Upto(p.file, content) = Upto(r.file, content)
          /\ p.byte = EndOfFile /\ ~p.file.error => Upto(p.file, content) = content
      BY <1>4, <1>7, <2>1, Peeks, ByteType
    <2>3. CASE p.byte # EndOfFile \/ p.file.error
      BY <1>1, <1>4, <2>1, <2>2, <2>3, RefuseFails, Stops DEF Reading
    <2>4. CASE ~(p.byte # EndOfFile \/ p.file.error)
      <3> DEFINE u == Text(listed)
                 m == <<TrailerTag>>
                 d == r.bytes
      <3>1. trailer' = d /\ pc' = "finish" /\ file' = p.file
        BY <2>1, <2>4
      <3>2. Upto(file, content) = u
        <4>1. Spelled(pc, item, op) = <<>>
          BY <1>1 DEF Spelled
        <4>2. Upto(file, content) = u \o <<>>
          BY <1>1, <4>1 DEF ParseInv, ReadInv
        <4> QED
          BY <1>4, <4>2, Empties
      <3>3. content = (u \o m) \o d /\ m \in Seq(Byte)
        <4>1. content = Upto(r.file, content)
          BY <2>2, <2>4
        <4>2. Upto(r.file, content) = Upto(t.file, content) \o d
          BY <1>7
        <4>3. Upto(t.file, content) = u \o m
          BY <1>6, <3>2
        <4>4. m \in Seq(Byte)
          BY <1>4
        <4> HIDE DEF u, m, d
        <4> QED
          BY <4>1, <4>2, <4>3, <4>4
      <3>4. content = u \o (m \o d)
        <4>1. u \in Seq(Byte) /\ d \in Seq(Byte)
          BY <1>4, <1>7
        <4> HIDE DEF u, m, d
        <4>2. (u \o m) \o d = u \o (m \o d)
          BY <3>3, <4>1, ConcatAssociative
        <4> QED
          BY <3>3, <4>2
      <3>5. content' = Text(listed)' \o TrailerRecord(trailer')
        BY <1>1, <3>1, <3>4 DEF TrailerRecord, Text
      <3>6. EntryInv'
        BY <1>1, <1>4, <3>1 DEF EntryInv, Placed
      <3>7. ReadInv'
        BY <1>1, <2>2, <3>1 DEF ReadInv, Reading, Known
      <3>8. EndInv'
        BY <3>1, <3>5 DEF EndInv
      <3> QED
        BY <3>6, <3>7, <3>8 DEF ParseInv
    <2> QED
      BY <2>3, <2>4
  <1> QED
    BY <1>8, <1>9

(* Nothing is read any more.                                               *)
LEMMA ParseFinish ==
    ASSUME IInv, ParseInv, Finish
    PROVE  ParseInv'
  <1>1. /\ pc = "finish" /\ content' = content /\ trailer' = trailer /\ listed' = listed
        /\ item' = item /\ op' = op /\ file' = file /\ pc' = "done"
        /\ status' = 0 => trailer # <<>>
    BY DEF Finish, written, shown, Refuse
  <1>2. EntryInv'
    BY <1>1 DEF ParseInv, EntryInv, Placed
  <1>3. ReadInv'
    BY <1>1 DEF ParseInv, ReadInv, Reading
  <1>4. EndInv'
    BY <1>1 DEF ParseInv, EndInv, Text
  <1> QED
    BY <1>2, <1>3, <1>4 DEF ParseInv

(* Nothing is read before the delta is complete.                           *)
LEMMA ParseWrites ==
    ASSUME IInv, ParseInv, WriteEntry \/ WriteTrailer \/ Damage
    PROVE  ParseInv'
  <1>1. /\ pc \in {"write", "stored"} /\ pc' \in {"write", "stored"}
        /\ trailer' = trailer /\ listed' = listed
        /\ item' = item /\ op' = op /\ file' = file
    BY DEF WriteEntry, WriteTrailer, Damage, shown
  <1>2. file' = Opened(<<>>)
    BY <1>1 DEF IInv, FileInv
  <1>3. EntryInv'
    BY <1>1 DEF ParseInv, EntryInv, Placed
  <1>4. ReadInv'
    BY <1>1, <1>2 DEF ReadInv, Reading, Opened
  <1>5. EndInv'
    BY <1>1 DEF ParseInv, EndInv
  <1> QED
    BY <1>3, <1>4, <1>5 DEF ParseInv

(* Every step keeps what has been read in line with what is shown.         *)
LEMMA ParseStep ==
    ASSUME IInv, ParseInv, [Next]_vars
    PROVE  ParseInv'
  <1>1. CASE UNCHANGED vars
    <2>1. /\ content' = content /\ pc' = pc /\ file' = file /\ item' = item /\ op' = op
          /\ listed' = listed /\ trailer' = trailer /\ status' = status
      BY <1>1 DEF vars, written, shown
    <2>2. EntryInv'
      BY <2>1 DEF ParseInv, EntryInv
    <2>3. ReadInv'
      BY <2>1 DEF ParseInv, ReadInv, Upto, Position, Text
    <2>4. EndInv'
      BY <2>1 DEF ParseInv, EndInv, Text
    <2> QED
      BY <2>2, <2>3, <2>4 DEF ParseInv
  <1>2. CASE View
    BY <1>2, ParseOpen, ParseHeader, ParseItem, ParseTag, ParseDigest, ParsePayload, ParseOpcodes,
       ParseOpcode, ParsePos, ParseLength, ParseInline, ParseTrailer, ParseFinish, ParseNumber
       DEF View
  <1> QED
    BY <1>1, <1>2, ParseWrites DEF Next, Done

(* Nothing has been read, nothing is shown.                                *)
LEMMA ParseStarts == Init => ParseInv
  <1> SUFFICES ASSUME Init PROVE ParseInv
    OBVIOUS
  <1>1. /\ pc = "write" /\ file = Opened(<<>>) /\ listed = <<>> /\ trailer = <<>> /\ status = -1
        /\ item = NewEntry(Original) /\ op = Opcode("D", 0, <<>>, 0)
    BY DEF Init
  <1>2. /\ <<>> \in Seq(Byte) /\ <<>> \in Seq(Complete) /\ Len(<<>>) = 0 /\ 0 \in Byte
    <2>1. Group \in Nat /\ Group > 1
      BY ByteType
    <2> QED
      BY <2>1, EmptySeq DEF Byte
  <1>3. op \in OpType
    BY <1>1, <1>2, LayoutAssumption DEF OpType, Opcode
  <1>4. item \in EntryType
    <2>1. Original \in 0 .. TypeLimit - 1
      BY DEF Original, TypeLimit
    <2> QED
      BY <1>1, <1>3, <2>1, BeginText
  <1>5. EntryInv
    BY <1>1, <1>2, <1>3, <1>4 DEF EntryInv, Placed
  <1>6. ReadInv
    BY <1>1 DEF ReadInv, Reading, Opened
  <1>7. EndInv
    BY <1>1 DEF EndInv
  <1> QED
    BY <1>5, <1>6, <1>7 DEF ParseInv

(* At every moment, what view has read of the delta is the header, the     *)
(* entries it has listed and the fields of the one under way, byte by      *)
(* byte.                                                                   *)
THEOREM Parsed == Spec => []ParseInv
  <1>1. IInv /\ ParseInv /\ [Next]_vars => ParseInv'
    BY ParseStep
  <1> QED
    BY <1>1, ParseStarts, Inductive, PTL DEF Spec

(* However damaged, a delta that view accepts (DeltaViewer.cpp:121-218) is *)
(* the header, the entries it lists and the trailer it shows, byte by      *)
(* byte, for every width of a word, every length of the buffer, of the     *)
(* reads and of the delta, and wherever a read fails.                      *)
THEOREM AcceptedLaidOut == Spec => []AcceptedIsLayout
  <1>1. ParseInv => AcceptedIsLayout
    <2> SUFFICES ASSUME ParseInv, Accepted PROVE AcceptedIsLayout
      BY DEF AcceptedIsLayout
    <2>1. content = LaidOut \o TrailerRecord(trailer)
      BY DEF ParseInv, EndInv, Accepted, LaidOut, Text
    <2>2. ASSUME NEW k \in DOMAIN listed
          PROVE  CASE listed[k].type = Original -> TRUE
                   [] listed[k].type = Added    -> Len(listed[k].body) = listed[k].size.value
                   [] listed[k].type = Modified -> Len(BodyBytes(listed[k])) = listed[k].diff
      <3> DEFINE e == listed[k]
      <3>1. e \in Complete
        BY LenProperties, ElementOfSeq DEF ParseInv, EntryInv
      <3> HIDE DEF e
      <3>2. /\ e.type \in {Original, Added, Modified}
            /\ e.type = Added => Len(e.body) = e.size.value
            /\ e.type = Modified => Len(BodyBytes(e)) = e.diff
        BY <3>1 DEF Complete, EntryType, TypeLimit, Original, Added, Modified
      <3>3. (CASE e.type = Original -> TRUE
               [] e.type = Added    -> Len(e.body) = e.size.value
               [] e.type = Modified -> Len(BodyBytes(e)) = e.diff)
        BY <3>2 DEF Original, Added, Modified
      <3> QED
        BY <3>3 DEF e
    <2> QED
      BY <2>1, <2>2 DEF AcceptedIsLayout
  <1> QED
    BY <1>1, Parsed, PTL

-----------------------------------------------------------------------------
(* The length of what is written.                                          *)

(* The length of the shortest record that a chunk may have, and that of a  *)
(* delta that has these.                                                   *)
LeastLength(c, position) ==
    IF c.reuse THEN Len(RecordBytes(ReusedEntry(c)))
    ELSE Min({Len(RecordBytes(AddedEntry(c)))}
             \cup IF c.ops = <<>> THEN {} ELSE {Len(RecordBytes(DiffEntry(c, position)))})

LeastLengths(cs) == [k \in DOMAIN cs |-> LeastLength(cs[k], k - 1)]

LeastTotal(cs) == Total(Len(HeaderBytes), LeastLengths(cs))

(* The record that is chosen is a shortest one.                            *)
LEMMA LeastChosen ==
    ASSUME NEW c \in Chunks, NEW k \in Nat
    PROVE  /\ RecordBytes(EntryFor(c, k)) \in Seq(Byte)
           /\ Len(RecordBytes(EntryFor(c, k))) = LeastLength(c, k)
           /\ LeastLength(c, k) \in Nat
  <1> DEFINE r == RecordBytes(ReusedEntry(c))
             a == RecordBytes(AddedEntry(c))
             d == RecordBytes(DiffEntry(c, k))
  <1>1. /\ r \in Seq(Byte) /\ a \in Seq(Byte) /\ d \in Seq(Byte)
        /\ Len(r) \in Nat /\ Len(a) \in Nat /\ Len(d) \in Nat
    BY ChunkRecords, LenProperties
  <1>2. Pays(c, k) <=> c.ops # <<>> /\ Len(d) < Len(a)
    BY ChunkRecords, Zenon DEF Pays
  <1>3. RecordBytes(EntryFor(c, k)) = IF c.reuse THEN r ELSE IF Pays(c, k) THEN d ELSE a
    BY DEF EntryFor
  <1>4. LeastLength(c, k) = IF c.reuse THEN Len(r)
                            ELSE Min({Len(a)} \cup IF c.ops = <<>> THEN {} ELSE {Len(d)})
    BY DEF LeastLength
  <1> HIDE DEF r, a, d
  <1>5. CASE c.reuse
    BY <1>1, <1>3, <1>4, <1>5
  <1>6. CASE ~c.reuse /\ c.ops = <<>>
    <2>1. {Len(a)} \cup {} = {Len(a), Len(a)}
      OBVIOUS
    <2>2. Min({Len(a), Len(a)}) = Len(a)
      BY SMTT(60), <1>1, MinOfTwo
    <2>3. LeastLength(c, k) = Len(a)
      BY <1>4, <1>6, <2>1, <2>2
    <2> QED
      BY <1>1, <1>2, <1>3, <1>6, <2>3
  <1>7. CASE ~c.reuse /\ c.ops # <<>>
    <2>1. {Len(a)} \cup {Len(d)} = {Len(a), Len(d)}
      OBVIOUS
    <2>2. Min({Len(a), Len(d)}) = IF Len(a) <= Len(d) THEN Len(a) ELSE Len(d)
      BY SMTT(60), <1>1, MinOfTwo
    <2>3. LeastLength(c, k) = IF Len(a) <= Len(d) THEN Len(a) ELSE Len(d)
      BY <1>4, <1>7, <2>1, <2>2
    <2>4. RecordBytes(EntryFor(c, k)) = IF Len(d) < Len(a) THEN d ELSE a
      BY <1>2, <1>3, <1>7
    <2> QED
      BY <1>1, <2>3, <2>4
  <1> QED
    BY <1>5, <1>6, <1>7

(* The summands.                                                           *)
LEMMA LengthsType ==
    ASSUME NEW cs \in Seq(Chunks)
    PROVE  Summands(Len(cs), Len(HeaderBytes), LeastLengths(cs))
  <1>1. Len(cs) \in Nat /\ DOMAIN cs = 1 .. Len(cs) /\ \A k \in 1 .. Len(cs) : cs[k] \in Chunks
    BY LenProperties, ElementOfSeq
  <1>2. Len(HeaderBytes) \in Nat
    BY WrittenIsBytes, LenProperties
  <1>3. ASSUME NEW k \in 1 .. Len(cs) PROVE LeastLength(cs[k], k - 1) \in Nat
    <2>1. k - 1 \in Nat /\ cs[k] \in Chunks
      BY <1>1
    <2> QED
      BY <2>1, LeastChosen
  <1>4. LeastLengths(cs) \in [1 .. Len(cs) -> Nat]
    BY <1>1, <1>3 DEF LeastLengths
  <1> QED
    BY <1>1, <1>2, <1>4 DEF Summands

(* One chunk more adds its shortest record.                                *)
LEMMA LeastNext ==
    ASSUME NEW cs \in Seq(Chunks), NEW c \in Chunks
    PROVE  LeastTotal(Append(cs, c)) = LeastTotal(cs) + LeastLength(c, Len(cs))
  <1> DEFINE n == Len(cs)
             ds == Append(cs, c)
             f == LeastLengths(cs)
             g == LeastLengths(ds)
  <1>1. /\ ds \in Seq(Chunks) /\ Len(ds) = n + 1 /\ n \in Nat
        /\ ds[n + 1] = c /\ \A k \in 1 .. n : ds[k] = cs[k]
        /\ DOMAIN cs = 1 .. n
    BY AppendProperties, LenProperties
  <1>2. DOMAIN ds = 1 .. n + 1
    BY <1>1, LenProperties
  <1> HIDE DEF ds, n
  <1>3. Summands(n, Len(HeaderBytes), f)
    BY LengthsType DEF n
  <1>4. Summands(n + 1, Len(HeaderBytes), g)
    <2>1. Summands(Len(ds), Len(HeaderBytes), g)
      BY <1>1, LengthsType
    <2> QED
      BY <1>1, <2>1
  <1>5. g[n + 1] = LeastLength(c, n)
    <2>1. n + 1 \in 1 .. n + 1 /\ (n + 1) - 1 = n
      BY <1>1
    <2>2. g[n + 1] = LeastLength(ds[n + 1], (n + 1) - 1)
      BY <1>2, <2>1 DEF LeastLengths
    <2> QED
      BY <1>1, <2>1, <2>2
  <1>6. \A k \in 1 .. n : g[k] = f[k]
    <2> TAKE k \in 1 .. n
    <2>1. k \in 1 .. n + 1
      BY <1>1
    <2>2. g[k] = LeastLength(ds[k], k - 1) /\ f[k] = LeastLength(cs[k], k - 1)
      BY <1>1, <1>2, <2>1 DEF LeastLengths
    <2> QED
      BY <1>1, <2>2
  <1> HIDE DEF f, g
  <1>7. Total(Len(HeaderBytes), g) = Total(Len(HeaderBytes), f) + g[n + 1]
    BY <1>3, <1>4, <1>6, SumOneMore
  <1>8. /\ LeastTotal(ds) = Total(Len(HeaderBytes), g)
        /\ LeastTotal(cs) = Total(Len(HeaderBytes), f)
    BY DEF LeastTotal, f, g
  <1>9. LeastTotal(ds) = LeastTotal(cs) + g[n + 1]
    BY <1>7, <1>8, Zenon
  <1>10. LeastTotal(ds) = LeastTotal(cs) + LeastLength(c, n)
    BY <1>5, <1>9, Zenon
  <1> QED
    BY <1>10 DEF ds, n

(* Before the first chunk.                                                 *)
LEMMA LeastNone == LeastTotal(<<>>) = Len(HeaderBytes)
  <1> DEFINE h == Len(HeaderBytes)
             f == LeastLengths(<<>>)
  <1>1. <<>> \in Seq(Chunks) /\ Len(<<>>) = 0
    BY EmptySeq
  <1>2. Summands(0, h, f)
    BY <1>1, LengthsType
  <1>3. PICK acc : SumIs(acc, 0, h, f)
    BY <1>2, SumOfFunction
  <1> HIDE DEF h, f
  <1>4. Total(h, f) = acc[0] /\ acc[0] = h
    BY <1>3 DEF SumIs, Running
  <1> QED
    BY <1>4, Zenon DEF LeastTotal, h, f

(* As long as entries are written, the delta is as long as it has to be.   *)
LengthInv == pc = "write" => Len(content) = LeastTotal(chunks)

(* Once the viewer is at work, nothing more is written.                    *)
LEMMA ViewLeavesWriting ==
    ASSUME View
    PROVE  pc' # "write"
  <1>1. /\ \A to : Goto(to) => pc' = to
        /\ \A f : Refuse(f) => pc' = "done"
        /\ \A e : Show(e) => pc' = "item"
        /\ \A o : Tally(o) => pc' = "opcodes"
    BY Zenon DEF Goto, Refuse, Show, Tally
  <1>2. CASE Open \/ ReadHeader \/ NextItem \/ ReadTag
    BY <1>1, <1>2 DEF Open, ReadHeader, NextItem, ReadTag
  <1>3. CASE ReadDigest \/ ReadPayload \/ AtOpcode
    BY <1>1, <1>3 DEF ReadDigest, ReadPayload, AtOpcode
  <1>4. CASE ReadOpcode \/ ReadPos \/ ReadLength \/ ReadInline
    BY <1>1, <1>4 DEF ReadOpcode, ReadPos, ReadLength, ReadInline
  <1>5. CASE ReadTrailer \/ Finish
    BY <1>1, <1>5 DEF ReadTrailer, Finish
  <1>6. ASSUME NEW field \in {"index", "size"}, ReadNumber(field) PROVE pc' # "write"
    BY <1>1, <1>6 DEF ReadNumber
  <1> QED
    BY <1>2, <1>3, <1>4, <1>5, <1>6 DEF View

(* Every entry adds a shortest record.                                     *)
LEMMA LengthStep ==
    ASSUME IInv, LengthInv, [Next]_vars
    PROVE  LengthInv'
  <1>1. content \in Seq(Byte) /\ chunks \in Seq(Chunks)
    BY DEF IInv, FileInv
  <1>2. CASE WriteEntry
    <2>1. PICK c \in Chunks :
             /\ chunks' = Append(chunks, c)
             /\ content' = content \o RecordBytes(EntryFor(c, Len(chunks)))
      BY <1>2 DEF WriteEntry
    <2>2. Len(chunks) \in Nat
      BY <1>1, LenProperties
    <2> DEFINE t == RecordBytes(EntryFor(c, Len(chunks)))
               l == LeastLength(c, Len(chunks))
    <2>3. t \in Seq(Byte) /\ Len(t) = l /\ l \in Nat
      BY <2>2, LeastChosen
    <2>4. content' = content \o t
      BY <2>1
    <2> HIDE DEF t
    <2>5. Len(content') = Len(content) + l
      BY <1>1, <2>3, <2>4, Joined
    <2>6. LeastTotal(chunks') = LeastTotal(chunks) + l
      BY <1>1, <2>1, LeastNext
    <2>7. Len(content) = LeastTotal(chunks)
      BY <1>2 DEF WriteEntry, LengthInv
    <2>8. Len(content') = LeastTotal(chunks')
      BY <2>5, <2>6, <2>7, Zenon
    <2>9. LeastTotal(chunks)' = LeastTotal(chunks')
      BY DEF LeastTotal, LeastLengths, LeastLength
    <2> QED
      BY <2>8, <2>9, Zenon DEF LengthInv
  <1>3. CASE UNCHANGED vars
    BY <1>3 DEF LengthInv, LeastTotal, LeastLengths, vars, written
  <1>4. CASE ~WriteEntry /\ ~UNCHANGED vars
    <2>1. pc' # "write"
      <3>1. CASE WriteTrailer
        BY <3>1 DEF WriteTrailer
      <3>2. CASE Damage
        BY <3>2 DEF Damage
      <3>3. CASE View
        BY <3>3, ViewLeavesWriting
      <3> QED
        BY <1>4, <3>1, <3>2, <3>3 DEF Next, Done
    <2> QED
      BY <2>1 DEF LengthInv
  <1> QED
    BY <1>2, <1>3, <1>4

(* The record create writes for a chunk (Delta.hpp:273-276) is never       *)
(* longer than the other one it could have: a delta is as short as the     *)
(* choice of its records can make it, for every width of a word, every     *)
(* chunk and every number of them.                                         *)
THEOREM RecordsAreShortest == Spec => []ShorterRecord
  <1>1. Init => LengthInv
    <2> SUFFICES ASSUME Init PROVE LengthInv
      OBVIOUS
    <2>1. content = HeaderBytes /\ chunks = <<>>
      BY DEF Init
    <2>2. Len(content) = LeastTotal(chunks)
      BY <2>1, LeastNone, Zenon
    <2> QED
      BY <2>2 DEF LengthInv
  <1>2. LengthInv => ShorterRecord
    BY Zenon DEF LengthInv, LeastTotal, Total, LeastLengths, LeastLength, ShorterRecord
  <1>3. IInv /\ LengthInv /\ [Next]_vars => LengthInv'
    BY LengthStep
  <1> QED
    BY <1>1, <1>2, <1>3, Inductive, PTL DEF Spec
-----------------------------------------------------------------------------
(* Sequences that begin with others.                                       *)

Begins(s, t) == \E r \in Seq(Byte) : t = s \o r

(* A beginning of a beginning is one.                                      *)
LEMMA BeginsOn ==
    ASSUME NEW s \in Seq(Byte), NEW t, Begins(s, t), NEW w, Begins(t, w)
    PROVE  Begins(s, w)
  <1>1. PICK q \in Seq(Byte) : t = s \o q
    BY DEF Begins
  <1>2. PICK r \in Seq(Byte) : w = t \o r
    BY DEF Begins
  <1>3. (s \o q) \o r = s \o (q \o r) /\ q \o r \in Seq(Byte)
    BY ConcatAssociative, ConcatProperties
  <1> QED
    BY <1>1, <1>2, <1>3 DEF Begins

(* It is the same sequence in the same place.                              *)
LEMMA BeginsAlike ==
    ASSUME NEW s \in Seq(Byte), NEW t, Begins(s, t)
    PROVE  /\ t \in Seq(Byte) /\ Len(s) \in Nat /\ Len(t) \in Nat /\ Len(s) <= Len(t)
           /\ \A k \in 1 .. Len(s) : t[k] = s[k]
           /\ Len(s) = Len(t) => s = t
  <1>1. PICK r \in Seq(Byte) : t = s \o r
    BY DEF Begins
  <1>2. /\ t \in Seq(Byte) /\ Len(t) = Len(s) + Len(r) /\ Len(s) \in Nat /\ Len(r) \in Nat
        /\ \A k \in 1 .. Len(s) + Len(r) : t[k] = IF k <= Len(s) THEN s[k] ELSE r[k - Len(s)]
    BY <1>1, ConcatProperties, LenProperties
  <1>3. \A k \in 1 .. Len(s) : t[k] = s[k]
    BY <1>2
  <1>4. Len(s) = Len(t) => s = t
    BY <1>2, <1>3, SeqEqual
  <1> QED
    BY <1>2, <1>3, <1>4

(* What comes next is determined.                                          *)
LEMMA BeginsNext ==
    ASSUME NEW w, NEW s \in Seq(Byte), NEW b \in Seq(Byte), NEW f \in Seq(Byte),
           Begins(s \o b, w), Begins(s \o f, w), Len(b) = Len(f)
    PROVE  b = f
  <1>1. /\ s \o b \in Seq(Byte) /\ Len(s \o b) = Len(s) + Len(b)
        /\ \A k \in 1 .. Len(s) + Len(b) : (s \o b)[k] = IF k <= Len(s) THEN s[k] ELSE b[k - Len(s)]
    BY ConcatProperties
  <1>2. /\ s \o f \in Seq(Byte) /\ Len(s \o f) = Len(s) + Len(f)
        /\ \A k \in 1 .. Len(s) + Len(f) : (s \o f)[k] = IF k <= Len(s) THEN s[k] ELSE f[k - Len(s)]
    BY ConcatProperties
  <1>3. Len(s) \in Nat /\ Len(b) \in Nat
    BY LenProperties
  <1>4. ASSUME NEW k \in 1 .. Len(b) PROVE b[k] = f[k]
    <2> DEFINE j == Len(s) + k
    <2>1. j \in 1 .. Len(s) + Len(b) /\ ~(j <= Len(s)) /\ j - Len(s) = k
      BY <1>3
    <2> HIDE DEF j
    <2>2. (s \o b)[j] = w[j] /\ (s \o f)[j] = w[j]
      <3>1. j \in 1 .. Len(s \o b) /\ j \in 1 .. Len(s \o f)
        BY <1>1, <1>2, <2>1
      <3> DEFINE x == s \o b
                 y == s \o f
      <3>2. /\ x \in Seq(Byte) /\ Begins(x, w) /\ j \in 1 .. Len(x)
            /\ y \in Seq(Byte) /\ Begins(y, w) /\ j \in 1 .. Len(y)
        BY <1>1, <1>2, <3>1
      <3> HIDE DEF x, y
      <3>3. x[j] = w[j] /\ y[j] = w[j]
        BY <3>2, BeginsAlike
      <3> QED
        BY <3>3 DEF x, y
    <2>3. (s \o b)[j] = b[k] /\ (s \o f)[j] = f[k]
      BY <1>1, <1>2, <2>1
    <2> QED
      BY <2>2, <2>3
  <1> QED
    BY <1>4, SeqEqual

(* A mark ahead of position u in w, where the next bytes are f and then a. *)
ComesNext(w, u, f, a, mark) ==
    /\ u \in Seq(Byte) /\ f \in Seq(Byte) /\ a \in Seq(Byte)
    /\ u \o (f \o a) = mark /\ Begins(mark, w)

(* Reading on from there, b is f, or too short.                            *)
LEMMA ReadsField ==
    ASSUME NEW w, NEW u, NEW f, NEW a, NEW mark, ComesNext(w, u, f, a, mark),
           NEW b \in Seq(Byte), Begins(u \o b, w)
    PROVE  /\ Len(b) = Len(f) => b = f /\ (u \o b) \o a = mark
           /\ Len(b) < Len(f) => u \o b # w
  <1>1. /\ u \in Seq(Byte) /\ f \in Seq(Byte) /\ a \in Seq(Byte)
        /\ u \o (f \o a) = mark /\ Begins(mark, w)
    BY DEF ComesNext
  <1>2. u \o f \in Seq(Byte) /\ u \o b \in Seq(Byte) /\ (u \o f) \o a = u \o (f \o a)
    <2>1. u \in Seq(Byte) /\ f \in Seq(Byte) /\ a \in Seq(Byte)
      BY <1>1
    <2>2. (u \o f) \o a = u \o (f \o a)
      BY SMTT(60), <2>1, ConcatAssociative
    <2> QED
      BY <2>1, <2>2, ConcatProperties
  <1>3. Begins(u \o f, mark)
    BY <1>1, <1>2 DEF Begins
  <1>4. Begins(u \o f, w)
    BY <1>1, <1>2, <1>3, BeginsOn
  <1>5. ASSUME Len(b) = Len(f) PROVE b = f /\ (u \o b) \o a = mark
    <2>1. b = f
      BY <1>1, <1>4, <1>5, BeginsNext
    <2> QED
      BY <1>1, <1>2, <2>1
  <1>6. ASSUME Len(b) < Len(f) PROVE u \o b # w
    <2>1. Len(u \o b) = Len(u) + Len(b) /\ Len(u \o f) = Len(u) + Len(f)
      BY <1>1, ConcatProperties
    <2>2. Len(u \o f) <= Len(w) /\ Len(w) \in Nat
      BY <1>2, <1>4, BeginsAlike
    <2>3. Len(u) \in Nat /\ Len(b) \in Nat /\ Len(f) \in Nat
      BY <1>1, LenProperties
    <2>4. Len(u \o b) # Len(w)
      BY <1>6, <2>1, <2>2, <2>3
    <2> QED
      BY <2>4
  <1> QED
    BY <1>5, <1>6

-----------------------------------------------------------------------------
(* Numbers that are read as they were written.                             *)

(* Division by one number, and then by another.                            *)
LEMMA DivisionTwice ==
    ASSUME NEW v \in Nat, NEW u \in Nat \ {0}, NEW a \in Nat \ {0}
    PROVE  /\ v \div (a * u) = (v \div u) \div a
           /\ v % (a * u) = (v % u) + ((v \div u) % a) * u
           /\ v % (a * u) <= v
  <1> DEFINE q == v \div u
             r == v % u
             p == q \div a
             s == q % a
             t == s * u
             m == a * u
  <1>1. q \in Nat /\ r \in 0 .. u - 1 /\ v = u * q + r
    BY Division
  <1>2. p \in Nat /\ s \in 0 .. a - 1 /\ q = a * p + s
    BY <1>1, Division
  <1> HIDE DEF q, r, p, s
  <1>3. t \in Nat /\ r + t < m
    BY <1>1, <1>2, GroupBelow
  <1>4. m \in Nat \ {0} /\ m * p \in Nat
    <2>1. m \in Nat
      BY <1>1, <1>2, StepNat
    <2> HIDE DEF m, t
    <2>2. m # 0
      BY <1>1, <1>3, <2>1
    <2>3. m * p \in Nat
      BY <1>2, <2>1
    <2> QED
      BY <2>1, <2>2, <2>3
  <1>5. v = m * p + (r + t)
    <2>1. u * (a * p + s) = (a * u) * p + s * u
      BY <1>1, <1>2
    <2> QED
      BY <1>1, <1>2, <2>1
  <1>6. r + t \in 0 .. m - 1
    <2> HIDE DEF t, m
    <2> QED
      BY <1>1, <1>3, <1>4
  <1> HIDE DEF t, m
  <1>7. r + t = v % m /\ p = v \div m
    BY <1>2, <1>4, <1>5, <1>6, RemainderUnique
  <1>8. r + t <= v
    <2> DEFINE z == m * p
    <2>1. z \in Nat /\ v = z + (r + t)
      BY <1>4, <1>5
    <2> HIDE DEF z
    <2> QED
      BY <1>6, <2>1
  <1> QED
    BY <1>7, <1>8 DEF q, r, p, s, t, m

(* load_u32_be() returns the number that push_u32_be() was given           *)
(* (DeltaCodec.hpp:45-62).                                                 *)
LEMMA LoadsFixed ==
    ASSUME NEW v \in Nat, v < ByteWeight[FixedBytes]
    PROVE  LoadFixed(Fixed(v)) = v
  <1> DEFINE n == FixedBytes
             a == 2 * Group
             w == ByteWeight
             bytes == Fixed(v)
  <1>1. n \in Nat \ {0} /\ a \in Nat \ {0} /\ bytes \in Seq(Byte) /\ Len(bytes) = n
    BY BaseType, FixedIsBytes
  <1>2. /\ \A k \in 0 .. n : w[k] \in Nat \ {0}
        /\ w[0] = 1 /\ \A k \in 1 .. n : w[k] = a * w[k - 1]
    BY ByteWeights DEF Powers
  <1>3. PICK acc : Polynomial(acc, a, bytes) /\ LoadFixed(bytes) = acc[Len(bytes)]
    BY <1>1, LoadFold
  <1>4. /\ acc[0] = 0 /\ \A k \in 1 .. n : acc[k] = a * acc[k - 1] + bytes[k]
    BY <1>1, <1>3 DEF Polynomial
  <1>5. \A k \in 1 .. n : bytes[k] = (v \div w[n - k]) % a
    BY DEF Fixed
  <1>6. v < w[n]
    OBVIOUS
  <1> HIDE DEF n, a, w, bytes
  <1> DEFINE S == {j \in 0 .. n : acc[j] = v \div w[n - j]}
  <1>7. 0 \in S
    <2>1. w[n] \in Nat \ {0} /\ v \in 0 .. w[n] - 1 /\ v = w[n] * 0 + v /\ n - 0 = n
      BY <1>1, <1>2, <1>6
    <2>2. v \div w[n] = 0
      BY <2>1, RemainderUnique
    <2>3. 0 \in 0 .. n /\ acc[0] = v \div w[n - 0]
      BY <1>1, <1>4, <2>1, <2>2
    <2> QED
      BY <2>3
  <1>8. ASSUME NEW j \in 1 .. n, j - 1 \in S PROVE j \in S
    <2> DEFINE u == w[n - j]
               q == v \div u
    <2>1. /\ n - j \in 0 .. n /\ n - (j - 1) \in 1 .. n /\ n - (j - 1) - 1 = n - j /\ j \in 0 .. n
      BY <1>1
    <2>2. u \in Nat \ {0} /\ w[n - (j - 1)] = a * u
      BY <1>2, <2>1
    <2>3. acc[j - 1] = v \div (a * u)
      BY <1>8, <2>2
    <2>4. bytes[j] = q % a
      BY <1>5
    <2> HIDE DEF u
    <2>5. acc[j - 1] = q \div a
      BY <1>1, <2>2, <2>3, DivisionTwice
    <2>6. q \in Nat
      BY <2>2, Division
    <2> HIDE DEF q
    <2>7. q = a * (q \div a) + (q % a)
      BY <1>1, <2>6, Division
    <2>8. acc[j] = q
      BY <1>4, <2>4, <2>5, <2>7
    <2> QED
      BY <2>1, <2>8 DEF q, u
  <1> HIDE DEF S
  <1>9. 0 .. n \subseteq S
    BY <1>1, <1>7, <1>8, UpToInduction
  <1>10. acc[n] = v \div 1
    <2>1. n \in S /\ n - n = 0
      BY <1>1, <1>9
    <2> QED
      BY <1>2, <2>1 DEF S
  <1>11. v \div 1 = v
    OBVIOUS
  <1> QED
    BY <1>1, <1>3, <1>10, <1>11 DEF bytes

(* The groups above the first i of a number, and the number those i make.  *)
Above(n, i) == n.value \div Weight[i]
Below(n, i) == [value |-> n.value % Weight[i], i |-> i]

(* A number under way is the lower part of the one that was written.       *)
Lower(x, n) == x = Below(n, x.i) /\ x.i + VarintSize[Above(n, x.i)] = n.i

(* What becomes of it with byte b, where the bytes after that are `rest`.  *)
Continued(x, n, b, rest) ==
    /\ ~Oversized(x, b) /\ ~(More(b) /\ x.i = MaxBytes - 1)
    /\ IF More(b) THEN Lower(AddGroup(x, b), n) /\ rest = Varint[Above(n, x.i + 1)]
       ELSE AddGroup(x, b) = n /\ rest = <<>>

(* No byte of it has been read.                                            *)
LEMMA LowerStarts ==
    ASSUME NEW v \in 0 .. WordSize - 1
    PROVE  /\ Lower(NoBytes, Number(v)) /\ Above(Number(v), 0) = v
           /\ FieldBytes(Number(v)) = Varint[v] /\ Varint[v] \in Seq(Byte)
  <1>1. v \in Nat /\ Weight[0] = 1
    BY WidthAssumption
  <1>2. v \div 1 = v /\ v % 1 = 0
    BY <1>1
  <1>3. Varint[v] \in Seq(Byte) /\ VarintSize[v] \in Nat \ {0}
    BY <1>1, VarintWritten
  <1>4. Number(v).value = v /\ Number(v).i = VarintSize[v]
    BY DEF Number
  <1>5. Number(v) # NoBytes
    BY <1>3, <1>4 DEF NoBytes
  <1>6. Lower(NoBytes, Number(v)) /\ Above(Number(v), 0) = v
    BY <1>1, <1>2, <1>3, <1>4 DEF Lower, Above, Below, NoBytes
  <1> QED
    BY <1>3, <1>4, <1>5, <1>6 DEF FieldBytes

(* The next byte of it is one that read_varint() accepts, and takes for    *)
(* what it is (DeltaCodec.hpp:65-82, 384-402).                             *)
LEMMA NumberNext ==
    ASSUME NEW v \in 0 .. WordSize - 1, NEW x, Lower(x, Number(v)), x.i \in 0 .. MaxBytes - 1
    PROVE  \E b \in Byte, rest \in Seq(Byte) :
              /\ Varint[Above(Number(v), x.i)] = <<b>> \o rest
              /\ Continued(x, Number(v), b, rest)
  <1> DEFINE i == x.i
             n == Number(v)
             u == Weight[i]
             q == v \div u
             l == v % u
             size == VarintSize[v]
  <1>0. /\ MaxBytes \in Nat \ {0} /\ Group \in Nat \ {0, 1}
        /\ WordSize = 2 * Weight[MaxBytes - 1] /\ WordSize \in Nat
        /\ Byte = 0 .. 2 * Group - 1
    BY ByteType, WeightType, BaseType
  <1>1. /\ i \in Nat /\ i \in 0 .. MaxBytes /\ i + 1 \in 1 .. MaxBytes /\ (i + 1) - 1 = i
        /\ i + 1 \in 0 .. MaxBytes /\ v \in Nat /\ v < WordSize /\ WordSize \in Nat \ {0}
        /\ Group \in Nat \ {0, 1} /\ Byte = 0 .. 2 * Group - 1
    <2> HIDE DEF i
    <2>1. i \in 0 .. MaxBytes - 1
      BY DEF i
    <2> QED
      BY <1>0, <2>1
  <1>2. u \in Nat \ {0} /\ Weight[i + 1] = Group * u
    BY <1>1, WeightType
  <1>3. q \in Nat /\ l \in 0 .. u - 1 /\ v = u * q + l
    BY <1>1, <1>2, Division
  <1>4. n.value = v /\ n.i = size /\ n = [value |-> v, i |-> size]
    BY DEF Number
  <1>5. x.value = l /\ x = [value |-> l, i |-> i] /\ i + VarintSize[q] = size /\ Above(n, i) = q
    BY <1>4 DEF Lower, Below, Above
  <1> HIDE DEF i, n, u, q, l, size
  <1>6. /\ Groupwise(Varint) /\ Counting(VarintSize)
    BY GroupwiseExists, CountingExists, VarintChosen, VarintSizeChosen
  <1>7. /\ Varint[q] = IF q < Group THEN <<q>> ELSE <<Group + (q % Group)>> \o Varint[q \div Group]
        /\ VarintSize[q] = IF q < Group THEN 1 ELSE 1 + VarintSize[q \div Group]
    BY <1>3, <1>6, Zenon DEF Groupwise, Counting
  <1>8. i = MaxBytes - 1 => q <= 1
    <2> SUFFICES ASSUME i = MaxBytes - 1, q >= 2 PROVE FALSE
      BY <1>3
    <2> DEFINE z == q - 2
    <2>1. z \in Nat /\ q = z + 2 /\ u * z \in Nat
      <3>1. z \in Nat /\ q = z + 2
        BY <1>3
      <3> HIDE DEF z
      <3>2. u * z + 0 \in Nat
        BY <1>2, <3>1, StepNat
      <3> QED
        BY <1>2, <3>1, <3>2
    <2> HIDE DEF z
    <2>2. u * (z + 2) = u * z + 2 * u
      BY <1>2, <2>1
    <2>3. v < 2 * u
      BY <1>0, <1>1 DEF u
    <2> DEFINE y == u * z
    <2>4. y \in Nat /\ v = y + 2 * u + l
      BY <1>3, <2>1, <2>2
    <2> HIDE DEF y
    <2> QED
      BY <1>2, <1>3, <2>3, <2>4
  <1>9. CASE q < Group
    <2>1. q \in Byte /\ Bits(q) = q /\ ~More(q)
      <3>1. q % Group = q
        BY <1>1, <1>3, <1>9, Remainder
      <3> QED
        BY <1>1, <1>3, <1>9, <3>1 DEF Bits, More
    <2>2. ~Oversized(x, q)
      BY <1>3, <1>8, <2>1 DEF Oversized, i
    <2>3. AddGroup(x, q) = n
      <3>1. l + q * u = v
        BY <1>2, <1>3
      <3>2. v % WordSize = v
        BY <1>1, Remainder
      <3>3. AddGroup(x, q) = [value |-> (l + q * u) % WordSize, i |-> i + 1]
        BY <1>5, <2>1 DEF AddGroup, u
      <3>4. i + 1 = size
        BY <1>5, <1>7, <1>9
      <3> QED
        BY <1>4, <3>1, <3>2, <3>3, <3>4
    <2>4. Varint[q] = <<q>> \o <<>> /\ <<>> \in Seq(Byte)
      BY <1>7, <1>9, <2>1, Empties
    <2>5. Continued(x, n, q, <<>>)
      BY <2>1, <2>2, <2>3 DEF Continued
    <2> QED
      BY <1>5, <2>1, <2>4, <2>5 DEF n, i
  <1>10. CASE ~(q < Group)
    <2> DEFINE s == q % Group
               p == q \div Group
               b == Group + s
               rest == Varint[p]
               m == v % Weight[i + 1]
    <2>1. s \in 0 .. Group - 1 /\ p \in Nat
      BY <1>1, <1>3, Division
    <2>2. /\ v \div Weight[i + 1] = p /\ m = l + s * u /\ m <= v
      <3>1. Group \in Nat \ {0}
        BY <1>1
      <3>2. /\ v \div (Group * u) = (v \div u) \div Group
            /\ v % (Group * u) = (v % u) + ((v \div u) % Group) * u
            /\ v % (Group * u) <= v
        BY <1>1, <1>2, <3>1, DivisionTwice
      <3> QED
        BY <1>2, <3>2 DEF q, l
    <2>3. m \in Nat
      <3>1. Weight[i + 1] \in Nat \ {0}
        BY <1>1, WeightType
      <3>2. m \in 0 .. Weight[i + 1] - 1
        BY <1>1, <3>1, Division
      <3> HIDE DEF m
      <3> QED
        BY <3>2
    <2> HIDE DEF s, m
    <2>4. b \in Byte /\ More(b) /\ Bits(b) = s
      <3>1. b \in Nat /\ b = Group * 1 + s /\ b >= Group /\ b < 2 * Group
        BY <1>1, <2>1
      <3>2. b % Group = s
        BY <1>1, <2>1, <3>1, RemainderUnique
      <3> QED
        BY <1>1, <3>1, <3>2 DEF Bits, More
    <2>5. i # MaxBytes - 1
      BY <1>1, <1>3, <1>8, <1>10
    <2>6. rest \in Seq(Byte) /\ Varint[q] = <<b>> \o rest
      BY <1>7, <1>10, <2>1, VarintWritten DEF s
    <2>7. AddGroup(x, b) = [value |-> m, i |-> i + 1]
      <3>1. AddGroup(x, b) = [value |-> (l + s * u) % WordSize, i |-> i + 1]
        BY <1>5, <2>4 DEF AddGroup, u
      <3>2. m % WordSize = m
        <4>1. m < WordSize
          BY <1>1, <2>2, <2>3
        <4> QED
          BY <1>1, <2>3, <4>1, Remainder
      <3> QED
        BY <2>2, <3>1, <3>2
    <2>8. Above(n, i + 1) = p /\ Below(n, i + 1) = [value |-> m, i |-> i + 1]
      BY <1>4, <2>2 DEF Above, Below, m
    <2>9. (i + 1) + VarintSize[p] = size
      <3>1. VarintSize[p] \in Nat
        BY <2>1, VarintWritten
      <3> QED
        BY <1>1, <1>5, <1>7, <1>10, <3>1
    <2> HIDE DEF b, rest, p
    <2>10. Lower(AddGroup(x, b), n)
      BY <1>4, <2>7, <2>8, <2>9 DEF Lower
    <2>11. Continued(x, n, b, rest)
      <3>1. rest = Varint[Above(n, i + 1)]
        BY <2>8 DEF rest
      <3> QED
        BY <2>4, <2>5, <2>10, <3>1 DEF Continued, Oversized, i
    <2> QED
      BY <1>5, <2>4, <2>6, <2>11 DEF n, i
  <1> QED
    BY <1>9, <1>10

-----------------------------------------------------------------------------
(* Where the entries that are written begin and end.                       *)

WordNumber(n) == \E v \in 0 .. WordSize - 1 : n = Number(v)

(* An opcode that is read as it was written.                               *)
Plain(o) ==
    /\ o \in OpType /\ o = Opcode(o.op, o.pos, o.bytes, o.del)
    /\ o.pos < ByteWeight[FixedBytes] /\ o.del < ByteWeight[FixedBytes]
    /\ IF o.op = "X" THEN o.bytes = <<>> ELSE o.del = 0

(* The same of an entry.                                                   *)
Sound(e) ==
    /\ e = [type |-> e.type, index |-> e.index, size |-> e.size,
            digest |-> e.digest, body |-> e.body, diff |-> e.diff]
    /\ e.type \in {Original, Added, Modified}
    /\ e.digest \in Seq(Byte) /\ Len(e.digest) = DigestBytes
    /\ IF e.type = Added THEN e.index = NoBytes ELSE WordNumber(e.index)
    /\ IF e.type = Original THEN e.size = NoBytes ELSE WordNumber(e.size) /\ e.size.value <= MaxChunk
    /\ IF e.type = Modified
       THEN /\ e.body \in Seq(OpType) /\ e.body # <<>> /\ \A k \in 1 .. Len(e.body) : Plain(e.body[k])
            /\ e.diff = Len(OpcodesBytes(e.body))
       ELSE /\ e.body \in Seq(Byte) /\ e.diff = 0
            /\ Len(e.body) = IF e.type = Added THEN e.size.value ELSE 0

(* An entry, field by field.                                               *)
Fields(t, i, s, d, b, f) ==
    [type |-> t, index |-> i, size |-> s, digest |-> d, body |-> b, diff |-> f]

(* The entries that are written, field by field.                           *)
LEMMA EntryFields ==
    ASSUME NEW c, NEW k
    PROVE  /\ ReusedEntry(c) = Fields(Original, Number(c.index), NoBytes, c.digest, <<>>, 0)
           /\ AddedEntry(c) =
                 Fields(Added, NoBytes, Number(Len(c.payload)), c.digest, c.payload, 0)
           /\ DiffEntry(c, k) =
                 Fields(Modified, Number(k), Number(Len(c.payload)), c.digest, c.ops,
                        Len(OpcodesBytes(c.ops)))
  <1> DEFINE i == Number(c.index)
             j == Number(k)
             s == Number(Len(c.payload))
             d == c.digest
             l == Len(OpcodesBytes(c.ops))
             N(t) == Fields(t, NoBytes, NoBytes, <<>>, <<>>, 0)
  <1>1. \A t : NewEntry(t) = N(t)
    BY DEF NewEntry, Fields
  <1>2. /\ ReusedEntry(c) = [[N(Original) EXCEPT !.index = i] EXCEPT !.digest = d]
        /\ AddedEntry(c) =
              [[[N(Added) EXCEPT !.size = s] EXCEPT !.digest = d] EXCEPT !.body = c.payload]
        /\ DiffEntry(c, k) =
              [[[[[N(Modified) EXCEPT !.index = j] EXCEPT !.size = s] EXCEPT !.digest = d]
                   EXCEPT !.body = c.ops] EXCEPT !.diff = l]
    BY <1>1, Zenon DEF ReusedEntry, AddedEntry, DiffEntry
  <1> HIDE DEF i, j, s, d, l
  <1>3. ReusedEntry(c) = Fields(Original, i, NoBytes, d, <<>>, 0)
    <2>1. [N(Original) EXCEPT !.index = i] = Fields(Original, i, NoBytes, <<>>, <<>>, 0)
      BY DEF Fields
    <2>2. ReusedEntry(c) = [Fields(Original, i, NoBytes, <<>>, <<>>, 0) EXCEPT !.digest = d]
      BY <1>2, <2>1, Zenon
    <2> QED
      BY <2>2 DEF Fields
  <1>4. AddedEntry(c) = Fields(Added, NoBytes, s, d, c.payload, 0)
    <2>1. [N(Added) EXCEPT !.size = s] = Fields(Added, NoBytes, s, <<>>, <<>>, 0)
      BY DEF Fields
    <2>2. [Fields(Added, NoBytes, s, <<>>, <<>>, 0) EXCEPT !.digest = d]
             = Fields(Added, NoBytes, s, d, <<>>, 0)
      BY DEF Fields
    <2>3. AddedEntry(c) = [Fields(Added, NoBytes, s, d, <<>>, 0) EXCEPT !.body = c.payload]
      BY <1>2, <2>1, <2>2, Zenon
    <2> QED
      BY <2>3 DEF Fields
  <1>5. DiffEntry(c, k) = Fields(Modified, j, s, d, c.ops, l)
    <2>1. [N(Modified) EXCEPT !.index = j] = Fields(Modified, j, NoBytes, <<>>, <<>>, 0)
      BY DEF Fields
    <2>2. [Fields(Modified, j, NoBytes, <<>>, <<>>, 0) EXCEPT !.size = s]
             = Fields(Modified, j, s, <<>>, <<>>, 0)
      BY DEF Fields
    <2>3. [Fields(Modified, j, s, <<>>, <<>>, 0) EXCEPT !.digest = d]
             = Fields(Modified, j, s, d, <<>>, 0)
      BY DEF Fields
    <2>4. [Fields(Modified, j, s, d, <<>>, 0) EXCEPT !.body = c.ops]
             = Fields(Modified, j, s, d, c.ops, 0)
      BY DEF Fields
    <2>5. [[N(Modified) EXCEPT !.index = j] EXCEPT !.size = s]
             = Fields(Modified, j, s, <<>>, <<>>, 0)
      BY <2>1, <2>2
    <2>6. DiffEntry(c, k) =
             [[[Fields(Modified, j, s, <<>>, <<>>, 0) EXCEPT !.digest = d]
                  EXCEPT !.body = c.ops] EXCEPT !.diff = l]
      BY <1>2, <2>5
    <2>7. DiffEntry(c, k) = [Fields(Modified, j, s, d, c.ops, 0) EXCEPT !.diff = l]
      BY <2>3, <2>4, <2>6
    <2> QED
      BY <2>7 DEF Fields
  <1> QED
    BY <1>3, <1>4, <1>5 DEF i, j, s, d, l

(* So are the entries processMultipleChunks() makes (Delta.hpp:223-296).   *)
LEMMA EntryIsSound ==
    ASSUME NEW c \in Chunks, NEW k \in 0 .. MaxItems - 1
    PROVE  Sound(EntryFor(c, k))
  <1> DEFINE n == Len(c.payload)
             r == ReusedEntry(c)
             a == AddedEntry(c)
             d == DiffEntry(c, k)
  <1>1. /\ c.index \in 0 .. WordSize - 1 /\ c.payload \in Seq(Byte) /\ n <= MaxChunk
        /\ c.digest \in Seq(Byte) /\ Len(c.digest) = DigestBytes /\ c.ops \in Seq(OpType)
        /\ MaxItems \in Nat /\ MaxItems <= WordSize /\ MaxChunk < WordSize
    BY ChunkAssumption
  <1>2. n \in Nat /\ MaxChunk \in Nat /\ WordSize \in Nat
    BY <1>1, LenProperties, LayoutAssumption, ByteType
  <1>3. n \in 0 .. WordSize - 1 /\ k \in 0 .. WordSize - 1
    <2> HIDE DEF n
    <2> QED
      BY <1>1, <1>2
  <1>4. /\ WordNumber(Number(c.index)) /\ WordNumber(Number(n)) /\ WordNumber(Number(k)) /\ Number(n).value = n
    BY <1>1, <1>3 DEF WordNumber, Number
  <1>5. Sound(r)
    <2>1. Len(<<>>) = 0 /\ <<>> \in Seq(Byte)
      BY EmptySeq
    <2> DEFINE i == Number(c.index)
    <2> HIDE DEF i
    <2>2. r = [type |-> Original, index |-> i, size |-> NoBytes, digest |-> c.digest,
               body |-> <<>>, diff |-> 0]
      BY EntryFields DEF Fields, i
    <2> HIDE DEF r, n
    <2>3. WordNumber(i)
      BY <1>4 DEF i
    <2> QED
      BY <1>1, <2>1, <2>2, <2>3 DEF Sound, Original, Added, Modified
  <1>6. Sound(a)
    <2> DEFINE s == Number(n)
    <2> HIDE DEF s
    <2>1. a = [type |-> Added, index |-> NoBytes, size |-> s, digest |-> c.digest,
               body |-> c.payload, diff |-> 0]
      BY EntryFields DEF Fields, s
    <2> HIDE DEF a
    <2>2. WordNumber(s) /\ s.value = n
      BY <1>4 DEF s
    <2>3. Len(a.body) = a.size.value /\ a.size.value <= MaxChunk
      BY <1>1, <2>1, <2>2
    <2> HIDE DEF n
    <2> QED
      BY <1>1, <2>1, <2>2, <2>3 DEF Sound, Original, Added, Modified
  <1>7. ASSUME c.ops # <<>> PROVE Sound(d)
    <2> DEFINE i == Number(k)
               s == Number(n)
               l == Len(OpcodesBytes(c.ops))
    <2> HIDE DEF i, s, l
    <2>1. d = [type |-> Modified, index |-> i, size |-> s, digest |-> c.digest,
               body |-> c.ops, diff |-> l]
      BY EntryFields DEF Fields, i, s, l
    <2> HIDE DEF d
    <2>2. ASSUME NEW j \in 1 .. Len(c.ops) PROVE Plain(c.ops[j])
      <3> DEFINE o == c.ops[j]
      <3>1. DOMAIN c.ops = 1 .. Len(c.ops) /\ o \in OpType
        BY <1>1, LenProperties, ElementOfSeq
      <3>2. /\ o.pos < ByteWeight[FixedBytes] /\ o.del < ByteWeight[FixedBytes]
            /\ IF o.op = "X" THEN o.bytes = <<>> ELSE o.del = 0
        BY <3>1, ChunkAssumption
      <3> HIDE DEF o
      <3>3. o = Opcode(o.op, o.pos, o.bytes, o.del)
        BY <3>1 DEF OpType, Opcode
      <3>4. Plain(o)
        BY <3>1, <3>2, <3>3 DEF Plain
      <3> QED
        BY <3>4 DEF o
    <2>3. WordNumber(i) /\ WordNumber(s) /\ s.value = n /\ d.size.value <= MaxChunk
      BY <1>1, <1>4, <2>1 DEF i, s
    <2>4. d.diff = Len(OpcodesBytes(d.body))
      BY <2>1 DEF l
    <2> HIDE DEF n
    <2> QED
      BY <1>1, <1>7, <2>1, <2>2, <2>3, <2>4 DEF Sound, Original, Added, Modified
  <1> QED
    BY <1>5, <1>6, <1>7 DEF EntryFor, Pays

(* The bytes before the body of an entry, and those of an opcode after its *)
(* position.                                                               *)
Start(e) == <<e.type>> \o (FieldBytes(e.index) \o (FieldBytes(e.size) \o e.digest))
Rest(o)  == IF o.op = "X" THEN Fixed(o.del) ELSE <<Len(o.bytes)>> \o o.bytes

(* The parts of a record.                                                  *)
LEMMA RecordParts ==
    ASSUME NEW e, Sound(e)
    PROVE  /\ e.type \in Byte /\ <<e.type>> \in Seq(Byte)
           /\ FieldBytes(e.index) \in Seq(Byte) /\ FieldBytes(e.size) \in Seq(Byte)
           /\ FieldBytes(e.size) \o e.digest \in Seq(Byte)
           /\ FieldBytes(e.index) \o (FieldBytes(e.size) \o e.digest) \in Seq(Byte)
           /\ Start(e) \in Seq(Byte) /\ BodyBytes(e) \in Seq(Byte)
           /\ RecordBytes(e) \in Seq(Byte) /\ RecordBytes(e) = Start(e) \o BodyBytes(e)
  <1> DEFINE t == <<e.type>>
             a == FieldBytes(e.index)
             b == FieldBytes(e.size)
             d == e.digest
             r == BodyBytes(e)
  <1>1. e.type \in Byte
    <2>1. \A x \in 0 .. 2 : x \in Byte
      BY ByteType DEF Byte
    <2> QED
      BY <2>1 DEF Sound, Original, Added, Modified
  <1>2. Field(e.index) /\ Field(e.size)
    <2>1. WordSize \in Nat
      BY ByteType
    <2>2. \A n : WordNumber(n) => Field(n)
      BY <2>1 DEF WordNumber, Field
    <2> QED
      BY <2>2 DEF Sound, Field
  <1>3. t \in Seq(Byte) /\ a \in Seq(Byte) /\ b \in Seq(Byte) /\ d \in Seq(Byte)
    BY <1>1, <1>2, FieldLength DEF Sound
  <1>4. r \in Seq(Byte)
    BY OpcodesLayout DEF BodyBytes, Sound
  <1>5. RecordBytes(e) = t \o (a \o b) \o d \o r /\ Start(e) = t \o (a \o (b \o d))
    BY DEF RecordBytes, EntryBytes, Start
  <1> HIDE DEF t, a, b, d, r
  <1>6. b \o d \in Seq(Byte) /\ a \o b \in Seq(Byte)
    BY <1>3, ConcatProperties
  <1>7. a \o (b \o d) \in Seq(Byte) /\ a \o (b \o d) = (a \o b) \o d
    <2>1. (a \o b) \o d = a \o (b \o d)
      BY <1>3, ConcatAssociative
    <2> QED
      BY <1>3, <1>6, <2>1, ConcatProperties
  <1>8. t \o (a \o (b \o d)) \in Seq(Byte)
    BY <1>3, <1>7, ConcatProperties
  <1>9. t \o (a \o (b \o d)) = t \o (a \o b) \o d
    <2> DEFINE y == a \o b
    <2>1. y \in Seq(Byte)
      BY <1>6
    <2> HIDE DEF y
    <2>2. (t \o y) \o d = t \o (y \o d)
      BY SMTT(60), <1>3, <2>1, ConcatAssociative
    <2> QED
      BY <1>7, <2>2 DEF y
  <1>10. RecordBytes(e) = Start(e) \o r
    BY <1>5, <1>9
  <1>11. Start(e) \in Seq(Byte) /\ RecordBytes(e) \in Seq(Byte)
    BY <1>4, <1>5, <1>8, <1>10, ConcatProperties
  <1> QED
    BY <1>1, <1>3, <1>4, <1>6, <1>7, <1>10, <1>11 DEF t, a, b, d, r

(* The header and the first n records, and all that is written.            *)
Records(es, n) == HeaderBytes \o FlattenSeq([j \in 1 .. n |-> RecordBytes(es[j])])
Whole(es, t)   == Records(es, Len(es)) \o TrailerRecord(t)

AllSound(es) == Len(es) \in Nat /\ \A k \in 1 .. Len(es) : Sound(es[k])

(* One more record.                                                        *)
LEMMA RecordsNext ==
    ASSUME NEW es, AllSound(es), NEW n \in 0 .. Len(es)
    PROVE  /\ Records(es, n) \in Seq(Byte)
           /\ n < Len(es) => Records(es, n + 1) = Records(es, n) \o RecordBytes(es[n + 1])
  <1> DEFINE h == HeaderBytes
             s == [j \in 1 .. n |-> RecordBytes(es[j])]
             t == [j \in 1 .. n + 1 |-> RecordBytes(es[j])]
             r == RecordBytes(es[n + 1])
  <1>1. n \in Nat /\ \A k \in 1 .. Len(es) : RecordBytes(es[k]) \in Seq(Byte)
    BY RecordParts DEF AllSound
  <1>2. s \in Seq(Seq(Byte)) /\ Len(s) = n
    <2>1. s \in [1 .. n -> Seq(Byte)]
      BY <1>1 DEF AllSound
    <2> HIDE DEF s
    <2> QED
      BY <1>1, <2>1, FunctionIsSeq
  <1>3. h \in Seq(Byte)
    BY WrittenIsBytes
  <1>4. FlattenSeq(s) \in Seq(Byte)
    <2> HIDE DEF s
    <2>1. <<>> \in Seq(Byte)
      BY EmptySeq
    <2> QED
      BY <1>2, <2>1, FlattenAppend
  <1>5. ASSUME n < Len(es) PROVE h \o FlattenSeq(t) = (h \o FlattenSeq(s)) \o r
    <2>1. r \in Seq(Byte)
      BY <1>1, <1>5 DEF AllSound
    <2>2. t \in Seq(Seq(Byte)) /\ Len(t) = n + 1
      <3>1. t \in [1 .. n + 1 -> Seq(Byte)] /\ n + 1 \in Nat
        BY <1>1, <1>5 DEF AllSound
      <3> HIDE DEF t
      <3> QED
        BY <3>1, FunctionIsSeq
    <2>3. t[n + 1] = r /\ \A k \in 1 .. n : t[k] = s[k]
      BY <1>1
    <2> HIDE DEF s, t, r
    <2>4. t = Append(s, r)
      BY <1>2, <2>1, <2>2, <2>3, LastOne
    <2>5. FlattenSeq(t) = FlattenSeq(s) \o r
      BY <1>2, <2>1, <2>4, FlattenAppend
    <2> DEFINE f == FlattenSeq(s)
    <2>6. f \in Seq(Byte) /\ FlattenSeq(t) = f \o r
      BY <1>4, <2>5
    <2> HIDE DEF f, h
    <2>7. (h \o f) \o r = h \o (f \o r)
      BY SMTT(60), <1>3, <2>1, <2>6, ConcatAssociative
    <2> QED
      BY <2>6, <2>7 DEF f
  <1>6. h \o FlattenSeq(s) \in Seq(Byte)
    BY <1>3, <1>4, ConcatProperties
  <1> QED
    BY <1>5, <1>6 DEF Records

(* The first records are where all of them begin.                          *)
LEMMA RecordsBegin ==
    ASSUME NEW es, AllSound(es), NEW n \in 0 .. Len(es)
    PROVE  Begins(Records(es, n), Records(es, Len(es)))
  <1> DEFINE S == {j \in 0 .. Len(es) : \A k \in 0 .. j : Begins(Records(es, k), Records(es, j))}
  <1>1. Len(es) \in Nat
    BY DEF AllSound
  <1>2. ASSUME NEW k \in 0 .. Len(es) PROVE Begins(Records(es, k), Records(es, k))
    <2> DEFINE r == Records(es, k)
    <2>1. r \in Seq(Byte)
      BY RecordsNext
    <2> HIDE DEF r
    <2>2. r \o <<>> = r /\ <<>> \in Seq(Byte)
      BY <2>1, Empties
    <2> QED
      BY <2>2 DEF Begins, r
  <1>3. 0 \in S
    BY <1>1, <1>2
  <1>4. ASSUME NEW j \in 1 .. Len(es), j - 1 \in S PROVE j \in S
    <2>1. j - 1 \in 0 .. Len(es) /\ j - 1 < Len(es) /\ (j - 1) + 1 = j /\ j \in 0 .. Len(es)
      BY <1>1
    <2>2. Records(es, j) = Records(es, j - 1) \o RecordBytes(es[j]) /\ RecordBytes(es[j]) \in Seq(Byte)
      BY <2>1, RecordsNext, RecordParts DEF AllSound
    <2>3. Begins(Records(es, j - 1), Records(es, j))
      BY <2>2 DEF Begins
    <2>4. ASSUME NEW k \in 0 .. j PROVE Begins(Records(es, k), Records(es, j))
      <3>1. CASE k = j
        BY <1>2, <2>1, <3>1
      <3>2. CASE k # j
        <4>1. k \in 0 .. j - 1 /\ k \in 0 .. Len(es)
          BY <1>1, <3>2
        <4>2. Begins(Records(es, k), Records(es, j - 1))
          BY <1>4, <4>1
        <4>3. Records(es, k) \in Seq(Byte)
          BY <4>1, RecordsNext
        <4> QED
          BY <2>3, <4>2, <4>3, BeginsOn
      <3> QED
        BY <3>1, <3>2
    <2> QED
      BY <2>1, <2>4
  <1> HIDE DEF S
  <1>5. 0 .. Len(es) \subseteq S
    BY <1>1, <1>3, <1>4, UpToInduction
  <1>6. Len(es) \in S
    BY <1>1, <1>5
  <1> QED
    BY <1>6 DEF S

-----------------------------------------------------------------------------
(* Where the parts of an entry begin and end.                              *)

(* A sequence taken up to a place, and one further.                        *)
LEMMA UpToNext ==
    ASSUME NEW S, NEW s \in Seq(S), NEW k \in 0 .. Len(s)
    PROVE  /\ SubSeq(s, 1, k) \in Seq(S) /\ Len(SubSeq(s, 1, k)) = k
           /\ k < Len(s) => s[k + 1] \in S /\ SubSeq(s, 1, k + 1) = Append(SubSeq(s, 1, k), s[k + 1])
           /\ k = Len(s) => SubSeq(s, 1, k) = s
           /\ SubSeq(s, 1, 0) = <<>>
  <1> DEFINE n == Len(s)
             P(j) == SubSeq(s, 1, j)
  <1>1. n \in Nat /\ k \in Nat /\ k <= n
    BY LenProperties
  <1>2. ASSUME NEW j \in 0 .. n
        PROVE  P(j) \in Seq(S) /\ Len(P(j)) = j /\ \A i \in 1 .. j : P(j)[i] = s[i]
    <2>1. j \in Int /\ j >= 0 /\ j <= n
      BY <1>1
    <2>2. \A i \in 1 .. j : s[i] \in S
      BY <1>1, <2>1, ElementOfSeq
    <2>3. /\ P(j) \in Seq(S) /\ Len(P(j)) = IF 1 <= j THEN j - 1 + 1 ELSE 0
      BY <2>1, Part
    <2>4. \A i \in 1 .. j : P(j)[i] = s[1 + i - 1]
      BY <2>1, <2>2, SubSeqProperties
    <2> QED
      BY <2>1, <2>3, <2>4
  <1> HIDE DEF P
  <1>3. ASSUME k < n PROVE s[k + 1] \in S /\ P(k + 1) = Append(P(k), s[k + 1])
    <2>1. k \in 0 .. n /\ k + 1 \in 0 .. n /\ k + 1 \in 1 .. n /\ \A i \in 1 .. k : i \in 1 .. k + 1
      BY <1>1, <1>3
    <2>2. s[k + 1] \in S
      BY <2>1, ElementOfSeq
    <2>3. /\ P(k) \in Seq(S) /\ Len(P(k)) = k /\ \A i \in 1 .. k : P(k)[i] = s[i]
          /\ P(k + 1) \in Seq(S) /\ Len(P(k + 1)) = k + 1 /\ \A i \in 1 .. k + 1 : P(k + 1)[i] = s[i]
      BY <1>2, <2>1
    <2>4. P(k + 1)[k + 1] = s[k + 1] /\ \A i \in 1 .. k : P(k + 1)[i] = P(k)[i]
      BY <1>1, <2>1, <2>3
    <2>5. Len(P(k + 1)) = Len(P(k)) + 1 /\ P(k + 1)[Len(P(k)) + 1] = s[k + 1]
          /\ \A i \in 1 .. Len(P(k)) : P(k + 1)[i] = P(k)[i]
      BY <2>3, <2>4
    <2> QED
      BY <2>2, <2>3, <2>5, LastOne
  <1>4. P(n) = s
    <2>1. n \in 0 .. n
      BY <1>1
    <2> QED
      BY <1>2, <2>1, SeqEqual
  <1>5. P(0) = <<>>
    <2>1. 0 \in 0 .. n
      BY <1>1
    <2>2. P(0) \in Seq(S) /\ Len(P(0)) = 0
      BY <1>2, <2>1
    <2> QED
      BY <2>2, EmptySeq
  <1> QED
    BY <1>2, <1>3, <1>4, <1>5 DEF P

(* Entry e is written between b and z.                                     *)
Place(w, e, b, z) ==
    Sound(e) /\ b \in Seq(Byte) /\ z = b \o RecordBytes(e) /\ Begins(z, w)

(* Everything before the body; and with the first k opcodes.               *)
Opening(e, b) == b \o Start(e)
Ran(e, b, k)  == Opening(e, b) \o OpcodesBytes(SubSeq(e.body, 1, k))

(* The body comes after all other fields.                                  *)
LEMMA OpeningPlace ==
    ASSUME NEW w, NEW e, NEW b, NEW z, Place(w, e, b, z)
    PROVE  /\ Opening(e, b) \in Seq(Byte) /\ z \in Seq(Byte)
           /\ z = Opening(e, b) \o BodyBytes(e) /\ Begins(Opening(e, b), w)
  <1> DEFINE s == Start(e)
             r == BodyBytes(e)
             m == Opening(e, b)
  <1>1. /\ b \in Seq(Byte) /\ s \in Seq(Byte) /\ r \in Seq(Byte) /\ z = b \o (s \o r)
        /\ Begins(z, w) /\ m = b \o s
    BY RecordParts DEF Place, Opening
  <1> HIDE DEF s, r, m
  <1>2. m \in Seq(Byte) /\ (b \o s) \o r = b \o (s \o r)
    BY <1>1, ConcatProperties, ConcatAssociative
  <1>3. z = m \o r /\ z \in Seq(Byte)
    <2>1. z = m \o r
      BY <1>1, <1>2
    <2> QED
      BY <1>1, <1>2, <2>1, ConcatProperties
  <1>4. Begins(m, z)
    BY <1>1, <1>3 DEF Begins
  <1>5. Begins(m, w)
    BY <1>1, <1>2, <1>4, BeginsOn
  <1> QED
    BY <1>2, <1>3, <1>5 DEF r, m

(* One more opcode.                                                        *)
LEMMA RanNext ==
    ASSUME NEW w, NEW e, NEW b, NEW z, Place(w, e, b, z), e.type = Modified,
           NEW k \in 0 .. Len(e.body)
    PROVE  /\ Ran(e, b, k) \in Seq(Byte)
           /\ k < Len(e.body) =>
                 /\ Plain(e.body[k + 1])
                 /\ Ran(e, b, k + 1) = Ran(e, b, k) \o OpcodeBytes(e.body[k + 1])
           /\ k = 0 => Ran(e, b, k) = Opening(e, b)
           /\ k = Len(e.body) => Ran(e, b, k) = z
  <1> DEFINE m == Opening(e, b)
             s == SubSeq(e.body, 1, k)
             t == SubSeq(e.body, 1, k + 1)
             o == e.body[k + 1]
             x == OpcodesBytes(s)
             y == OpcodeBytes(o)
  <1>1. /\ e.body \in Seq(OpType) /\ BodyBytes(e) = OpcodesBytes(e.body)
        /\ \A j \in 1 .. Len(e.body) : Plain(e.body[j])
    BY DEF Place, Sound, BodyBytes, Original, Added, Modified
  <1>2. m \in Seq(Byte) /\ z = m \o OpcodesBytes(e.body)
    BY <1>1, OpeningPlace
  <1>3. /\ s \in Seq(OpType)
        /\ k < Len(e.body) => o \in OpType /\ t = Append(s, o)
        /\ k = Len(e.body) => s = e.body
        /\ k = 0 => s = <<>>
    <2> DEFINE v == e.body
    <2>1. v \in Seq(OpType) /\ k \in 0 .. Len(v)
      BY <1>1
    <2> HIDE DEF v
    <2>2. /\ SubSeq(v, 1, k) \in Seq(OpType)
          /\ k < Len(v) => v[k + 1] \in OpType /\ SubSeq(v, 1, k + 1) = Append(SubSeq(v, 1, k), v[k + 1])
          /\ k = Len(v) => SubSeq(v, 1, k) = v
          /\ SubSeq(v, 1, 0) = <<>>
      BY <2>1, UpToNext
    <2> QED
      BY <2>2 DEF v
  <1>4. x \in Seq(Byte) /\ (k < Len(e.body) => OpcodesBytes(t) = x \o y /\ y \in Seq(Byte))
    <2> HIDE DEF s, t, o
    <2> QED
      BY <1>3, OpcodesLayout, OpcodeLayout
  <1>5. Ran(e, b, k) = m \o x /\ Ran(e, b, k + 1) = m \o OpcodesBytes(t)
    BY DEF Ran
  <1>6. k < Len(e.body) => Plain(o)
    <2>1. Len(e.body) \in Nat
      BY <1>1, LenProperties
    <2>2. k < Len(e.body) => k + 1 \in 1 .. Len(e.body)
      BY <2>1
    <2> QED
      BY <1>1, <2>2
  <1>7. k = 0 => x = <<>>
    BY <1>3, NoOpcodes
  <1>8. k = Len(e.body) => z = m \o x
    BY <1>2, <1>3
  <1> HIDE DEF m, x, y, o, t
  <1>9. m \o x \in Seq(Byte)
    BY <1>2, <1>4, ConcatProperties
  <1>10. k < Len(e.body) => m \o (x \o y) = (m \o x) \o y
    BY SMTT(60), <1>2, <1>4, ConcatAssociative
  <1>11. k = 0 => m \o x = m
    BY <1>2, <1>7, Empties
  <1> QED
    BY <1>4, <1>5, <1>6, <1>8, <1>9, <1>10, <1>11 DEF m, y, o

(* All of them begin what is written.                                      *)
LEMMA RanBegins ==
    ASSUME NEW w, NEW e, NEW b, NEW z, Place(w, e, b, z), e.type = Modified,
           NEW k \in 0 .. Len(e.body)
    PROVE  Begins(Ran(e, b, k), w)
  <1> DEFINE n == Len(e.body)
             R(j) == Ran(e, b, j)
             S == {j \in 0 .. n : Begins(R(n - j), w)}
  <1>1. n \in Nat
    <2>1. e.body \in Seq(OpType)
      BY DEF Place, Sound, Original, Added, Modified
    <2> QED
      BY <2>1, LenProperties
  <1>2. ASSUME NEW j \in 0 .. n
        PROVE  /\ R(j) \in Seq(Byte)
               /\ j < n => Plain(e.body[j + 1]) /\ R(j + 1) = R(j) \o OpcodeBytes(e.body[j + 1])
               /\ j = n => R(j) = z
    <2>1. j \in 0 .. Len(e.body)
      OBVIOUS
    <2>2. /\ Ran(e, b, j) \in Seq(Byte)
          /\ j < Len(e.body) =>
                /\ Plain(e.body[j + 1])
                /\ Ran(e, b, j + 1) = Ran(e, b, j) \o OpcodeBytes(e.body[j + 1])
          /\ j = Len(e.body) => Ran(e, b, j) = z
      <3> HIDE DEF n, R, S
      <3> QED
        BY <2>1, RanNext
    <2> QED
      BY <2>2
  <1> HIDE DEF n, R
  <1>3. 0 \in S
    <2>1. n \in 0 .. n /\ n - 0 = n /\ 0 \in 0 .. n
      BY <1>1
    <2> QED
      BY <1>2, <2>1 DEF Place
  <1>4. ASSUME NEW j \in 1 .. n, j - 1 \in S PROVE j \in S
    <2> DEFINE i == n - j
    <2>1. i \in 0 .. n /\ i < n /\ n - (j - 1) = i + 1 /\ i + 1 \in 0 .. n /\ j \in 0 .. n
      BY <1>1
    <2>2. Begins(R(i + 1), w)
      BY <1>4, <2>1
    <2>3. R(i) \in Seq(Byte) /\ R(i + 1) = R(i) \o OpcodeBytes(e.body[i + 1])
          /\ Plain(e.body[i + 1])
      BY <1>2, <2>1
    <2>4. OpcodeBytes(e.body[i + 1]) \in Seq(Byte)
      BY <2>3, OpcodeLayout DEF Plain
    <2>5. Begins(R(i), R(i + 1))
      BY <2>3, <2>4 DEF Begins
    <2>6. Begins(R(i), w)
      BY <2>2, <2>3, <2>5, BeginsOn
    <2> QED
      BY <2>1, <2>6
  <1> HIDE DEF S
  <1>5. 0 .. n \subseteq S
    BY <1>1, <1>3, <1>4, UpToInduction
  <1>6. n - k \in S /\ n - (n - k) = k
    <2>1. n - k \in 0 .. n /\ n - (n - k) = k
      BY <1>1 DEF n
    <2> QED
      BY <1>5, <2>1
  <1> QED
    BY <1>6 DEF S, R

(* An opcode, in the order in which it is read.                            *)
LEMMA OpcodeParts ==
    ASSUME NEW o, Plain(o)
    PROVE  /\ OpTag[o.op] \in Byte /\ <<OpTag[o.op]>> \in Seq(Byte)
           /\ Fixed(o.pos) \in Seq(Byte) /\ Len(Fixed(o.pos)) = FixedBytes
           /\ Rest(o) \in Seq(Byte) /\ Fixed(o.pos) \o Rest(o) \in Seq(Byte)
           /\ OpcodeBytes(o) = <<OpTag[o.op]>> \o (Fixed(o.pos) \o Rest(o))
           /\ Len(Fixed(o.del)) = FixedBytes /\ Fixed(o.del) \in Seq(Byte)
           /\ Len(o.bytes) \in Byte /\ <<Len(o.bytes)>> \in Seq(Byte) /\ o.bytes \in Seq(Byte)
  <1> DEFINE t == <<OpTag[o.op]>>
             p == Fixed(o.pos)
             d == Fixed(o.del)
             n == <<Len(o.bytes)>>
             r == Rest(o)
  <1>1. /\ o.pos \in Nat /\ o.del \in Nat /\ o.bytes \in Seq(Byte) /\ o.op \in DOMAIN OpTag
        /\ Len(o.bytes) \in Byte
    BY DEF Plain, OpType
  <1>2. OpTag[o.op] \in Byte
    BY <1>1, LayoutAssumption DEF OpTags
  <1>3. p \in Seq(Byte) /\ Len(p) = FixedBytes /\ d \in Seq(Byte) /\ Len(d) = FixedBytes
    BY <1>1, FixedIsBytes
  <1>4. t \in Seq(Byte) /\ n \in Seq(Byte)
    BY <1>1, <1>2
  <1>5. OpcodeBytes(o) = (t \o p) \o r /\ r = IF o.op = "X" THEN d ELSE n \o o.bytes
    BY DEF OpcodeBytes, Rest
  <1> HIDE DEF t, p, d, n, r
  <1>6. r \in Seq(Byte)
    BY <1>1, <1>3, <1>4, <1>5, ConcatProperties
  <1>7. p \o r \in Seq(Byte) /\ (t \o p) \o r = t \o (p \o r)
    <2>1. t \in Seq(Byte) /\ p \in Seq(Byte) /\ r \in Seq(Byte)
      BY <1>3, <1>4, <1>6
    <2>2. (t \o p) \o r = t \o (p \o r)
      BY <2>1, ConcatAssociative
    <2> QED
      BY <2>1, <2>2, ConcatProperties
  <1> QED
    BY <1>1, <1>2, <1>3, <1>4, <1>5, <1>6, <1>7 DEF t, p, d, n, r
-----------------------------------------------------------------------------
(* Reading what was written.                                               *)

(* A sequence that agrees with a longer one begins it.                     *)
LEMMA PrefixBegins ==
    ASSUME NEW s \in Seq(Byte), NEW t \in Seq(Byte), Len(s) <= Len(t),
           \A k \in 1 .. Len(s) : t[k] = s[k]
    PROVE  Begins(s, t)
  <1> DEFINE m == Len(s)
             n == Len(t)
             r == SubSeq(t, m + 1, n)
  <1>1. m \in Nat /\ n \in Nat /\ m <= n /\ m + 1 \in Nat \ {0} /\ n \in Int
    BY LenProperties
  <1>2. \A i \in m + 1 .. n : t[i] \in Byte
    <2>1. \A i \in m + 1 .. n : i \in 1 .. n
      BY <1>1
    <2> QED
      BY <2>1, ElementOfSeq
  <1>3. r \in Seq(Byte) /\ Len(r) = IF m + 1 <= n THEN n - (m + 1) + 1 ELSE 0
    BY <1>1, Part
  <1>4. \A i \in 1 .. n - (m + 1) + 1 : r[i] = t[m + 1 + i - 1]
    BY <1>1, <1>2, SubSeqProperties
  <1> HIDE DEF r
  <1>5. /\ s \o r \in Seq(Byte) /\ Len(s \o r) = m + Len(r)
        /\ \A k \in 1 .. m + Len(r) : (s \o r)[k] = IF k <= m THEN s[k] ELSE r[k - m]
    BY <1>3, ConcatProperties
  <1> DEFINE x == s \o r
  <1>6. \A k \in 1 .. m : t[k] = s[k]
    OBVIOUS
  <1>7. x \in Seq(Byte) /\ Len(x) = n
    BY <1>1, <1>3, <1>5
  <1> HIDE DEF m, n
  <1>8. ASSUME NEW k \in 1 .. n PROVE x[k] = t[k]
    <2>1. k \in 1 .. m + Len(r)
      BY <1>1, <1>3
    <2>2. CASE k <= m
      <3>1. k \in 1 .. m
        BY <1>1, <2>2
      <3> QED
        BY <1>5, <1>6, <2>1, <2>2, <3>1
    <2>3. CASE ~(k <= m)
      <3>1. k - m \in 1 .. n - (m + 1) + 1 /\ m + 1 + (k - m) - 1 = k
        BY <1>1, <2>3
      <3>2. r[k - m] = t[k]
        BY <1>4, <3>1
      <3> QED
        BY <1>5, <2>1, <2>3, <3>2
    <2> QED
      BY <2>2, <2>3
  <1>9. x = t
    BY <1>7, <1>8, SeqEqual DEF n
  <1> QED
    BY <1>3, <1>9 DEF Begins

(* What has been read, and what was read ahead, are where the file begins. *)
LEMMA UptoBegins ==
    ASSUME NEW c \in Seq(Byte), NEW f, Known(f, c)
    PROVE  /\ Upto(f, c) \in Seq(Byte) /\ Begins(Upto(f, c), c)
           /\ f.buf # <<>> => Begins(Upto(f, c) \o <<Head(f.buf)>>, c)
  <1> DEFINE u == Upto(f, c)
             p == Position(f)
             b == Head(f.buf)
  <1>1. /\ p \in 0 .. Len(c) /\ Len(c) \in Nat /\ u \in Seq(Byte) /\ Len(u) = p
        /\ \A k \in 1 .. p : u[k] = c[k]
    BY PositionType DEF Known
  <1>2. ASSUME f.buf # <<>> PROVE b \in Byte /\ p + 1 <= Len(c) /\ c[p + 1] = b
    <2>1. /\ f.buf \in Seq(Byte) /\ Len(f.buf) \in Nat /\ f.at \in Nat /\ p = f.at - Len(f.buf)
          /\ f.at <= Len(c) /\ \A i \in 1 .. Len(f.buf) : f.buf[i] = c[p + i]
      BY LenProperties DEF Known, Good, FileType, Position
    <2>2. b \in Byte /\ b = f.buf[1]
      BY <1>2, <2>1, HeadTailProperties
    <2>3. Len(f.buf) # 0
      BY <1>2, <2>1, EmptySeq
    <2> HIDE DEF p, b
    <2>4. 1 \in 1 .. Len(f.buf) /\ p + 1 <= Len(c)
      BY <1>1, <2>1, <2>3
    <2> QED
      BY <2>1, <2>2, <2>4
  <1> HIDE DEF u, p
  <1>3. Begins(u, c)
    BY <1>1, PrefixBegins
  <1>4. ASSUME f.buf # <<>> PROVE Begins(u \o <<b>>, c)
    <2>1. b \in Byte /\ p + 1 <= Len(c) /\ c[p + 1] = b
      BY <1>2, <1>4
    <2> HIDE DEF b
    <2> DEFINE x == u \o <<b>>
    <2>2. <<b>> \in Seq(Byte) /\ Len(<<b>>) = 1 /\ <<b>>[1] = b
      BY <2>1
    <2>3. /\ x \in Seq(Byte) /\ Len(x) = Len(u) + 1
          /\ \A k \in 1 .. Len(u) + 1 : x[k] = IF k <= Len(u) THEN u[k] ELSE <<b>>[k - Len(u)]
      BY <1>1, <2>2, ConcatProperties
    <2> HIDE DEF x
    <2>4. ASSUME NEW k \in 1 .. p + 1 PROVE c[k] = x[k]
      <3>1. CASE k <= p
        <4>1. k \in 1 .. p
          BY <1>1, <3>1
        <4> QED
          BY <1>1, <2>3, <3>1, <4>1
      <3>2. CASE ~(k <= p)
        <4>1. k = p + 1 /\ k - p = 1
          BY <1>1, <3>2
        <4> QED
          BY <1>1, <2>1, <2>2, <2>3, <3>2, <4>1
      <3> QED
        BY <3>1, <3>2
    <2>5. Begins(x, c)
      <3>1. Len(x) = p + 1
        BY <1>1, <2>3
      <3> QED
        BY <2>1, <2>3, <2>4, <3>1, PrefixBegins
    <2> QED
      BY <2>5 DEF x
  <1> QED
    BY <1>1, <1>3, <1>4 DEF u, b

(* File c is what was written, w, or where it begins.                      *)
Along(c, w) == c \in Seq(Byte) /\ Begins(c, w)

(* Less was read than was written: the read failed, or the file is short.  *)
Excused(g, c, w) == g.error \/ c # w

(* Field b, with a before the mark, comes next for the reader of c at f.   *)
Awaits(c, w, f, b, a, mark) ==
    Along(c, w) /\ Known(f, c) /\ ComesNext(w, Upto(f, c), b, a, mark)

(* A field that is read is what was written.                               *)
LEMMA FieldTaken ==
    ASSUME NEW c, NEW w, NEW f, NEW b, NEW a, NEW mark, Awaits(c, w, f, b, a, mark),
           NEW r \in ReadChunk(f, c, Len(b))
    PROVE  /\ Known(r.file, c) /\ Len(r.bytes) \in Nat /\ Len(b) \in Nat
           /\ \/ r.bytes = b /\ Upto(r.file, c) \o a = mark
              \/ Len(r.bytes) < Len(b) /\ Excused(r.file, c, w)
  <1> DEFINE u == Upto(f, c)
             v == Upto(r.file, c)
             x == r.bytes
  <1>1. /\ c \in Seq(Byte) /\ Begins(c, w) /\ Known(f, c) /\ ComesNext(w, u, b, a, mark)
        /\ u \in Seq(Byte) /\ Len(b) \in Nat
    BY LenProperties DEF Awaits, Along, ComesNext
  <1>2. /\ Known(r.file, c) /\ x \in Seq(Byte) /\ Len(x) \in Nat /\ Len(x) <= Len(b) /\ v = u \o x
        /\ Len(x) < Len(b) /\ ~r.file.error => v = c
    BY <1>1, Chunkwise
  <1>3. Begins(v, w)
    BY <1>1, <1>2, UptoBegins, BeginsOn
  <1> HIDE DEF u, v, x
  <1>4. /\ Len(x) = Len(b) => x = b /\ (u \o x) \o a = mark
        /\ Len(x) < Len(b) => u \o x # w
    BY <1>1, <1>2, <1>3, ReadsField
  <1> QED
    BY SMTT(60), <1>1, <1>2, <1>4 DEF Excused, v, x

(* So is a byte.                                                           *)
LEMMA ByteTaken ==
    ASSUME NEW c, NEW w, NEW f, NEW y \in Byte, NEW a, NEW mark,
           Awaits(c, w, f, <<y>>, a, mark), NEW r \in ReadByte(f, c)
    PROVE  /\ Known(r.file, c)
           /\ \/ r.byte = y /\ Upto(r.file, c) \o a = mark
              \/ r.byte = EndOfFile /\ Excused(r.file, c, w)
  <1> DEFINE u == Upto(f, c)
             v == Upto(r.file, c)
  <1>1. /\ c \in Seq(Byte) /\ Begins(c, w) /\ Known(f, c) /\ ComesNext(w, u, <<y>>, a, mark)
        /\ u \in Seq(Byte) /\ Len(<<y>>) = 1
    BY DEF Awaits, Along, ComesNext
  <1>2. /\ Known(r.file, c)
        /\ \/ r.byte = EndOfFile /\ v = u /\ (~r.file.error => v = c)
           \/ r.byte \in Byte /\ v = u \o <<r.byte>>
    BY <1>1, Bytewise
  <1>3. Begins(v, w)
    BY <1>1, <1>2, UptoBegins, BeginsOn
  <1> HIDE DEF u, v
  <1>4. CASE r.byte = EndOfFile /\ v = u /\ (~r.file.error => v = c)
    <2>1. <<>> \in Seq(Byte) /\ Len(<<>>) = 0 /\ u \o <<>> = u
      BY <1>1, EmptySeq, Empties
    <2>2. u # w
      <3>1. Len(<<>>) < Len(<<y>>) /\ Begins(u \o <<>>, w)
        BY <1>1, <1>3, <1>4, <2>1
      <3>2. u \o <<>> # w
        BY <1>1, <2>1, <3>1, ReadsField
      <3> QED
        BY <2>1, <3>2
    <2> QED
      BY <1>2, <1>4, <2>2 DEF Excused
  <1>5. CASE r.byte \in Byte /\ v = u \o <<r.byte>>
    <2> DEFINE x == r.byte
    <2>1. <<x>> \in Seq(Byte) /\ Len(<<x>>) = 1 /\ Begins(u \o <<x>>, w)
      BY <1>3, <1>5
    <2> HIDE DEF x
    <2>2. <<x>> = <<y>> /\ (u \o <<x>>) \o a = mark
      <3> DEFINE b == <<x>>
                 g == <<y>>
      <3>1. /\ b \in Seq(Byte) /\ Len(b) = Len(g) /\ Begins(u \o b, w)
            /\ ComesNext(w, u, g, a, mark)
        BY <1>1, <2>1
      <3> HIDE DEF b, g
      <3>2. b = g /\ (u \o b) \o a = mark
        BY <3>1, ReadsField
      <3> QED
        BY <3>2 DEF b, g
    <2>3. x = y
      BY <2>2
    <2> QED
      BY <1>2, <1>5, <2>2, <2>3 DEF x, v
  <1> QED
    BY <1>2, <1>4, <1>5

(* So is one that is peeked at.                                            *)
LEMMA BytePeeked ==
    ASSUME NEW c, NEW w, NEW f, NEW y \in Byte, NEW a, NEW mark,
           Awaits(c, w, f, <<y>>, a, mark), NEW r \in PeekByte(f, c)
    PROVE  /\ Known(r.file, c) /\ Upto(r.file, c) = Upto(f, c)
           /\ \/ r.byte = y
              \/ /\ r.byte = EndOfFile /\ Excused(r.file, c, w) /\ r.file.buf = <<>>
                 /\ ~r.file.error => Upto(r.file, c) = c
  <1> DEFINE u == Upto(f, c)
  <1>1. /\ c \in Seq(Byte) /\ Begins(c, w) /\ Known(f, c) /\ ComesNext(w, u, <<y>>, a, mark)
        /\ u \in Seq(Byte) /\ Len(<<y>>) = 1
    BY DEF Awaits, Along, ComesNext
  <1>2. /\ Known(r.file, c) /\ Upto(r.file, c) = u
        /\ \/ r.byte = EndOfFile /\ r.file.buf = <<>> /\ (~r.file.error => Upto(r.file, c) = c)
           \/ r.byte \in Byte /\ r.file.buf # <<>> /\ Head(r.file.buf) = r.byte
    BY <1>1, Peeks
  <1>3. Begins(u, w) /\ (r.file.buf # <<>> => Begins(u \o <<Head(r.file.buf)>>, c))
    <2>1. Begins(u, c) /\ (r.file.buf # <<>> => Begins(u \o <<Head(r.file.buf)>>, c))
      BY <1>1, <1>2, UptoBegins
    <2> QED
      BY <1>1, <2>1, BeginsOn
  <1> HIDE DEF u
  <1>4. CASE r.byte = EndOfFile /\ r.file.buf = <<>> /\ (~r.file.error => Upto(r.file, c) = c)
    <2>1. <<>> \in Seq(Byte) /\ Len(<<>>) = 0 /\ u \o <<>> = u
      BY <1>1, EmptySeq, Empties
    <2>2. u \o <<>> # w
      <3>1. Len(<<>>) < Len(<<y>>) /\ Begins(u \o <<>>, w)
        BY <1>1, <1>3, <2>1
      <3> QED
        BY <1>1, <2>1, <3>1, ReadsField
    <2> QED
      BY <1>2, <1>4, <2>1, <2>2 DEF Excused, u
  <1>5. CASE r.byte \in Byte /\ r.file.buf # <<>> /\ Head(r.file.buf) = r.byte
    <2> DEFINE x == r.byte
    <2>1. <<x>> \in Seq(Byte) /\ Len(<<x>>) = 1 /\ Begins(u \o <<x>>, c)
      BY <1>3, <1>5
    <2>2. u \o <<x>> \in Seq(Byte)
      <3> HIDE DEF x
      <3> QED
        BY <1>1, <2>1, ConcatProperties
    <2> HIDE DEF x
    <2>3. Begins(u \o <<x>>, w)
      BY <1>1, <2>1, <2>2, BeginsOn
    <2>4. <<x>> = <<y>>
      <3> DEFINE b == <<x>>
                 g == <<y>>
      <3>1. /\ b \in Seq(Byte) /\ Len(b) = Len(g) /\ Begins(u \o b, w)
            /\ ComesNext(w, u, g, a, mark)
        BY <1>1, <2>1, <2>3
      <3> HIDE DEF b, g
      <3>2. b = g
        BY <3>1, ReadsField
      <3> QED
        BY <3>2 DEF b, g
    <2>5. x = y
      BY <2>4
    <2> QED
      BY <1>2, <2>5 DEF x, u
  <1> QED
    BY <1>2, <1>4, <1>5
-----------------------------------------------------------------------------
(* An entry that is read as it was written.                                *)

(* The reader of c is at f, where e is written between b and z.            *)
Within(c, w, f, e, b, z) == Place(w, e, b, z) /\ Along(c, w) /\ Known(f, c)

(* What of entry e is in x, and what is to come before its body.           *)
AtIndex(e, x, u, b) ==
    /\ e.type # Added /\ x = Fields(e.type, x.index, NoBytes, <<>>, <<>>, 0)
    /\ Lower(x.index, e.index)
    /\ u \o (Varint[Above(e.index, x.index.i)] \o (FieldBytes(e.size) \o e.digest)) = Opening(e, b)
AtSize(e, x, u, b) ==
    /\ e.type # Original /\ x = Fields(e.type, e.index, x.size, <<>>, <<>>, 0)
    /\ Lower(x.size, e.size)
    /\ u \o (Varint[Above(e.size, x.size.i)] \o e.digest) = Opening(e, b)
AtDigest(e, x, u, b) ==
    x = Fields(e.type, e.index, e.size, <<>>, <<>>, 0) /\ u \o e.digest = Opening(e, b)
AtPayload(e, x, u, b) ==
    /\ e.type = Added /\ x = Fields(e.type, e.index, e.size, e.digest, <<>>, 0)
    /\ u = Opening(e, b)

(* A field of no bytes.                                                    *)
LEMMA NoField == FieldBytes(NoBytes) = <<>>
  BY DEF FieldBytes

(* The tag of an entry, and what its first number is.                      *)
LEMMA TagTaken ==
    ASSUME NEW c, NEW w, NEW f, NEW e, NEW b, NEW z, Within(c, w, f, e, b, z),
           Upto(f, c) = b, NEW r \in ReadByte(f, c)
    PROVE  /\ Known(r.file, c)
           /\ \/ /\ r.byte = e.type
                 /\ IF e.type = Added THEN AtSize(e, NewEntry(e.type), Upto(r.file, c), b)
                    ELSE AtIndex(e, NewEntry(e.type), Upto(r.file, c), b)
              \/ r.byte = EndOfFile /\ Excused(r.file, c, w)
  <1> DEFINE i == FieldBytes(e.index)
             s == FieldBytes(e.size)
             d == e.digest
             m == Opening(e, b)
             t == e.type
             v == Upto(r.file, c)
             n == NewEntry(t)
  <1>1. /\ t \in Byte /\ <<t>> \in Seq(Byte) /\ i \in Seq(Byte) /\ s \o d \in Seq(Byte)
        /\ i \o (s \o d) \in Seq(Byte) /\ m = b \o (<<t>> \o (i \o (s \o d)))
        /\ b \in Seq(Byte) /\ Sound(e)
    BY RecordParts DEF Within, Place, Opening, Start
  <1>2. Begins(m, w)
    BY OpeningPlace DEF Within
  <1>3. ComesNext(w, Upto(f, c), <<t>>, i \o (s \o d), m)
    <2> HIDE DEF i, s, d, m, t
    <2> QED
      BY <1>1, <1>2 DEF ComesNext
  <1>4. Awaits(c, w, f, <<t>>, i \o (s \o d), m)
    BY <1>3 DEF Awaits, Within
  <1>5. /\ Known(r.file, c)
        /\ \/ r.byte = t /\ v \o (i \o (s \o d)) = m
           \/ r.byte = EndOfFile /\ Excused(r.file, c, w)
    <2> HIDE DEF i, s, d, m, t, v
    <2> QED
      BY <1>1, <1>4, ByteTaken DEF v
  <1>6. n = Fields(t, NoBytes, NoBytes, <<>>, <<>>, 0) /\ n.index = NoBytes /\ n.size = NoBytes
        /\ NoBytes.i = 0
    BY DEF NewEntry, Fields, NoBytes
  <1>7. ASSUME v \o (i \o (s \o d)) = m, t = Added PROVE AtSize(e, n, v, b)
    <2>1. e.index = NoBytes /\ WordNumber(e.size) /\ t # Original
      BY <1>1, <1>7 DEF Sound, Original, Added
    <2>2. PICK k \in 0 .. WordSize - 1 : e.size = Number(k)
      BY <2>1 DEF WordNumber
    <2>3. Lower(NoBytes, e.size) /\ s = Varint[Above(e.size, 0)]
      BY <2>2, LowerStarts
    <2>4. i \o (s \o d) = s \o d
      <3>1. i = <<>>
        BY <2>1, NoField
      <3> HIDE DEF i, s, d
      <3> QED
        BY <1>1, <3>1, Empties
    <2>5. v \o (s \o d) = m
      <3> HIDE DEF i, s, d, v, m
      <3> QED
        BY <1>7, <2>4
    <2>6. v \o (Varint[Above(e.size, n.size.i)] \o d) = m
      <3> HIDE DEF d, v, m
      <3> QED
        BY <1>6, <2>3, <2>5
    <2> HIDE DEF n, v
    <2> QED
      BY <1>6, <2>1, <2>3, <2>6 DEF AtSize
  <1>8. ASSUME v \o (i \o (s \o d)) = m, t # Added PROVE AtIndex(e, n, v, b)
    <2>1. WordNumber(e.index)
      BY <1>1, <1>8 DEF Sound
    <2>2. PICK k \in 0 .. WordSize - 1 : e.index = Number(k)
      BY <2>1 DEF WordNumber
    <2>3. Lower(NoBytes, e.index) /\ i = Varint[Above(e.index, 0)]
      BY <2>2, LowerStarts
    <2>4. v \o (Varint[Above(e.index, n.index.i)] \o (s \o d)) = m
      <3> HIDE DEF s, d, v, m
      <3> QED
        BY <1>6, <1>8, <2>3
    <2> HIDE DEF n, v
    <2> QED
      BY <1>6, <1>8, <2>3, <2>4 DEF AtIndex
  <1> HIDE DEF i, s, d, m, v, n
  <1> QED
    BY <1>5, <1>7, <1>8 DEF v, n

(* The next byte of number n is at f, of which x has been read; the bytes  *)
(* after it are `tail`.                                                    *)
Numbered(c, w, f, n, x, tail, mark) ==
    /\ Along(c, w) /\ Known(f, c) /\ WordNumber(n) /\ Lower(x, n) /\ x.i \in 0 .. MaxBytes - 1
    /\ tail \in Seq(Byte) /\ Begins(mark, w)
    /\ Upto(f, c) \o (Varint[Above(n, x.i)] \o tail) = mark

(* With the byte that is read it is one further.                           *)
Counted(c, w, n, x, tail, mark, r) ==
    /\ Known(r.file, c)
    /\ \/ r.byte \in Byte /\ \E rest \in Seq(Byte) :
             Continued(x, n, r.byte, rest) /\ Upto(r.file, c) \o (rest \o tail) = mark
       \/ r.byte = EndOfFile /\ Excused(r.file, c, w)

(* A byte of a number.                                                     *)
LEMMA NumberTaken ==
    ASSUME NEW c, NEW w, NEW f, NEW n, NEW x, NEW tail, NEW mark,
           Numbered(c, w, f, n, x, tail, mark), NEW r \in ReadByte(f, c)
    PROVE  Counted(c, w, n, x, tail, mark, r)
  <1>0. /\ Along(c, w) /\ Known(f, c) /\ WordNumber(n) /\ Lower(x, n) /\ x.i \in 0 .. MaxBytes - 1
        /\ tail \in Seq(Byte) /\ Begins(mark, w)
        /\ Upto(f, c) \o (Varint[Above(n, x.i)] \o tail) = mark
    BY DEF Numbered
  <1>1. PICK v \in 0 .. WordSize - 1 : n = Number(v)
    BY <1>0 DEF WordNumber
  <1>2. PICK b \in Byte, rest \in Seq(Byte) :
           Varint[Above(n, x.i)] = <<b>> \o rest /\ Continued(x, n, b, rest)
    BY <1>0, <1>1, NumberNext
  <1> DEFINE u == Upto(f, c)
             g == <<b>>
             a == rest \o tail
  <1>3. u \in Seq(Byte) /\ g \in Seq(Byte)
    <2>1. u \in Seq(Byte)
      BY <1>0, UptoBegins DEF Along
    <2> QED
      BY <1>2, <2>1
  <1>4. /\ g \in Seq(Byte) /\ a \in Seq(Byte) /\ u \in Seq(Byte)
        /\ u \o ((g \o rest) \o tail) = mark
    <2> HIDE DEF g, u
    <2> QED
      BY <1>0, <1>2, <1>3, ConcatProperties DEF u, g
  <1>5. u \o (g \o a) = mark
    <2> HIDE DEF g, u
    <2>1. (g \o rest) \o tail = g \o (rest \o tail)
      BY SMTT(60), <1>2, <1>4, ConcatAssociative
    <2> QED
      BY <1>4, <2>1
  <1>6. Awaits(c, w, f, g, a, mark)
    <2> HIDE DEF g, a
    <2> QED
      BY <1>0, <1>4, <1>5 DEF Awaits, ComesNext, u
  <1> HIDE DEF a
  <1>7. /\ Known(r.file, c)
        /\ \/ r.byte = b /\ Upto(r.file, c) \o a = mark
           \/ r.byte = EndOfFile /\ Excused(r.file, c, w)
    BY <1>6, ByteTaken
  <1> QED
    BY <1>2, <1>7 DEF a, Counted

(* The index of an entry, and what comes after it.                         *)
LEMMA IndexTaken ==
    ASSUME NEW c, NEW w, NEW f, NEW e, NEW b, NEW z, Within(c, w, f, e, b, z), NEW x,
           AtIndex(e, x, Upto(f, c), b), x.index.i \in 0 .. MaxBytes - 1, NEW r \in ReadByte(f, c)
    PROVE  /\ Known(r.file, c)
           /\ \/ LET y == [x EXCEPT !.index = AddGroup(x.index, r.byte)]
                     v == Upto(r.file, c)
                 IN  /\ r.byte \in Byte /\ ~Oversized(x.index, r.byte)
                     /\ ~(More(r.byte) /\ x.index.i = MaxBytes - 1)
                     /\ IF More(r.byte) THEN AtIndex(e, y, v, b)
                        ELSE IF e.type = Original THEN AtDigest(e, y, v, b)
                        ELSE AtSize(e, y, v, b)
              \/ r.byte = EndOfFile /\ Excused(r.file, c, w)
  <1> DEFINE n == e.index
             s == FieldBytes(e.size)
             d == e.digest
             tail == s \o d
             m == Opening(e, b)
             v == Upto(r.file, c)
             a == AddGroup(x.index, r.byte)
             y == [x EXCEPT !.index = a]
  <1>1. /\ e.type # Added /\ x = Fields(e.type, x.index, NoBytes, <<>>, <<>>, 0)
        /\ Lower(x.index, n) /\ Upto(f, c) \o (Varint[Above(n, x.index.i)] \o tail) = m
    BY DEF AtIndex
  <1>2. /\ Sound(e) /\ tail \in Seq(Byte) /\ d \in Seq(Byte) /\ WordNumber(n) /\ Along(c, w) /\ Known(f, c)
    BY <1>1, RecordParts DEF Within, Place, Sound
  <1>3. Begins(m, w)
    BY OpeningPlace DEF Within
  <1> HIDE DEF n, m
  <1>4. /\ Known(r.file, c)
        /\ \/ r.byte \in Byte /\ \E rest \in Seq(Byte) :
                 Continued(x.index, n, r.byte, rest) /\ v \o (rest \o tail) = m
           \/ r.byte = EndOfFile /\ Excused(r.file, c, w)
    <2> DEFINE t == tail
               q == x.index
    <2>1. /\ t \in Seq(Byte) /\ Upto(f, c) \o (Varint[Above(n, q.i)] \o t) = m
          /\ Lower(q, n) /\ q.i \in 0 .. MaxBytes - 1
      BY <1>1, <1>2
    <2> HIDE DEF t, q
    <2>2. Numbered(c, w, f, n, q, t, m)
      BY <1>2, <1>3, <2>1 DEF Numbered
    <2>3. Counted(c, w, n, q, t, m, r)
      BY <2>2, NumberTaken
    <2> QED
      BY <2>3 DEF t, q, Counted
  <1>5. CASE r.byte = EndOfFile /\ Excused(r.file, c, w)
    BY <1>4, <1>5
  <1>6. CASE r.byte \in Byte /\ \E rest \in Seq(Byte) :
                 Continued(x.index, n, r.byte, rest) /\ v \o (rest \o tail) = m
    <2>1. PICK rest \in Seq(Byte) :
             Continued(x.index, n, r.byte, rest) /\ v \o (rest \o tail) = m
      BY <1>6
    <2>2. /\ ~Oversized(x.index, r.byte) /\ ~(More(r.byte) /\ x.index.i = MaxBytes - 1)
          /\ IF More(r.byte) THEN Lower(a, n) /\ rest = Varint[Above(n, x.index.i + 1)]
             ELSE a = n /\ rest = <<>>
      BY <2>1 DEF Continued
    <2>3. a.i = x.index.i + 1
      BY DEF AddGroup
    <2> HIDE DEF a, tail, v, d, s
    <2>4. y = Fields(e.type, a, NoBytes, <<>>, <<>>, 0) /\ y.index = a /\ y.size = NoBytes
      BY SMTT(60), <1>1 DEF Fields
    <2> HIDE DEF y
    <2>5. ASSUME More(r.byte) PROVE AtIndex(e, y, v, b)
      <3>1. v \o (Varint[Above(n, y.index.i)] \o tail) = m
        BY <2>1, <2>2, <2>3, <2>4, <2>5
      <3> QED
        BY <1>1, <2>2, <2>4, <2>5, <3>1 DEF AtIndex, n, tail, s, d, m
    <2>6. ASSUME ~More(r.byte) PROVE v \o tail = m /\ a = n
      <3>1. rest = <<>> /\ a = n
        BY <2>2, <2>6
      <3> QED
        BY <1>2, <2>1, <3>1, Empties
    <2>7. ASSUME ~More(r.byte), e.type = Original PROVE AtDigest(e, y, v, b)
      <3>1. e.size = NoBytes
        BY <1>2, <2>7 DEF Sound
      <3>2. s = <<>>
        BY <3>1, NoField DEF s
      <3>3. tail = d
        BY SMTT(60), <1>2, <3>2, Empties DEF tail
      <3> QED
        BY <2>4, <2>6, <2>7, <3>1, <3>3 DEF AtDigest, n, d, m
    <2>8. ASSUME ~More(r.byte), e.type # Original PROVE AtSize(e, y, v, b)
      <3>1. WordNumber(e.size)
        BY <1>2, <2>8 DEF Sound
      <3>2. PICK k \in 0 .. WordSize - 1 : e.size = Number(k)
        BY <3>1 DEF WordNumber
      <3>3. Lower(NoBytes, e.size) /\ s = Varint[Above(e.size, 0)]
        BY <3>2, LowerStarts DEF s
      <3>4. y.size.i = 0
        BY <2>4 DEF NoBytes
      <3>5. v \o (Varint[Above(e.size, y.size.i)] \o d) = m
        BY <2>6, <2>8, <3>3, <3>4 DEF tail
      <3>6. y = Fields(e.type, e.index, y.size, <<>>, <<>>, 0)
        BY <2>4, <2>6, <2>8 DEF n
      <3> QED
        BY <2>4, <2>8, <3>3, <3>5, <3>6 DEF AtSize, d, m
    <2> QED
      BY <1>4, <1>6, <2>2, <2>5, <2>7, <2>8 DEF y, a, v
  <1> QED
    BY <1>4, <1>5, <1>6

(* The size of one.                                                        *)
LEMMA SizeTaken ==
    ASSUME NEW c, NEW w, NEW f, NEW e, NEW b, NEW z, Within(c, w, f, e, b, z), NEW x,
           AtSize(e, x, Upto(f, c), b), x.size.i \in 0 .. MaxBytes - 1, NEW r \in ReadByte(f, c)
    PROVE  /\ Known(r.file, c)
           /\ \/ LET y == [x EXCEPT !.size = AddGroup(x.size, r.byte)]
                     v == Upto(r.file, c)
                 IN  /\ r.byte \in Byte /\ ~Oversized(x.size, r.byte)
                     /\ ~(More(r.byte) /\ x.size.i = MaxBytes - 1)
                     /\ IF More(r.byte) THEN AtSize(e, y, v, b)
                        ELSE AtDigest(e, y, v, b) /\ y.size = e.size /\ ~TooLarge(e.size.value)
              \/ r.byte = EndOfFile /\ Excused(r.file, c, w)
  <1> DEFINE n == e.size
             d == e.digest
             m == Opening(e, b)
             v == Upto(r.file, c)
             a == AddGroup(x.size, r.byte)
             y == [x EXCEPT !.size = a]
  <1>1. /\ e.type # Original /\ x = Fields(e.type, e.index, x.size, <<>>, <<>>, 0)
        /\ Lower(x.size, n) /\ Upto(f, c) \o (Varint[Above(n, x.size.i)] \o d) = m
    BY DEF AtSize
  <1>2. /\ d \in Seq(Byte) /\ WordNumber(n) /\ n.value <= MaxChunk /\ Along(c, w) /\ Known(f, c)
    BY <1>1 DEF Within, Place, Sound
  <1>3. Begins(m, w)
    BY OpeningPlace DEF Within
  <1> HIDE DEF n, m, d
  <1>4. /\ Known(r.file, c)
        /\ \/ r.byte \in Byte /\ \E rest \in Seq(Byte) :
                 Continued(x.size, n, r.byte, rest) /\ v \o (rest \o d) = m
           \/ r.byte = EndOfFile /\ Excused(r.file, c, w)
    <2> DEFINE q == x.size
    <2>1. /\ Upto(f, c) \o (Varint[Above(n, q.i)] \o d) = m
          /\ Lower(q, n) /\ q.i \in 0 .. MaxBytes - 1
      BY <1>1
    <2> HIDE DEF q
    <2>2. Numbered(c, w, f, n, q, d, m)
      BY <1>2, <1>3, <2>1 DEF Numbered
    <2>3. Counted(c, w, n, q, d, m, r)
      BY <2>2, NumberTaken
    <2> QED
      BY <2>3 DEF q, Counted
  <1>5. CASE r.byte = EndOfFile /\ Excused(r.file, c, w)
    BY <1>4, <1>5
  <1>6. CASE r.byte \in Byte /\ \E rest \in Seq(Byte) :
                 Continued(x.size, n, r.byte, rest) /\ v \o (rest \o d) = m
    <2>1. PICK rest \in Seq(Byte) :
             Continued(x.size, n, r.byte, rest) /\ v \o (rest \o d) = m
      BY <1>6
    <2>2. /\ ~Oversized(x.size, r.byte) /\ ~(More(r.byte) /\ x.size.i = MaxBytes - 1)
          /\ IF More(r.byte) THEN Lower(a, n) /\ rest = Varint[Above(n, x.size.i + 1)]
             ELSE a = n /\ rest = <<>>
      BY <2>1 DEF Continued
    <2>3. a.i = x.size.i + 1
      BY DEF AddGroup
    <2> HIDE DEF a, v
    <2>4. y = Fields(e.type, e.index, a, <<>>, <<>>, 0) /\ y.size = a
      BY SMTT(60), <1>1 DEF Fields
    <2> HIDE DEF y
    <2>5. ASSUME More(r.byte) PROVE AtSize(e, y, v, b)
      <3>1. v \o (Varint[Above(n, y.size.i)] \o d) = m
        BY <2>1, <2>2, <2>3, <2>4, <2>5
      <3> QED
        BY <1>1, <2>2, <2>4, <2>5, <3>1 DEF AtSize, n, d, m
    <2>6. ASSUME ~More(r.byte) PROVE AtDigest(e, y, v, b) /\ y.size = e.size
      <3>1. rest = <<>> /\ a = n
        BY <2>2, <2>6
      <3>2. v \o d = m
        BY <1>2, <2>1, <3>1, Empties
      <3> QED
        BY <2>4, <3>1, <3>2 DEF AtDigest, n, d, m
    <2>7. ~TooLarge(e.size.value)
      <3>1. PICK k \in 0 .. WordSize - 1 : n = Number(k)
        BY <1>2 DEF WordNumber
      <3>2. k \in Nat /\ n.value = k /\ MaxChunk \in Nat
        BY <3>1, ByteType, LayoutAssumption DEF Number
      <3> QED
        BY <1>2, <3>2 DEF TooLarge, n
    <2> QED
      BY <1>4, <1>6, <2>2, <2>5, <2>6, <2>7 DEF y, a, v
  <1> QED
    BY <1>4, <1>5, <1>6

(* Its digest; an entry without a body is complete.                        *)
LEMMA DigestTaken ==
    ASSUME NEW c, NEW w, NEW f, NEW e, NEW b, NEW z, Within(c, w, f, e, b, z), NEW x,
           AtDigest(e, x, Upto(f, c), b), NEW r \in ReadChunk(f, c, DigestBytes)
    PROVE  /\ Known(r.file, c)
           /\ \/ LET y == [x EXCEPT !.digest = r.bytes]
                     v == Upto(r.file, c)
                 IN  /\ ~(Len(r.bytes) < DigestBytes) /\ v = Opening(e, b)
                     /\ y = Fields(e.type, e.index, e.size, e.digest, <<>>, 0)
                     /\ e.type = Original => y = e /\ v = z
              \/ Len(r.bytes) < DigestBytes /\ Excused(r.file, c, w)
  <1> DEFINE d == e.digest
             m == Opening(e, b)
             u == Upto(f, c)
             v == Upto(r.file, c)
             y == [x EXCEPT !.digest = r.bytes]
  <1>1. /\ x = Fields(e.type, e.index, e.size, <<>>, <<>>, 0) /\ u \o d = m
    BY DEF AtDigest
  <1>2. Begins(m, w) /\ m \in Seq(Byte) /\ z = m \o BodyBytes(e)
    BY OpeningPlace DEF Within
  <1>3. Awaits(c, w, f, d, <<>>, m)
    <2>1. /\ Along(c, w) /\ Known(f, c) /\ d \in Seq(Byte) /\ u \in Seq(Byte)
      BY UptoBegins DEF Within, Place, Sound, Along
    <2> HIDE DEF d, m, u
    <2> QED
      BY <1>1, <1>2, <2>1, Empties DEF Awaits, ComesNext, u
  <1>4. /\ Known(r.file, c) /\ Len(r.bytes) \in Nat /\ Len(d) = DigestBytes /\ DigestBytes \in Nat
        /\ \/ r.bytes = d /\ v \o <<>> = m
           \/ Len(r.bytes) < Len(d) /\ Excused(r.file, c, w)
    <2>1. Sound(e)
      BY DEF Within, Place
    <2>2. Len(d) = DigestBytes /\ DigestBytes \in Nat
      BY <2>1, LayoutAssumption DEF Sound
    <2> HIDE DEF d, m
    <2> QED
      BY <1>3, <2>2, FieldTaken
  <1>5. CASE Len(r.bytes) < Len(d) /\ Excused(r.file, c, w)
    BY <1>4, <1>5
  <1>6. CASE r.bytes = d /\ v \o <<>> = m
    <2>1. v \in Seq(Byte)
      BY <1>4, UptoBegins DEF Within, Along
    <2>2. v = m
      BY <1>6, <2>1, Empties
    <2>3. y = Fields(e.type, e.index, e.size, d, <<>>, 0)
      BY <1>1, <1>6 DEF Fields
    <2>4. ASSUME e.type = Original PROVE y = e /\ m = z
      <3>1. Sound(e)
        BY DEF Within, Place
      <3>2. e.body \in Seq(Byte) /\ Len(e.body) = 0 /\ e.diff = 0
            /\ e = Fields(e.type, e.index, e.size, d, e.body, e.diff)
        BY <2>4, <3>1 DEF Sound, Original, Added, Modified, Fields
      <3>3. e.body = <<>>
        BY <3>2, EmptySeq
      <3>4. BodyBytes(e) = <<>>
        BY <2>4, <3>3 DEF BodyBytes, Original, Modified
      <3> HIDE DEF m, y
      <3> QED
        BY <1>2, <2>3, <3>2, <3>3, <3>4, Empties
    <2>5. ~(Len(r.bytes) < DigestBytes)
      BY <1>4, <1>6
    <2> HIDE DEF m, v, y
    <2> QED
      BY <1>4, <2>2, <2>3, <2>4, <2>5 DEF m, v, y, d
  <1> QED
    BY <1>4, <1>5, <1>6

(* Its payload.                                                            *)
LEMMA PayloadTaken ==
    ASSUME NEW c, NEW w, NEW f, NEW e, NEW b, NEW z, Within(c, w, f, e, b, z), NEW x,
           AtPayload(e, x, Upto(f, c), b), NEW r \in ReadChunk(f, c, x.size.value)
    PROVE  /\ Known(r.file, c)
           /\ \/ /\ ~(Len(r.bytes) < x.size.value)
                 /\ [x EXCEPT !.body = r.bytes] = e /\ Upto(r.file, c) = z
              \/ Len(r.bytes) < x.size.value /\ Excused(r.file, c, w)
  <1> DEFINE d == e.body
             m == Opening(e, b)
             u == Upto(f, c)
             v == Upto(r.file, c)
             y == [x EXCEPT !.body = r.bytes]
  <1>1. /\ e.type = Added /\ x = Fields(e.type, e.index, e.size, e.digest, <<>>, 0) /\ u = m
    BY DEF AtPayload
  <1>2. /\ d \in Seq(Byte) /\ Len(d) = e.size.value /\ e.diff = 0 /\ BodyBytes(e) = d
        /\ e = Fields(e.type, e.index, e.size, e.digest, d, e.diff)
    BY <1>1 DEF Within, Place, Sound, Added, Modified, BodyBytes, Fields
  <1>3. m \in Seq(Byte) /\ z = m \o d /\ z \in Seq(Byte) /\ Begins(z, w)
    BY <1>2, OpeningPlace DEF Within, Place
  <1>4. Awaits(c, w, f, d, <<>>, z)
    <2>1. Along(c, w) /\ Known(f, c) /\ <<>> \in Seq(Byte) /\ d \o <<>> = d
      BY <1>2, Empties DEF Within
    <2> HIDE DEF d, m, u
    <2> QED
      BY <1>1, <1>2, <1>3, <2>1 DEF Awaits, ComesNext, u
  <1>5. x.size.value = Len(d)
    BY <1>1, <1>2 DEF Fields
  <1> HIDE DEF d
  <1>6. /\ Known(r.file, c) /\ Len(r.bytes) \in Nat /\ Len(d) \in Nat
        /\ \/ r.bytes = d /\ v \o <<>> = z
           \/ Len(r.bytes) < Len(d) /\ Excused(r.file, c, w)
    BY <1>4, <1>5, FieldTaken
  <1>7. CASE Len(r.bytes) < Len(d) /\ Excused(r.file, c, w)
    BY <1>5, <1>6, <1>7
  <1>8. CASE r.bytes = d /\ v \o <<>> = z
    <2>1. v \in Seq(Byte)
      BY <1>6, UptoBegins DEF Within, Along
    <2>2. v = z
      BY <1>8, <2>1, Empties
    <2>3. y = Fields(e.type, e.index, e.size, e.digest, d, 0)
      BY <1>1, <1>8 DEF Fields
    <2>4. y = e
      BY <1>2, <2>3
    <2>5. ~(Len(r.bytes) < x.size.value)
      BY <1>5, <1>6, <1>8
    <2> QED
      BY <1>6, <2>2, <2>4, <2>5
  <1> QED
    BY <1>6, <1>7, <1>8

-----------------------------------------------------------------------------
(* An opcode that is read as it was written.                               *)

(* The reader of c is at f, where the k-th opcode of e has ended.          *)
AtRun(c, w, f, e, b, z, k) ==
    Within(c, w, f, e, b, z) /\ e.type = Modified /\ k \in 0 .. Len(e.body) - 1

(* What is known of the next one.                                          *)
LEMMA RunPlace ==
    ASSUME NEW c, NEW w, NEW f, NEW e, NEW b, NEW z, NEW k, AtRun(c, w, f, e, b, z, k)
    PROVE  /\ Along(c, w) /\ Known(f, c) /\ Upto(f, c) \in Seq(Byte)
           /\ k \in Nat /\ k < Len(e.body) /\ k + 1 \in 0 .. Len(e.body) /\ k \in 0 .. Len(e.body)
           /\ Plain(e.body[k + 1]) /\ Ran(e, b, k) \in Seq(Byte)
           /\ Ran(e, b, k + 1) = Ran(e, b, k) \o OpcodeBytes(e.body[k + 1])
           /\ Begins(Ran(e, b, k + 1), w)
  <1>1. Place(w, e, b, z) /\ Along(c, w) /\ Known(f, c) /\ e.type = Modified
        /\ k \in 0 .. Len(e.body) - 1
    BY DEF AtRun, Within
  <1>2. e.body \in Seq(OpType)
    BY <1>1 DEF Place, Sound, Original, Added, Modified
  <1>3. Len(e.body) \in Nat
    BY <1>2, LenProperties
  <1>4. k \in Nat /\ k < Len(e.body) /\ k + 1 \in 0 .. Len(e.body) /\ k \in 0 .. Len(e.body)
    BY <1>1, <1>3
  <1>5. Upto(f, c) \in Seq(Byte)
    BY <1>1, UptoBegins DEF Along
  <1> QED
    BY <1>1, <1>4, <1>5, RanNext, RanBegins

(* Its tag comes next, and then its fields.                                *)
LEMMA OpcodeComes ==
    ASSUME NEW c, NEW w, NEW f, NEW e, NEW b, NEW z, NEW k, AtRun(c, w, f, e, b, z, k),
           Upto(f, c) = Ran(e, b, k)
    PROVE  LET y == e.body[k + 1]
           IN  /\ OpTag[y.op] \in Byte
               /\ Awaits(c, w, f, <<OpTag[y.op]>>, Fixed(y.pos) \o Rest(y), Ran(e, b, k + 1))
  <1> DEFINE y == e.body[k + 1]
             t == OpTag[y.op]
             a == Fixed(y.pos) \o Rest(y)
             m == Ran(e, b, k + 1)
             u == Upto(f, c)
  <1>1. /\ Along(c, w) /\ Known(f, c) /\ u \in Seq(Byte) /\ Plain(y)
        /\ m = u \o OpcodeBytes(y) /\ Begins(m, w)
    BY RunPlace
  <1> HIDE DEF y
  <1>2. t \in Byte /\ <<t>> \in Seq(Byte) /\ a \in Seq(Byte) /\ OpcodeBytes(y) = <<t>> \o a
    BY <1>1, OpcodeParts
  <1> HIDE DEF t, a, m, u
  <1>3. Awaits(c, w, f, <<t>>, a, m)
    <2> DEFINE g == <<t>>
    <2>1. g \in Seq(Byte) /\ u \o (g \o a) = m
      BY <1>1, <1>2
    <2> HIDE DEF g
    <2> QED
      BY <1>1, <1>2, <2>1 DEF Awaits, ComesNext, u, g
  <1> QED
    BY <1>2, <1>3 DEF y, t, a, m

(* A field of an opcode: g is read, a is left.                             *)
Leaves(c, w, r, g, a, m) ==
    /\ Known(r.file, c) /\ Len(r.bytes) \in Nat /\ Len(g) \in Nat
    /\ \/ r.bytes = g /\ Upto(r.file, c) \o a = m
       \/ Len(r.bytes) < Len(g) /\ Excused(r.file, c, w)

(* What is left of the k-th opcode of e is a.                              *)
Left(u, e, b, k, a) == u \o a = Ran(e, b, k + 1)

(* Its position.                                                           *)
LEMMA PosTaken ==
    ASSUME NEW c, NEW w, NEW f, NEW e, NEW b, NEW z, NEW k, AtRun(c, w, f, e, b, z, k), NEW y,
           y = e.body[k + 1], Left(Upto(f, c), e, b, k, Fixed(y.pos) \o Rest(y)),
           NEW r \in ReadChunk(f, c, FixedBytes)
    PROVE  /\ Known(r.file, c)
           /\ \/ /\ ~(Len(r.bytes) < FixedBytes) /\ LoadFixed(r.bytes) = y.pos
                 /\ Left(Upto(r.file, c), e, b, k, Rest(y))
              \/ Len(r.bytes) < FixedBytes /\ Excused(r.file, c, w)
  <1> DEFINE g == Fixed(y.pos)
             a == Rest(y)
             m == Ran(e, b, k + 1)
             u == Upto(f, c)
  <1>1. /\ Along(c, w) /\ Known(f, c) /\ u \in Seq(Byte) /\ Plain(y) /\ Begins(m, w)
    BY RunPlace
  <1>2. g \in Seq(Byte) /\ Len(g) = FixedBytes /\ a \in Seq(Byte)
    BY <1>1, OpcodeParts
  <1>3. LoadFixed(g) = y.pos
    BY <1>1, LoadsFixed DEF Plain, OpType
  <1> HIDE DEF g, a, m
  <1>4. Awaits(c, w, f, g, a, m)
    <2>1. u \o (g \o a) = m
      BY DEF g, a, m, Left
    <2> QED
      BY <1>1, <1>2, <2>1 DEF Awaits, ComesNext
  <1>5. Leaves(c, w, r, g, a, m)
    BY <1>2, <1>4, FieldTaken DEF Leaves
  <1> QED
    BY <1>2, <1>3, <1>5 DEF Leaves, a, m, Left

(* What was read of an opcode, with its last field.                        *)
WithDel(o, d)   == [Opcode(o.op, o.pos, <<>>, 0) EXCEPT !.del = d]
WithBytes(o, s) == [Opcode(o.op, o.pos, <<>>, 0) EXCEPT !.bytes = s]

(* The length of a deletion, with which it is complete.                    *)
LEMMA LengthTaken ==
    ASSUME NEW c, NEW w, NEW f, NEW e, NEW b, NEW z, NEW k, AtRun(c, w, f, e, b, z, k), NEW y,
           y = e.body[k + 1], y.op = "X", Left(Upto(f, c), e, b, k, Rest(y)),
           NEW r \in ReadChunk(f, c, FixedBytes)
    PROVE  /\ Known(r.file, c)
           /\ \/ /\ ~(Len(r.bytes) < FixedBytes)
                 /\ WithDel(y, LoadFixed(r.bytes)) = y
                 /\ Upto(r.file, c) = Ran(e, b, k + 1)
              \/ Len(r.bytes) < FixedBytes /\ Excused(r.file, c, w)
  <1> DEFINE g == Fixed(y.del)
             m == Ran(e, b, k + 1)
             u == Upto(f, c)
  <1>1. /\ Along(c, w) /\ Known(f, c) /\ u \in Seq(Byte) /\ Plain(y) /\ Begins(m, w)
    BY RunPlace
  <1>2. g \in Seq(Byte) /\ Len(g) = FixedBytes /\ Rest(y) = g
    BY <1>1, OpcodeParts DEF Rest
  <1>3. LoadFixed(g) = y.del
    BY <1>1, LoadsFixed DEF Plain, OpType
  <1>4. WithDel(y, y.del) = y
    BY <1>1 DEF Plain, Opcode, WithDel
  <1> HIDE DEF g, m
  <1>5. Awaits(c, w, f, g, <<>>, m)
    <2>1. u \o (g \o <<>>) = m /\ <<>> \in Seq(Byte)
      BY <1>2, Empties DEF m, Left
    <2> QED
      BY <1>1, <1>2, <2>1 DEF Awaits, ComesNext
  <1>6. Leaves(c, w, r, g, <<>>, m)
    BY <1>2, <1>5, FieldTaken DEF Leaves
  <1>7. ASSUME r.bytes = g, Upto(r.file, c) \o <<>> = m PROVE Upto(r.file, c) = m
    <2>1. Upto(r.file, c) \in Seq(Byte)
      BY <1>1, <1>6, UptoBegins DEF Leaves, Along
    <2> QED
      BY <1>7, <2>1, Empties
  <1> QED
    BY <1>2, <1>3, <1>4, <1>6, <1>7 DEF Leaves, m

(* The count of inline bytes.                                              *)
LEMMA CountTaken ==
    ASSUME NEW c, NEW w, NEW f, NEW e, NEW b, NEW z, NEW k, AtRun(c, w, f, e, b, z, k), NEW y,
           y = e.body[k + 1], y.op # "X", Left(Upto(f, c), e, b, k, Rest(y)),
           NEW r \in ReadByte(f, c)
    PROVE  /\ Known(r.file, c)
           /\ \/ r.byte = Len(y.bytes) /\ Left(Upto(r.file, c), e, b, k, y.bytes)
              \/ r.byte = EndOfFile /\ Excused(r.file, c, w)
  <1> DEFINE n == Len(y.bytes)
             g == <<n>>
             a == y.bytes
             m == Ran(e, b, k + 1)
             u == Upto(f, c)
  <1>1. /\ Along(c, w) /\ Known(f, c) /\ u \in Seq(Byte) /\ Plain(y) /\ Begins(m, w)
    BY RunPlace
  <1>2. n \in Byte /\ g \in Seq(Byte) /\ a \in Seq(Byte) /\ Rest(y) = g \o a
    BY <1>1, OpcodeParts DEF Rest
  <1> HIDE DEF n, g, a, m
  <1>3. Awaits(c, w, f, g, a, m)
    <2>1. u \o (g \o a) = m
      BY <1>2 DEF m, Left
    <2> QED
      BY <1>1, <1>2, <2>1 DEF Awaits, ComesNext
  <1>4. Awaits(c, w, f, <<n>>, a, m)
    BY <1>3 DEF g
  <1>5. /\ Known(r.file, c)
        /\ \/ r.byte = n /\ Upto(r.file, c) \o a = m
           \/ r.byte = EndOfFile /\ Excused(r.file, c, w)
    BY <1>2, <1>4, ByteTaken
  <1> QED
    BY <1>5 DEF n, a, m, Left

(* The bytes themselves.                                                   *)
LEMMA BytesTaken ==
    ASSUME NEW c, NEW w, NEW f, NEW e, NEW b, NEW z, NEW k, AtRun(c, w, f, e, b, z, k), NEW y,
           y = e.body[k + 1], y.op # "X", Left(Upto(f, c), e, b, k, y.bytes),
           NEW r \in ReadChunk(f, c, Len(y.bytes))
    PROVE  /\ Known(r.file, c)
           /\ \/ /\ ~(Len(r.bytes) < Len(y.bytes))
                 /\ WithBytes(y, r.bytes) = y
                 /\ Upto(r.file, c) = Ran(e, b, k + 1)
              \/ Len(r.bytes) < Len(y.bytes) /\ Excused(r.file, c, w)
  <1> DEFINE g == y.bytes
             m == Ran(e, b, k + 1)
             u == Upto(f, c)
  <1>1. /\ Along(c, w) /\ Known(f, c) /\ u \in Seq(Byte) /\ Plain(y) /\ Begins(m, w)
    BY RunPlace
  <1>2. g \in Seq(Byte)
    BY <1>1, OpcodeParts
  <1>3. WithBytes(y, g) = y
    BY <1>1 DEF Plain, Opcode, WithBytes
  <1>4. r \in ReadChunk(f, c, Len(g))
    OBVIOUS
  <1> HIDE DEF g, m
  <1>5. Awaits(c, w, f, g, <<>>, m)
    <2>1. u \o (g \o <<>>) = m /\ <<>> \in Seq(Byte)
      BY <1>2, Empties DEF m, g, Left
    <2> QED
      BY <1>1, <1>2, <2>1 DEF Awaits, ComesNext
  <1>6. Leaves(c, w, r, g, <<>>, m)
    BY <1>4, <1>5, FieldTaken DEF Leaves
  <1>7. ASSUME r.bytes = g, Upto(r.file, c) \o <<>> = m PROVE Upto(r.file, c) = m
    <2>1. Upto(r.file, c) \in Seq(Byte)
      BY <1>1, <1>6, UptoBegins DEF Leaves, Along
    <2> QED
      BY <1>7, <2>1, Empties
  <1> QED
    BY <1>3, <1>6, <1>7 DEF Leaves, m, g

-----------------------------------------------------------------------------
(* One record after the other.                                             *)

(* What is written for entries es and a digest t of the whole.             *)
AllOf(es, t, w) == AllSound(es) /\ t \in Seq(Byte) /\ w = Whole(es, t)

(* Every record begins where the one before it has ended.                  *)
LEMMA RecordPlace ==
    ASSUME NEW es, NEW t, NEW w, AllOf(es, t, w), NEW n \in 0 .. Len(es)
    PROVE  /\ Records(es, n) \in Seq(Byte) /\ Begins(Records(es, n), w)
           /\ n < Len(es) => Place(w, es[n + 1], Records(es, n), Records(es, n + 1))
  <1> DEFINE m == Records(es, Len(es))
  <1>1. AllSound(es) /\ Len(es) \in Nat
    BY DEF AllOf, AllSound
  <1>2. Begins(m, w)
    <2>1. w = m \o (<<TrailerTag>> \o t)
      BY DEF AllOf, Whole, TrailerRecord
    <2>2. <<TrailerTag>> \in Seq(Byte) /\ t \in Seq(Byte)
      BY LayoutAssumption DEF AllOf
    <2>3. <<TrailerTag>> \o t \in Seq(Byte)
      BY <2>2, ConcatProperties
    <2> HIDE DEF m
    <2> QED
      BY <2>1, <2>3 DEF Begins
  <1> HIDE DEF m
  <1>3. ASSUME NEW j \in 0 .. Len(es) PROVE Records(es, j) \in Seq(Byte) /\ Begins(Records(es, j), w)
    <2>1. Records(es, j) \in Seq(Byte)
      BY <1>1, RecordsNext
    <2>2. Begins(Records(es, j), m)
      BY <1>1, RecordsBegin DEF m
    <2> QED
      BY <1>2, <2>1, <2>2, BeginsOn
  <1>4. ASSUME n < Len(es) PROVE Place(w, es[n + 1], Records(es, n), Records(es, n + 1))
    <2>1. n + 1 \in 0 .. Len(es) /\ n + 1 \in 1 .. Len(es)
      BY <1>1, <1>4
    <2>2. Sound(es[n + 1])
      BY <1>1, <2>1 DEF AllSound
    <2>3. Records(es, n + 1) = Records(es, n) \o RecordBytes(es[n + 1])
      BY <1>1, <1>4, RecordsNext
    <2> QED
      BY <1>3, <2>1, <2>2, <2>3 DEF Place
  <1> QED
    BY <1>3, <1>4

(* The tag that comes after the first n records.                           *)
ItemTag(es, n) == IF n < Len(es) THEN es[n + 1].type ELSE TrailerTag

(* It is the tag of no opcode, and that of an entry if there is one.       *)
LEMMA ItemTagType ==
    ASSUME NEW es, AllSound(es), NEW n \in 0 .. Len(es)
    PROVE  /\ ItemTag(es, n) \in Byte /\ ItemTag(es, n) \notin OpTags
           /\ ItemTag(es, n) # EndOfFile
           /\ IF n < Len(es)
              THEN /\ ItemTag(es, n) # TrailerTag
                   /\ ItemTag(es, n) \in 0 .. TypeLimit - 1 /\ es[n + 1].type = ItemTag(es, n)
              ELSE ItemTag(es, n) = TrailerTag
  <1>1. /\ TrailerTag \in Byte \ OpTags
        /\ (0 .. TypeLimit - 1) \cap (OpTags \cup {TrailerTag}) = {}
    BY LayoutAssumption
  <1>2. EndOfFile \notin Byte
    BY ByteType
  <1>3. ASSUME n < Len(es) PROVE es[n + 1].type \in 0 .. TypeLimit - 1 /\ es[n + 1].type \in Byte
    <2>1. n + 1 \in 1 .. Len(es)
      BY <1>3 DEF AllSound
    <2>2. Sound(es[n + 1])
      BY <2>1 DEF AllSound
    <2>3. es[n + 1].type \in Byte /\ es[n + 1].type \in {0, 1, 2}
      BY <2>2, RecordParts DEF Sound, Original, Added, Modified
    <2> QED
      BY <2>3 DEF TypeLimit
  <1> QED
    BY <1>1, <1>2, <1>3 DEF ItemTag

(* It comes next.                                                          *)
LEMMA ItemComes ==
    ASSUME NEW es, NEW t, NEW w, AllOf(es, t, w), NEW n \in 0 .. Len(es),
           NEW c, NEW f, Along(c, w), Known(f, c), Upto(f, c) = Records(es, n)
    PROVE  \E a, mark : Awaits(c, w, f, <<ItemTag(es, n)>>, a, mark)
  <1> DEFINE b == Records(es, n)
             e == es[n + 1]
             i == FieldBytes(e.index) \o (FieldBytes(e.size) \o e.digest)
             m == Opening(e, b)
  <1>1. /\ b \in Seq(Byte) /\ Begins(b, w) /\ AllSound(es) /\ t \in Seq(Byte) /\ Len(es) \in Nat
        /\ n < Len(es) => Place(w, e, b, Records(es, n + 1))
    BY RecordPlace DEF AllOf, AllSound
  <1>2. CASE n < Len(es)
    <2> DEFINE g == <<e.type>>
    <2>1. g \in Seq(Byte) /\ i \in Seq(Byte) /\ m = b \o (g \o i)
      BY <1>1, <1>2, RecordParts DEF Place, Opening, Start
    <2>2. Begins(m, w)
      BY <1>1, <1>2, OpeningPlace
    <2>3. ItemTag(es, n) = e.type
      BY <1>2 DEF ItemTag
    <2> HIDE DEF g, i, m, b
    <2>4. Awaits(c, w, f, g, i, m)
      BY <1>1, <2>1, <2>2 DEF Awaits, ComesNext, b
    <2> QED
      BY <2>3, <2>4 DEF g
  <1>3. CASE ~(n < Len(es))
    <2> DEFINE g == <<TrailerTag>>
    <2>1. n = Len(es) /\ ItemTag(es, n) = TrailerTag
      BY <1>1, <1>3 DEF ItemTag
    <2>2. g \in Seq(Byte) /\ w = b \o (g \o t)
      BY <2>1, LayoutAssumption DEF AllOf, Whole, TrailerRecord
    <2> HIDE DEF g, b
    <2>3. Begins(w, w)
      <3>1. g \o t \in Seq(Byte)
        BY <1>1, <2>2, ConcatProperties
      <3>2. b \o (g \o t) \in Seq(Byte)
        BY <1>1, <3>1, ConcatProperties
      <3>3. w \o <<>> = w /\ <<>> \in Seq(Byte)
        BY <2>2, <3>2, Empties
      <3> QED
        BY <3>3 DEF Begins
    <2>4. Awaits(c, w, f, g, t, w)
      BY <1>1, <2>2, <2>3 DEF Awaits, ComesNext, b
    <2> QED
      BY <2>1, <2>4 DEF g
  <1> QED
    BY <1>2, <1>3

-----------------------------------------------------------------------------
(* The reader in step with the writer.                                     *)

InRun == {"opcodes", "opcode", "pos", "length", "inline"}

(* The first k opcodes of e are in x; what is to come of the next one.     *)
InBody(e, x, k) ==
    /\ e.type = Modified
    /\ x = Fields(e.type, e.index, e.size, e.digest, SubSeq(e.body, 1, k), x.diff)
AtBody(p, e, o, u, b, k) ==
    LET y == e.body[k + 1]
    IN  /\ p \in {"opcodes", "opcode"} => u = Ran(e, b, k)
        /\ p # "opcodes" => k < Len(e.body)
        /\ p = "pos" => /\ o = Opcode(y.op, 0, <<>>, 0)
                        /\ Left(u, e, b, k, Fixed(y.pos) \o Rest(y))
        /\ p \in {"length", "inline"} => /\ o = Opcode(y.op, y.pos, <<>>, 0)
                                         /\ Left(u, e, b, k, Rest(y))

(* What is known of entry e, written from b on, where the reader is at p.  *)
Entered(p, e, x, o, u, b) ==
    /\ p = "tag" => u = b
    /\ p = "index" => AtIndex(e, x, u, b)
    /\ p = "size" => AtSize(e, x, u, b)
    /\ p = "digest" => AtDigest(e, x, u, b)
    /\ p = "payload" => AtPayload(e, x, u, b)
    /\ p \in InRun =>
          \E k \in 0 .. Len(e.body) : InBody(e, x, k) /\ AtBody(p, e, o, u, b, k)

(* The entries that are listed are the first ones, and what has been read  *)
(* of the next one is how it was written.                                  *)
StepAt(p, es, l, x, o, u) ==
    LET n == Len(l)
    IN  /\ n \in 0 .. Len(es) /\ \A k \in 1 .. n : l[k] = es[k]
        /\ p = "trailer" => n = Len(es)
        /\ p \in {"item", "trailer"} => u = Records(es, n)
        /\ p \notin {"item", "trailer"} =>
              n < Len(es) /\ Entered(p, es[n + 1], x, o, u, Records(es, n))

InStep == StepAt(pc, Written, listed, item, op, Upto(file, content))

(* Nothing more will be read: a run of opcodes ended too early.            *)
Stuck ==
    /\ pc = "item" /\ file.buf = <<>>
    /\ file.error \/ (damage = "cut" /\ Upto(file, content) = content)

AllWritten == Whole(Written, whole)

(* Unless a byte is altered, the reader is in step with the writer up to   *)
(* where a read fails or the delta is cut.                                 *)
LockInv ==
    /\ Len(chunks) <= MaxItems
    /\ pc = "write" => damage = "none" /\ content = Records(Written, Len(Written))
    /\ pc # "write" =>
          /\ whole \in Wholes
          /\ damage # "altered" => Begins(content, AllWritten)
          /\ damage = "none" => content = AllWritten
          /\ damage = "cut" => content # AllWritten
    /\ damage = "cut" => trailer = <<>>
    /\ damage # "altered" /\ pc \in Reading => InStep \/ Stuck
    /\ damage = "none" /\ ~file.error /\ pc \in {"finish", "done"} =>
          listed = Written /\ trailer = whole /\ (pc = "done" => status = 0)

(* The entries that are written for chunks cs.                             *)
Entries(cs) == [k \in DOMAIN cs |-> EntryFor(cs[k], k - 1)]

(* They are entries as the reader expects them.                            *)
LEMMA EntriesSound ==
    ASSUME NEW cs \in Seq(Chunks), Len(cs) <= MaxItems
    PROVE  /\ Entries(cs) \in Seq({EntryFor(cs[k], k - 1) : k \in 1 .. Len(cs)})
           /\ AllSound(Entries(cs)) /\ Len(Entries(cs)) = Len(cs) /\ Len(cs) \in Nat
           /\ \A k \in 1 .. Len(cs) : Entries(cs)[k] = EntryFor(cs[k], k - 1)
  <1> DEFINE n == Len(cs)
             T == {EntryFor(cs[k], k - 1) : k \in 1 .. n}
             w == Entries(cs)
  <1>1. /\ n \in Nat /\ n <= MaxItems /\ MaxItems \in Nat
        /\ DOMAIN cs = 1 .. n /\ \A k \in 1 .. n : cs[k] \in Chunks
    BY ChunkAssumption, LenProperties, ElementOfSeq
  <1>2. w \in [1 .. n -> T] /\ \A k \in 1 .. n : w[k] = EntryFor(cs[k], k - 1)
    BY <1>1 DEF Entries
  <1> HIDE DEF T, n, w
  <1>3. w \in Seq(T) /\ Len(w) = n
    BY <1>1, <1>2, FunctionIsSeq
  <1>4. ASSUME NEW k \in 1 .. n PROVE Sound(w[k])
    <2>1. k - 1 \in 0 .. MaxItems - 1 /\ cs[k] \in Chunks
      BY <1>1
    <2> QED
      BY <1>2, <2>1, EntryIsSound
  <1>5. AllSound(w)
    BY <1>1, <1>3, <1>4 DEF AllSound
  <1> QED
    BY <1>1, <1>2, <1>3, <1>5 DEF T, n, w

(* They are those that are to be listed.                                   *)
LEMMA WrittenSound ==
    ASSUME IInv, LockInv
    PROVE  /\ AllSound(Written) /\ Len(Written) = Len(chunks) /\ Len(Written) \in Nat
           /\ Written = Entries(chunks) /\ \E T : Written \in Seq(T)
  <1>1. chunks \in Seq(Chunks) /\ Len(chunks) <= MaxItems
    BY DEF IInv, FileInv, LockInv
  <1>2. Written = Entries(chunks)
    BY DEF Written, Entries
  <1> QED
    BY <1>1, <1>2, EntriesSound

(* A delta that was written, and perhaps cut.                              *)
LEMMA Setting ==
    ASSUME IInv, ParseInv, LockInv, damage # "altered", pc # "write"
    PROVE  /\ AllOf(Written, whole, AllWritten) /\ Along(content, AllWritten)
           /\ Known(file, content) /\ Len(Written) \in Nat
           /\ damage = "none" => content = AllWritten
  <1>1. whole \in Wholes /\ Begins(content, AllWritten) /\ (damage = "none" => content = AllWritten)
    BY DEF LockInv
  <1>2. whole \in Seq(Byte) /\ content \in Seq(Byte) /\ Known(file, content)
    BY <1>1, ChunkAssumption DEF IInv, FileInv, ParseInv, ReadInv, Known
  <1> QED
    BY <1>1, <1>2, WrittenSound DEF AllOf, Along, AllWritten

(* A step of the reader, however it ends.                                  *)
LEMMA Carries ==
    ASSUME LockInv, pc # "write", pc' # "write", written' = written, trailer' = trailer,
           damage # "altered" =>
              \/ /\ pc' \in Reading
                 /\ \/ StepAt(pc', Written, listed', item', op', Upto(file', content))
                    \/ Stuck'
              \/ /\ pc' \notin Reading
                 /\ damage = "none" /\ pc' \in {"finish", "done"} => file'.error
    PROVE  LockInv'
  <1>1. /\ chunks' = chunks /\ content' = content /\ whole' = whole /\ damage' = damage
    BY DEF written
  <1>2. Written' = Written /\ AllWritten' = AllWritten
    BY <1>1 DEF Written, AllWritten
  <1>3. Upto(file, content)' = Upto(file', content)
    BY <1>1 DEF Upto, Position
  <1>4. StepAt(pc', Written, listed', item', op', Upto(file', content)) => InStep'
    BY <1>2, <1>3 DEF InStep
  <1>5. /\ Len(chunks') <= MaxItems /\ whole' \in Wholes
        /\ damage' # "altered" => Begins(content', AllWritten')
        /\ damage' = "none" => content' = AllWritten'
        /\ damage' = "cut" => content' # AllWritten' /\ trailer' = <<>>
    BY <1>1, <1>2 DEF LockInv
  <1>6. damage' # "altered" /\ pc' \in Reading => InStep' \/ Stuck'
    BY <1>1, <1>4
  <1>7. ~(damage' = "none" /\ ~file'.error /\ pc' \in {"finish", "done"})
    <2>1. "finish" \notin Reading /\ "done" \notin Reading
      BY DEF Reading
    <2> QED
      BY <1>1, <2>1
  <1> QED
    BY <1>5, <1>6, <1>7 DEF LockInv

(* The next entry, and where its record begins and ends.                   *)
Coming == Written[Len(listed) + 1]
Here   == Records(Written, Len(listed))
There  == Records(Written, Len(listed) + 1)

(* Inside an entry.                                                        *)
LEMMA Inside ==
    ASSUME IInv, ParseInv, LockInv, damage # "altered", pc \in Reading \ {"item", "trailer"}
    PROVE  /\ Within(content, AllWritten, file, Coming, Here, There)
           /\ Entered(pc, Coming, item, op, Upto(file, content), Here)
           /\ damage = "none" => content = AllWritten
  <1>1. pc # "write"
    BY DEF Reading
  <1>2. /\ AllOf(Written, whole, AllWritten) /\ Along(content, AllWritten)
        /\ Known(file, content) /\ (damage = "none" => content = AllWritten)
    BY <1>1, Setting
  <1>3. InStep
    BY DEF LockInv, Stuck
  <1>4. /\ Len(listed) \in 0 .. Len(Written) /\ Len(listed) < Len(Written)
        /\ Entered(pc, Coming, item, op, Upto(file, content), Here)
    BY <1>3 DEF InStep, StepAt, Coming, Here
  <1>5. Place(AllWritten, Coming, Here, There)
    BY <1>2, <1>4, RecordPlace DEF Coming, Here, There
  <1> QED
    BY <1>2, <1>4, <1>5 DEF Within

(* A step within the entry.                                                *)
LEMMA Enters ==
    ASSUME IInv, ParseInv, LockInv, pc \in Reading \ {"item", "trailer"},
           pc' \in Reading \ {"item", "trailer"},
           written' = written, trailer' = trailer, listed' = listed,
           damage # "altered" => Entered(pc', Coming, item', op', Upto(file', content), Here)
    PROVE  LockInv'
  <1>1. pc # "write" /\ pc' # "write"
    BY DEF Reading
  <1>2. ASSUME damage # "altered"
        PROVE  StepAt(pc', Written, listed', item', op', Upto(file', content))
    <2>1. InStep
      BY <1>2 DEF LockInv, Stuck
    <2>2. /\ Len(listed) \in 0 .. Len(Written) /\ Len(listed) < Len(Written)
          /\ \A k \in 1 .. Len(listed) : listed[k] = Written[k]
      BY <2>1 DEF InStep, StepAt
    <2> QED
      BY <1>2, <2>2 DEF StepAt, Coming, Here
  <1> QED
    BY <1>1, <1>2, Carries

(* A step that completes it.                                               *)
LEMMA Completes ==
    ASSUME IInv, ParseInv, LockInv, pc \in Reading \ {"item", "trailer"}, pc' = "item",
           written' = written, trailer' = trailer, listed' = Append(listed, item'),
           damage # "altered" => item' = Coming /\ Upto(file', content) = There
    PROVE  LockInv'
  <1>1. pc # "write" /\ pc' # "write" /\ pc' \in Reading
    BY DEF Reading
  <1>2. listed \in Seq(Complete)
    BY DEF ParseInv, EntryInv
  <1>3. ASSUME damage # "altered"
        PROVE  StepAt(pc', Written, listed', item', op', Upto(file', content))
    <2> DEFINE n == Len(listed)
    <2>1. InStep
      BY <1>3 DEF LockInv, Stuck
    <2>2. /\ n \in 0 .. Len(Written) /\ n < Len(Written)
          /\ \A k \in 1 .. n : listed[k] = Written[k]
      BY <2>1 DEF InStep, StepAt
    <2>3. /\ Len(listed') = n + 1 /\ listed'[n + 1] = item'
          /\ \A k \in 1 .. n : listed'[k] = listed[k]
      <3> DEFINE S == Complete \cup {item'}
      <3>1. listed \in Seq(S) /\ item' \in S
        BY <1>2
      <3> HIDE DEF S
      <3> QED
        BY <3>1, AppendProperties
    <2>4. item' = Written[n + 1] /\ Upto(file', content) = Records(Written, n + 1)
      BY <1>3 DEF Coming, There
    <2> HIDE DEF n
    <2>5. Len(Written) \in Nat
      BY WrittenSound
    <2>6. n + 1 \in 0 .. Len(Written) /\ \A k \in 1 .. n + 1 : listed'[k] = Written[k]
      BY <2>2, <2>3, <2>4, <2>5
    <2> QED
      BY <2>3, <2>4, <2>6 DEF StepAt
  <1> QED
    BY <1>1, <1>3, Carries

(* A step that ends in a refusal.                                          *)
LEMMA Fails ==
    ASSUME IInv, ParseInv, LockInv, pc \in Reading \cup {"header"}, pc' \in {"finish", "done"},
           written' = written, trailer' = trailer,
           damage # "altered" => Excused(file', content, AllWritten)
    PROVE  LockInv'
  <1>1. pc # "write" /\ pc' # "write" /\ pc' \notin Reading
    BY DEF Reading
  <1>2. damage = "none" => content = AllWritten
    BY <1>1 DEF LockInv
  <1>3. damage = "none" => file'.error
    BY <1>2 DEF Excused
  <1> QED
    BY <1>1, <1>3, Carries

(* The file is opened, which may fail.                                     *)
LEMMA LockOpen ==
    ASSUME IInv, ParseInv, LockInv, Open
    PROVE  LockInv'
  <1>1. /\ pc = "stored" /\ written' = written /\ trailer' = trailer
        /\ \/ pc' = "header"
           \/ file' = [Opened(content) EXCEPT !.error = TRUE] /\ Refuse(file')
    BY DEF Open, Goto, shown
  <1>2. CASE pc' = "header"
    <2>1. pc # "write" /\ pc' # "write" /\ pc' \notin Reading /\ pc' \notin {"finish", "done"}
      BY <1>1, <1>2 DEF Reading
    <2> QED
      BY <1>1, <2>1, Carries
  <1>3. CASE file' = [Opened(content) EXCEPT !.error = TRUE] /\ Refuse(file')
    <2>1. file'.error /\ pc' = "done"
      BY <1>3, RefuseFails DEF Opened
    <2>2. pc # "write" /\ pc' # "write" /\ pc' \notin Reading
      BY <1>1, <2>1 DEF Reading
    <2> QED
      BY <1>1, <2>1, <2>2, Carries
  <1> QED
    BY <1>1, <1>2, <1>3

(* Before the first record there is the header.                            *)
LEMMA NoRecords ==
    ASSUME NEW es
    PROVE  Records(es, 0) = HeaderBytes
  <1>1. [j \in 1 .. 0 |-> RecordBytes(es[j])] = <<>>
    <2>1. 1 .. 0 = {}
      OBVIOUS
    <2> QED
      BY <2>1, EmptySeq
  <1>2. Records(es, 0) = HeaderBytes \o <<>>
    BY <1>1, FlattenEmpty DEF Records
  <1> QED
    BY <1>2, WrittenIsBytes, Empties

(* The header is the one that was written.                                 *)
LEMMA LockHeader ==
    ASSUME IInv, ParseInv, LockInv, ReadHeader
    PROVE  LockInv'
  <1>1. /\ pc = "header" /\ written' = written /\ trailer' = trailer /\ listed' = listed
        /\ item' = item /\ op' = op
    BY DEF ReadHeader, shown
  <1>2. PICK r \in ReadChunk(file, content, Len(HeaderBytes)) :
           file' = r.file /\ IF r.bytes = HeaderBytes THEN pc' = "item" ELSE Refuse(r.file)
    BY DEF ReadHeader, Goto
  <1>3. /\ content \in Seq(Byte) /\ Known(file, content) /\ listed = <<>> /\ Position(file) = 0
    BY <1>1, Before DEF ParseInv, EntryInv, ReadInv
  <1>4. HeaderBytes \in Seq(Byte) /\ Len(HeaderBytes) \in Nat
    BY WrittenIsBytes, LenProperties
  <1>5. Upto(file, content) = <<>>
    <2>1. Upto(file, content) \in Seq(Byte) /\ Len(Upto(file, content)) = 0
      BY <1>3, PositionType DEF Known
    <2> QED
      BY <2>1, EmptySeq
  <1>6. pc # "write" /\ Reading \cap {"write", "finish", "done"} = {} /\ "item" \in Reading
    BY <1>1 DEF Reading
  <1>7. CASE r.bytes = HeaderBytes
    <2>1. Upto(r.file, content) = HeaderBytes
      <3>1. Upto(r.file, content) = Upto(file, content) \o r.bytes
        BY <1>2, <1>3, <1>4, Chunkwise
      <3>2. Upto(r.file, content) = <<>> \o HeaderBytes
        BY <1>5, <1>7, <3>1
      <3> QED
        BY <1>4, <3>2, Empties
    <2>2. pc' = "item" /\ Upto(file', content) = Records(Written, 0)
      BY <1>2, <1>7, <2>1, NoRecords
    <2>3. Len(listed') = 0
      BY <1>1, <1>3, EmptySeq
    <2>4. Len(Written) \in Nat
      BY WrittenSound
    <2>5. 0 \in 0 .. Len(Written) /\ \A k \in 1 .. 0 : listed'[k] = Written[k]
      BY <2>4
    <2>6. StepAt("item", Written, listed', item', op', Upto(file', content))
      BY <2>2, <2>3, <2>5 DEF StepAt
    <2> QED
      BY <1>1, <1>6, <2>2, <2>6, Carries
  <1>8. CASE r.bytes # HeaderBytes
    <2>1. pc' = "done" /\ file' = r.file
      BY <1>2, <1>8, RefuseFails
    <2>2. ASSUME damage # "altered"
          PROVE  Excused(r.file, content, AllWritten)
      <3> DEFINE h == HeaderBytes
                 w == AllWritten
      <3>1. AllOf(Written, whole, w) /\ Along(content, w) /\ Len(Written) \in Nat
        BY <1>6, <2>2, Setting
      <3>2. 0 \in 0 .. Len(Written)
        BY <3>1
      <3>3. Begins(h, w)
        BY <3>1, <3>2, RecordPlace, NoRecords
      <3>4. <<>> \in Seq(Byte) /\ <<>> \o (h \o <<>>) = h
        BY <1>4, Empties
      <3> HIDE DEF h, w
      <3>5. Awaits(content, w, file, h, <<>>, h)
        BY <1>3, <1>5, <3>1, <3>3, <3>4, <1>4 DEF Awaits, ComesNext, h
      <3>6. r \in ReadChunk(file, content, Len(h))
        BY <1>2 DEF h
      <3>7. r.bytes = h \/ Excused(r.file, content, w)
        BY <3>5, <3>6, FieldTaken
      <3> QED
        BY <1>8, <3>7 DEF h, w
    <2> QED
      BY <1>1, <2>1, <2>2, Fails
  <1> QED
    BY <1>7, <1>8

(* Where nothing more will be read, nothing is.                            *)
LEMMA StuckPeek ==
    ASSUME IInv, ParseInv, LockInv, pc = "item", Stuck, NEW r \in PeekByte(file, content)
    PROVE  r.byte = EndOfFile /\ Excused(r.file, content, AllWritten)
  <1>1. file.buf = <<>> /\ (file.error \/ (damage = "cut" /\ Upto(file, content) = content))
    BY DEF Stuck
  <1>2. content \in Seq(Byte) /\ Known(file, content)
    BY Before DEF Reading
  <1>3. CASE file.error
    BY <1>1, <1>3 DEF PeekByte, Refill, Excused
  <1>4. CASE damage = "cut" /\ Upto(file, content) = content
    <2>1. content # AllWritten
      BY <1>4 DEF LockInv
    <2>2. ASSUME r.byte # EndOfFile PROVE FALSE
      <3>1. Known(r.file, content) /\ Upto(r.file, content) = content /\ r.file.buf # <<>>
            /\ Head(r.file.buf) = r.byte /\ r.byte \in Byte
        BY <1>2, <1>4, <2>2, Peeks
      <3> DEFINE b == <<r.byte>>
      <3>2. Begins(content \o b, content)
        BY <1>2, <3>1, UptoBegins
      <3>3. b \in Seq(Byte) /\ Len(b) = 1
        BY <3>1
      <3> HIDE DEF b
      <3>4. /\ Len(content) \in Nat /\ content \o b \in Seq(Byte)
            /\ Len(content \o b) = Len(content) + 1
        <4>1. Len(content) \in Nat
          BY <1>2, LenProperties
        <4>2. content \o b \in Seq(Byte) /\ Len(content \o b) = Len(content) + Len(b)
          BY <1>2, <3>3, ConcatProperties
        <4> QED
          BY <3>3, <4>1, <4>2
      <3>5. Len(content \o b) <= Len(content)
        BY <3>2, <3>4, BeginsAlike
      <3> QED
        BY <3>4, <3>5
    <2> QED
      BY <2>1, <2>2 DEF Excused
  <1> QED
    BY <1>1, <1>3, <1>4

(* The tag that was written decides what comes next.                       *)
LEMMA LockItem ==
    ASSUME IInv, ParseInv, LockInv, NextItem
    PROVE  LockInv'
  <1>1. /\ pc = "item" /\ written' = written /\ trailer' = trailer /\ listed' = listed
        /\ item' = item /\ op' = op
    BY DEF NextItem, shown
  <1>2. PICK r \in PeekByte(file, content) :
           /\ file' = r.file
           /\ pc' = IF r.byte = EndOfFile THEN "finish"
                    ELSE IF r.byte = TrailerTag THEN "trailer" ELSE "tag"
    BY DEF NextItem, Goto
  <1>3. /\ pc # "write" /\ pc' # "write" /\ pc \in Reading
        /\ IF pc' = "finish" THEN pc' \notin Reading ELSE pc' \in Reading
    BY <1>1, <1>2 DEF Reading
  <1> DEFINE w == AllWritten
             n == Len(listed)
             u == Upto(file', content)
  <1>4. ASSUME damage # "altered"
        PROVE  \/ pc' # "finish" /\ StepAt(pc', Written, listed', item', op', u)
               \/ pc' = "finish" /\ Excused(file', content, w)
    <2>1. AllOf(Written, whole, w) /\ Along(content, w) /\ Known(file, content)
      BY <1>3, <1>4, Setting
    <2>2. CASE InStep
      <3>1. /\ n \in 0 .. Len(Written) /\ \A k \in 1 .. n : listed[k] = Written[k]
            /\ Upto(file, content) = Records(Written, n)
        BY <1>1, <2>2 DEF InStep, StepAt
      <3> DEFINE t == ItemTag(Written, n)
      <3>2. PICK a, mark : Awaits(content, w, file, <<t>>, a, mark)
        <4> HIDE DEF w, n
        <4> QED
          BY <2>1, <3>1, ItemComes
      <3>3. /\ t \in Byte /\ t # EndOfFile
            /\ IF n < Len(Written) THEN t # TrailerTag ELSE t = TrailerTag
        <4> HIDE DEF n
        <4> QED
          BY <2>1, <3>1, ItemTagType DEF AllOf
      <3> HIDE DEF t, w, n
      <3>4. /\ Upto(r.file, content) = Upto(file, content)
            /\ r.byte = t \/ (r.byte = EndOfFile /\ Excused(r.file, content, w))
        BY <1>2, <3>2, <3>3, BytePeeked
      <3>5. CASE r.byte = t
        <4>1. pc' = IF n < Len(Written) THEN "tag" ELSE "trailer"
          BY <1>2, <3>3, <3>5
        <4>2. u = Records(Written, n) /\ n = Len(listed')
          BY <1>1, <1>2, <3>1, <3>4 DEF n
        <4>3. Len(Written) \in Nat
          BY WrittenSound
        <4> HIDE DEF u
        <4>4. n < Len(Written) => Entered("tag", Written[n + 1], item', op', u, Records(Written, n))
          BY <4>2 DEF Entered, InRun
        <4>5. ~(n < Len(Written)) => n = Len(Written)
          BY <3>1, <4>3
        <4>6. \A k \in 1 .. n : listed'[k] = Written[k]
          BY <1>1, <3>1
        <4> QED
          BY <3>1, <4>1, <4>2, <4>4, <4>5, <4>6 DEF StepAt
      <3>6. CASE r.byte = EndOfFile /\ Excused(r.file, content, w)
        BY <1>2, <3>6
      <3> QED
        BY <3>4, <3>5, <3>6
    <2>3. CASE Stuck
      BY <1>1, <1>2, <2>3, StuckPeek
    <2> QED
      BY <1>3, <1>4, <2>2, <2>3 DEF LockInv
  <1> HIDE DEF w, n
  <1>5. CASE pc' # "finish"
    BY <1>1, <1>3, <1>4, <1>5, Carries
  <1>6. CASE pc' = "finish"
    BY <1>1, <1>3, <1>4, <1>6, Fails DEF w
  <1> QED
    BY <1>5, <1>6

(* The tag of an entry.                                                    *)
LEMMA LockTag ==
    ASSUME IInv, ParseInv, LockInv, ReadTag
    PROVE  LockInv'
  <1>1. /\ pc = "tag" /\ written' = written /\ trailer' = trailer /\ listed' = listed /\ op' = op
    BY DEF ReadTag, shown
  <1>2. PICK r \in ReadByte(file, content) :
           /\ file' = r.file
           /\ IF r.byte \notin 0 .. TypeLimit - 1 THEN Refuse(r.file) /\ item' = item
              ELSE /\ item' = NewEntry(r.byte)
                   /\ pc' = IF ReferencesOld(r.byte) THEN "index" ELSE "size"
    BY DEF ReadTag, Goto
  <1> DEFINE c == content
             w == AllWritten
             e == Coming
             b == Here
             v == Upto(r.file, c)
  <1>3. ASSUME damage # "altered"
        PROVE  \/ /\ r.byte = e.type /\ e.type \in {Original, Added, Modified}
                  /\ IF e.type = Added THEN AtSize(e, NewEntry(e.type), v, b)
                     ELSE AtIndex(e, NewEntry(e.type), v, b)
               \/ r.byte = EndOfFile /\ Excused(r.file, c, w)
    <2>1. Within(c, w, file, e, b, There) /\ Upto(file, c) = b
      BY <1>1, <1>3, Inside DEF Reading, Entered
    <2>2. e.type \in {Original, Added, Modified}
      BY <2>1 DEF Within, Place, Sound
    <2> HIDE DEF c, w, e, b, v
    <2>3. r \in ReadByte(file, c)
      BY <1>2 DEF c
    <2> QED
      BY <2>1, <2>2, <2>3, TagTaken DEF v
  <1> HIDE DEF c, w, e, b, v
  <1>4. CASE r.byte \notin 0 .. TypeLimit - 1
    <2>1. pc' = "done" /\ file' = r.file
      BY <1>2, <1>4, RefuseFails
    <2>2. damage # "altered" => Excused(r.file, c, w)
      BY <1>3, <1>4 DEF Original, Added, Modified, TypeLimit
    <2> QED
      BY <1>1, <2>1, <2>2, Fails DEF Reading, c, w
  <1>5. CASE r.byte \in 0 .. TypeLimit - 1
    <2>1. pc' = IF ReferencesOld(r.byte) THEN "index" ELSE "size"
      BY <1>2, <1>5
    <2>2. item' = NewEntry(r.byte) /\ file' = r.file
      BY <1>2, <1>5
    <2>3. pc \in Reading \ {"item", "trailer"} /\ pc' \in Reading \ {"item", "trailer"}
      BY <1>1, <2>1 DEF Reading
    <2>4. ASSUME damage # "altered" PROVE Entered(pc', e, item', op', v, b)
      <3>1. r.byte # EndOfFile
        BY <1>5 DEF EndOfFile, TypeLimit
      <3>2. /\ r.byte = e.type /\ e.type \in {Original, Added, Modified}
            /\ IF e.type = Added THEN AtSize(e, NewEntry(e.type), v, b)
               ELSE AtIndex(e, NewEntry(e.type), v, b)
        BY <1>3, <2>4, <3>1
      <3>3. pc' = IF e.type = Added THEN "size" ELSE "index"
        BY <2>1, <3>2 DEF ReferencesOld, Original, Added, Modified
      <3>4. item' = NewEntry(e.type)
        BY <2>2, <3>2
      <3> QED
        BY <3>2, <3>3, <3>4 DEF Entered, InRun
    <2> QED
      BY <1>1, <2>2, <2>3, <2>4, Enters DEF v, c, e, b
  <1> QED
    BY <1>4, <1>5

(* A byte of an index.                                                     *)
LEMMA LockIndex ==
    ASSUME IInv, ParseInv, LockInv, ReadNumber("index")
    PROVE  LockInv'
  <1>1. /\ pc = "index" /\ written' = written /\ trailer' = trailer /\ listed' = listed
        /\ op' = op
    BY DEF ReadNumber, shown
  <1>2. PICK r \in ReadByte(file, content) :
          /\ file' = r.file
          /\ IF \/ r.byte = EndOfFile \/ Oversized(item.index, r.byte)
                \/ More(r.byte) /\ item.index.i = MaxBytes - 1
             THEN Refuse(r.file) /\ item' = item
             ELSE /\ item' = [item EXCEPT !.index = AddGroup(item.index, r.byte)]
                  /\ IF More(r.byte) THEN pc' = "index"
                     ELSE pc' = IF item.type = Original THEN "digest" ELSE "size"
    BY DEF ReadNumber, Goto
  <1> DEFINE c == content
             w == AllWritten
             e == Coming
             b == Here
             v == Upto(r.file, c)
             x == item
             y == [x EXCEPT !.index = AddGroup(x.index, r.byte)]
             Bad == \/ r.byte = EndOfFile \/ Oversized(x.index, r.byte)
                    \/ More(r.byte) /\ x.index.i = MaxBytes - 1
  <1>3. ASSUME damage # "altered"
        PROVE  \/ /\ ~Bad /\ x.type = e.type
                  /\ IF More(r.byte) THEN AtIndex(e, y, v, b)
                     ELSE IF e.type = Original THEN AtDigest(e, y, v, b)
                     ELSE AtSize(e, y, v, b)
               \/ r.byte = EndOfFile /\ Excused(r.file, c, w)
    <2>1. Within(c, w, file, e, b, There) /\ AtIndex(e, x, Upto(file, c), b)
      BY <1>1, <1>3, Inside DEF Reading, Entered
    <2>2. x.index.i \in 0 .. MaxBytes - 1
      <3>1. x.index.i \in 0 .. MaxBytes /\ x.index.i < MaxBytes
        BY <1>1 DEF IInv, NumberInv, Numbers
      <3>2. MaxBytes \in Nat
        BY WidthAssumption
      <3> QED
        BY <3>1, <3>2
    <2>3. x.type = e.type
      BY <2>1 DEF AtIndex, Fields
    <2>4. EndOfFile \notin Byte
      BY ByteType
    <2>5. r \in ReadByte(file, c)
      BY <1>2
    <2>6. \/ /\ r.byte \in Byte /\ ~Oversized(x.index, r.byte)
             /\ ~(More(r.byte) /\ x.index.i = MaxBytes - 1)
             /\ IF More(r.byte) THEN AtIndex(e, y, v, b)
                ELSE IF e.type = Original THEN AtDigest(e, y, v, b)
                ELSE AtSize(e, y, v, b)
          \/ r.byte = EndOfFile /\ Excused(r.file, c, w)
      <3> HIDE DEF c, w, e, b, x
      <3> QED
        BY <2>1, <2>2, <2>5, IndexTaken
    <2> HIDE DEF c, w, e, b, v, x, y
    <2> QED
      BY <2>3, <2>4, <2>6
  <1>4. /\ file' = r.file /\ pc \in Reading \ {"item", "trailer"}
        /\ IF Bad THEN Refuse(r.file)
           ELSE /\ item' = y
                /\ IF More(r.byte) THEN pc' = "index"
                   ELSE pc' = IF x.type = Original THEN "digest" ELSE "size"
    BY <1>1, <1>2 DEF Reading
  <1>5. r.byte = EndOfFile => Bad
    OBVIOUS
  <1> HIDE DEF c, w, e, b, v, x, y, Bad
  <1>6. CASE Bad
    <2>1. pc' = "done"
      BY <1>4, <1>6, RefuseFails
    <2>2. damage # "altered" => Excused(r.file, c, w)
      BY <1>3, <1>6
    <2> QED
      BY <1>1, <1>4, <2>1, <2>2, Fails DEF c, w
  <1>7. CASE ~Bad
    <2>1. pc' \in Reading \ {"item", "trailer"} /\ pc' \in {"index", "digest", "size"}
      BY <1>4, <1>7 DEF Reading
    <2>2. ASSUME damage # "altered" PROVE Entered(pc', e, item', op', v, b)
      <3>1. /\ x.type = e.type
            /\ IF More(r.byte) THEN AtIndex(e, y, v, b)
               ELSE IF e.type = Original THEN AtDigest(e, y, v, b)
               ELSE AtSize(e, y, v, b)
        BY <1>3, <1>5, <1>7, <2>2
      <3> QED
        BY <1>4, <1>7, <3>1 DEF Entered, InRun
    <2> QED
      BY <1>1, <1>4, <2>1, <2>2, Enters DEF c, e, b, v
  <1> QED
    BY <1>6, <1>7

(* A byte of a size; it is not too large.                                  *)
LEMMA LockSize ==
    ASSUME IInv, ParseInv, LockInv, ReadNumber("size")
    PROVE  LockInv'
  <1>1. /\ pc = "size" /\ written' = written /\ trailer' = trailer /\ listed' = listed
        /\ op' = op
    BY DEF ReadNumber, shown
  <1>2. PICK r \in ReadByte(file, content) :
          /\ file' = r.file
          /\ IF \/ r.byte = EndOfFile \/ Oversized(item.size, r.byte)
                \/ More(r.byte) /\ item.size.i = MaxBytes - 1
             THEN Refuse(r.file) /\ item' = item
             ELSE /\ item' = [item EXCEPT !.size = AddGroup(item.size, r.byte)]
                  /\ IF More(r.byte) THEN pc' = "size"
                     ELSE IF TooLarge(item'.size.value) THEN Refuse(r.file) ELSE pc' = "digest"
    BY DEF ReadNumber, Goto
  <1> DEFINE c == content
             w == AllWritten
             e == Coming
             b == Here
             v == Upto(r.file, c)
             x == item
             y == [x EXCEPT !.size = AddGroup(x.size, r.byte)]
             Bad == \/ r.byte = EndOfFile \/ Oversized(x.size, r.byte)
                    \/ More(r.byte) /\ x.size.i = MaxBytes - 1
             Long == ~More(r.byte) /\ TooLarge(y.size.value)
  <1>3. ASSUME damage # "altered"
        PROVE  \/ /\ ~Bad /\ ~Long
                  /\ IF More(r.byte) THEN AtSize(e, y, v, b) ELSE AtDigest(e, y, v, b)
               \/ r.byte = EndOfFile /\ Excused(r.file, c, w)
    <2>1. Within(c, w, file, e, b, There) /\ AtSize(e, x, Upto(file, c), b)
      BY <1>1, <1>3, Inside DEF Reading, Entered
    <2>2. x.size.i \in 0 .. MaxBytes - 1
      <3>1. x.size.i \in 0 .. MaxBytes /\ x.size.i < MaxBytes
        BY <1>1 DEF IInv, NumberInv, Numbers
      <3>2. MaxBytes \in Nat
        BY WidthAssumption
      <3> QED
        BY <3>1, <3>2
    <2>4. EndOfFile \notin Byte
      BY ByteType
    <2>5. r \in ReadByte(file, c)
      BY <1>2
    <2>6. \/ /\ r.byte \in Byte /\ ~Oversized(x.size, r.byte)
             /\ ~(More(r.byte) /\ x.size.i = MaxBytes - 1)
             /\ IF More(r.byte) THEN AtSize(e, y, v, b)
                ELSE AtDigest(e, y, v, b) /\ y.size = e.size /\ ~TooLarge(e.size.value)
          \/ r.byte = EndOfFile /\ Excused(r.file, c, w)
      <3> HIDE DEF c, w, e, b, x
      <3> QED
        BY <2>1, <2>2, <2>5, SizeTaken
    <2> HIDE DEF c, w, e, b, v, x, y
    <2> QED
      BY <2>4, <2>6
  <1>4. /\ file' = r.file /\ pc \in Reading \ {"item", "trailer"}
        /\ IF Bad THEN Refuse(r.file)
           ELSE /\ item' = y
                /\ IF More(r.byte) THEN pc' = "size"
                   ELSE IF TooLarge(item'.size.value) THEN Refuse(r.file) ELSE pc' = "digest"
    BY <1>1, <1>2 DEF Reading
  <1>5. r.byte = EndOfFile => Bad
    OBVIOUS
  <1>6. IF Bad \/ Long THEN Refuse(r.file)
        ELSE item' = y /\ pc' = IF More(r.byte) THEN "size" ELSE "digest"
    <2> HIDE DEF Bad, x, y, v, c, w, e, b
    <2> QED
      BY <1>4
  <1> HIDE DEF c, w, e, b, v, x, y, Bad, Long
  <1>7. CASE Bad \/ Long
    <2>1. pc' = "done"
      BY <1>6, <1>7, RefuseFails
    <2>2. damage # "altered" => Excused(r.file, c, w)
      BY <1>3, <1>7
    <2> QED
      BY <1>1, <1>4, <2>1, <2>2, Fails DEF c, w
  <1>8. CASE ~(Bad \/ Long)
    <2>1. pc' \in Reading \ {"item", "trailer"} /\ pc' \in {"digest", "size"}
      BY <1>6, <1>8 DEF Reading
    <2>2. ASSUME damage # "altered" PROVE Entered(pc', e, item', op', v, b)
      <3>1. IF More(r.byte) THEN AtSize(e, y, v, b) ELSE AtDigest(e, y, v, b)
        BY <1>3, <1>5, <1>8, <2>2
      <3> QED
        BY <1>6, <1>8, <3>1 DEF Entered, InRun
    <2> QED
      BY <1>1, <1>4, <2>1, <2>2, Enters DEF c, e, b, v
  <1> QED
    BY <1>7, <1>8

(* The digest, with which a reference to an old chunk is complete.         *)
LEMMA LockDigest ==
    ASSUME IInv, ParseInv, LockInv, ReadDigest
    PROVE  LockInv'
  <1>1. /\ pc = "digest" /\ written' = written /\ trailer' = trailer /\ op' = op
        /\ pc \in Reading \ {"item", "trailer"}
    BY DEF ReadDigest, Reading
  <1>2. PICK r \in ReadChunk(file, content, DigestBytes) :
           /\ file' = r.file
           /\ item' = [item EXCEPT !.digest = r.bytes]
           /\ IF Len(r.bytes) < DigestBytes THEN Refuse(r.file) /\ listed' = listed
              ELSE IF item.type = Original
              THEN listed' = Append(listed, item') /\ pc' = "item"
              ELSE /\ pc' = IF item.type = Added THEN "payload" ELSE "opcodes"
                   /\ listed' = listed
    BY DEF ReadDigest, Goto, Show
  <1> DEFINE c == content
             w == AllWritten
             e == Coming
             b == Here
             z == There
             v == Upto(r.file, c)
             x == item
             y == [x EXCEPT !.digest = r.bytes]
             Short == Len(r.bytes) < DigestBytes
  <1>3. ASSUME damage # "altered"
        PROVE  \/ /\ ~Short /\ v = Opening(e, b) /\ x.type = e.type
                  /\ y = Fields(e.type, e.index, e.size, e.digest, <<>>, 0)
                  /\ e.type = Original => y = e /\ v = z
                  /\ Place(w, e, b, z)
               \/ Short /\ Excused(r.file, c, w)
    <2>1. Within(c, w, file, e, b, z) /\ AtDigest(e, x, Upto(file, c), b)
      BY <1>1, <1>3, Inside DEF Entered
    <2>2. x.type = e.type
      BY <2>1 DEF AtDigest, Fields
    <2>3. Place(w, e, b, z)
      BY <2>1 DEF Within
    <2>4. r \in ReadChunk(file, c, DigestBytes)
      BY <1>2
    <2>5. \/ /\ ~Short /\ v = Opening(e, b)
             /\ y = Fields(e.type, e.index, e.size, e.digest, <<>>, 0)
             /\ e.type = Original => y = e /\ v = z
          \/ Short /\ Excused(r.file, c, w)
      <3> HIDE DEF c, w, e, b, z, x
      <3> QED
        BY <2>1, <2>4, DigestTaken
    <2> HIDE DEF c, w, e, b, z, v, x, y, Short
    <2> QED
      BY <2>2, <2>3, <2>5
  <1>4. /\ file' = r.file /\ item' = y
        /\ Short => Refuse(r.file)
        /\ ~Short /\ x.type = Original => listed' = Append(listed, item') /\ pc' = "item"
        /\ ~Short /\ x.type # Original =>
              pc' = (IF x.type = Added THEN "payload" ELSE "opcodes") /\ listed' = listed
    BY <1>2
  <1> HIDE DEF c, w, e, b, z, v, x, y, Short
  <1>5. CASE Short
    <2>1. pc' = "done"
      BY <1>4, <1>5, RefuseFails
    <2>2. damage # "altered" => Excused(r.file, c, w)
      BY <1>3, <1>5
    <2> QED
      BY <1>1, <1>4, <2>1, <2>2, Fails DEF c, w
  <1>6. CASE ~Short /\ x.type = Original
    <2>1. damage # "altered" => item' = e /\ v = z
      BY <1>3, <1>4, <1>6
    <2> QED
      BY <1>1, <1>4, <1>6, <2>1, Completes DEF c, e, v, z
  <1>7. CASE ~Short /\ x.type # Original
    <2>1. /\ pc' = (IF x.type = Added THEN "payload" ELSE "opcodes") /\ listed' = listed
          /\ pc' \in Reading \ {"item", "trailer"}
      BY <1>4, <1>7 DEF Reading
    <2>2. ASSUME damage # "altered" PROVE Entered(pc', e, item', op', v, b)
      <3>1. /\ v = Opening(e, b) /\ x.type = e.type /\ Place(w, e, b, z)
            /\ item' = Fields(e.type, e.index, e.size, e.digest, <<>>, 0)
        BY <1>3, <1>4, <1>7, <2>2
      <3>2. CASE e.type = Added
        BY <2>1, <3>1, <3>2 DEF Entered, AtPayload, InRun
      <3>3. CASE e.type # Added
        <4>1. e.type = Modified /\ pc' = "opcodes"
          BY <1>7, <2>1, <3>1, <3>3 DEF Place, Sound
        <4>2. e.body \in Seq(OpType)
          BY <3>1, <4>1 DEF Place, Sound, Original, Added, Modified
        <4>3. Len(e.body) \in Nat
          BY <4>2, LenProperties
        <4>4. 0 \in 0 .. Len(e.body)
          BY <4>3
        <4>5. SubSeq(e.body, 1, 0) = <<>>
          BY <4>2, <4>4, UpToNext
        <4>6. v = Ran(e, b, 0)
          BY <3>1, <4>1, <4>4, RanNext
        <4>7. item'.diff = 0
          BY <3>1 DEF Fields
        <4>8. InBody(e, item', 0)
          BY <3>1, <4>1, <4>5, <4>7 DEF InBody
        <4>9. AtBody("opcodes", e, op', v, b, 0)
          BY <4>6 DEF AtBody
        <4> QED
          BY <4>1, <4>4, <4>8, <4>9 DEF Entered
      <3> QED
        BY <3>2, <3>3
    <2> QED
      BY <1>1, <1>4, <2>1, <2>2, Enters DEF v, c, e, b
  <1> QED
    BY <1>5, <1>6, <1>7

(* The payload, with which an added chunk is complete.                     *)
LEMMA LockPayload ==
    ASSUME IInv, ParseInv, LockInv, ReadPayload
    PROVE  LockInv'
  <1>1. /\ pc = "payload" /\ written' = written /\ trailer' = trailer /\ op' = op
        /\ pc \in Reading \ {"item", "trailer"}
    BY DEF ReadPayload, Reading
  <1>2. PICK r \in ReadChunk(file, content, item.size.value) :
           /\ file' = r.file
           /\ item' = [item EXCEPT !.body = r.bytes]
           /\ IF Len(r.bytes) < item.size.value THEN Refuse(r.file) /\ listed' = listed
              ELSE listed' = Append(listed, item') /\ pc' = "item"
    BY DEF ReadPayload, Goto, Show
  <1> DEFINE c == content
             w == AllWritten
             e == Coming
             b == Here
             z == There
             v == Upto(r.file, c)
             x == item
             y == [x EXCEPT !.body = r.bytes]
             Short == Len(r.bytes) < x.size.value
  <1>3. ASSUME damage # "altered"
        PROVE  (~Short /\ y = e /\ v = z) \/ (Short /\ Excused(r.file, c, w))
    <2>1. Within(c, w, file, e, b, z) /\ AtPayload(e, x, Upto(file, c), b)
      BY <1>1, <1>3, Inside DEF Entered
    <2>2. r \in ReadChunk(file, c, x.size.value)
      BY <1>2
    <2> HIDE DEF c, w, e, b, z, x
    <2> QED
      BY <2>1, <2>2, PayloadTaken
  <1>4. /\ file' = r.file /\ item' = y
        /\ Short => Refuse(r.file)
        /\ ~Short => listed' = Append(listed, item') /\ pc' = "item"
    BY <1>2
  <1> HIDE DEF c, w, e, b, z, v, x, y, Short
  <1>5. CASE Short
    <2>1. pc' = "done"
      BY <1>4, <1>5, RefuseFails
    <2>2. damage # "altered" => Excused(r.file, c, w)
      BY <1>3, <1>5
    <2> QED
      BY <1>1, <1>4, <2>1, <2>2, Fails DEF c, w
  <1>6. CASE ~Short
    <2>1. damage # "altered" => item' = e /\ v = z
      BY <1>3, <1>4, <1>6
    <2> QED
      BY <1>1, <1>4, <1>6, <2>1, Completes DEF c, e, v, z
  <1> QED
    BY <1>5, <1>6

(* The last opcode has been read: the entry is complete.                   *)
LEMMA RunComplete ==
    ASSUME NEW w, NEW e, NEW b, NEW z, Place(w, e, b, z), NEW x \in EntryType,
           InBody(e, x, Len(e.body))
    PROVE  x = e /\ Ran(e, b, Len(e.body)) = z /\ x.body # <<>>
  <1>1. /\ e.type = Modified /\ Sound(e)
        /\ x = Fields(e.type, e.index, e.size, e.digest, SubSeq(e.body, 1, Len(e.body)), x.diff)
    BY DEF InBody, Place
  <1>2. /\ e.body \in Seq(OpType) /\ e.body # <<>> /\ e.diff = Len(OpcodesBytes(e.body))
        /\ e = Fields(e.type, e.index, e.size, e.digest, e.body, e.diff)
    BY <1>1 DEF Sound, Fields, Original, Added, Modified
  <1>3. Len(e.body) \in 0 .. Len(e.body)
    <2>1. Len(e.body) \in Nat
      BY <1>2, LenProperties
    <2> QED
      BY <2>1
  <1>4. SubSeq(e.body, 1, Len(e.body)) = e.body
    BY <1>2, <1>3, UpToNext
  <1>5. Ran(e, b, Len(e.body)) = z
    BY <1>1, <1>3, RanNext
  <1>6. x.type = Modified /\ x.body = e.body
    BY <1>1, <1>4 DEF Fields
  <1>7. x.diff = Len(OpcodesBytes(x.body))
    BY <1>6 DEF EntryType, BodyBytes
  <1> QED
    BY <1>1, <1>2, <1>4, <1>5, <1>6, <1>7

(* What a peek shows where an opcode may come.                             *)
LEMMA OpcodePeeked ==
    ASSUME IInv, ParseInv, LockInv, pc = "opcodes", damage # "altered",
           NEW r \in PeekByte(file, content)
    PROVE  \/ /\ r.byte \in OpTags
              /\ Entered("opcode", Coming, item, op, Upto(r.file, content), Here)
           \/ /\ r.byte \notin OpTags /\ item = Coming /\ Upto(r.file, content) = There
              /\ item.body # <<>>
           \/ /\ r.byte \notin OpTags /\ Excused(r.file, content, AllWritten)
              /\ r.file.buf = <<>>
              /\ r.file.error \/ (damage = "cut" /\ Upto(r.file, content) = content)
  <1> DEFINE c == content
             w == AllWritten
             e == Coming
             b == Here
             z == There
             u == Upto(file, c)
             v == Upto(r.file, c)
             x == item
  <1>1. pc \in Reading \ {"item", "trailer"} /\ pc # "write" /\ "opcodes" \in InRun
    BY DEF Reading, InRun
  <1>2. Within(c, w, file, e, b, z) /\ Entered(pc, e, x, op, u, b) /\ (damage = "none" => c = w)
    BY <1>1, Inside
  <1>3. Place(w, e, b, z) /\ Along(c, w) /\ Known(file, c)
    BY <1>2 DEF Within
  <1>4. x \in EntryType /\ damage \in {"none", "cut"}
    BY <1>1, Before DEF IInv, PhaseInv
  <1>5. r \in PeekByte(file, c) /\ EndOfFile \notin OpTags
    BY LayoutAssumption, ByteType
  <1>6. AllOf(Written, whole, w)
    BY <1>1, Setting
  <1>7. Len(listed) + 1 \in 0 .. Len(Written)
    <2>1. InStep
      BY <1>1 DEF LockInv, Stuck
    <2>2. Len(listed) \in 0 .. Len(Written) /\ Len(listed) < Len(Written)
      BY <1>1, <2>1 DEF InStep, StepAt
    <2>3. Len(Written) \in Nat
      BY WrittenSound
    <2> QED
      BY <2>2, <2>3
  <1>8. z = Records(Written, Len(listed) + 1)
    BY DEF There
  <1> HIDE DEF c, w, e, b, z, u, v, x
  <1>9. PICK k \in 0 .. Len(e.body) : InBody(e, x, k) /\ AtBody("opcodes", e, op, u, b, k)
    BY <1>1, <1>2 DEF Entered
  <1>10. e.type = Modified /\ u = Ran(e, b, k)
    BY <1>9 DEF InBody, AtBody
  <1>11. Len(e.body) \in Nat /\ e.body \in Seq(OpType)
    <2>1. e.body \in Seq(OpType)
      BY <1>3, <1>10 DEF Place, Sound, Original, Added, Modified
    <2> QED
      BY <2>1, LenProperties
  <1>12. CASE k < Len(e.body)
    <2> DEFINE y == e.body[k + 1]
               t == OpTag[y.op]
               m == Ran(e, b, k + 1)
               a == Fixed(y.pos) \o Rest(y)
    <2>1. AtRun(c, w, file, e, b, z, k)
      <3>1. k \in 0 .. Len(e.body) - 1
        BY <1>9, <1>11, <1>12
      <3> QED
        BY <1>2, <1>10, <3>1 DEF AtRun
    <2>2. t \in Byte /\ Awaits(c, w, file, <<t>>, a, m)
      BY <1>10, <2>1, OpcodeComes DEF u
    <2>3. t \in OpTags
      <3>1. y \in OpType
        BY <2>1, RunPlace DEF Plain
      <3> QED
        BY <3>1 DEF OpType, OpTags
    <2> HIDE DEF y, t, m, a
    <2>4. /\ v = u
          /\ \/ r.byte = t
             \/ /\ r.byte = EndOfFile /\ Excused(r.file, c, w) /\ r.file.buf = <<>>
                /\ ~r.file.error => v = c
      BY <1>5, <2>2, BytePeeked DEF u, v
    <2>5. CASE r.byte = t
      <3>1. InBody(e, x, k) /\ AtBody("opcode", e, op, v, b, k) /\ k \in 0 .. Len(e.body)
        BY <1>9, <1>10, <1>12, <2>4 DEF AtBody
      <3>2. Entered("opcode", e, x, op, v, b)
        BY <3>1 DEF Entered
      <3> QED
        BY <2>3, <2>5, <3>2 DEF c, e, x, v, b
    <2>6. CASE /\ r.byte = EndOfFile /\ Excused(r.file, c, w) /\ r.file.buf = <<>>
               /\ ~r.file.error => v = c
      <3>1. ~r.file.error => damage = "cut"
        BY <1>2, <1>4, <2>6 DEF Excused
      <3> QED
        BY <1>5, <2>6, <3>1 DEF c, w, v
    <2> QED
      BY <2>4, <2>5, <2>6
  <1>13. CASE ~(k < Len(e.body))
    <2>1. k = Len(e.body)
      BY <1>9, <1>11, <1>13
    <2>2. x = e /\ u = z /\ x.body # <<>>
      <3>1. InBody(e, x, Len(e.body)) /\ u = Ran(e, b, Len(e.body))
        BY <1>9, <1>10, <2>1
      <3> QED
        BY <1>3, <1>4, <3>1, RunComplete
    <2> DEFINE n == Len(listed) + 1
               t == ItemTag(Written, n)
    <2>3. n \in 0 .. Len(Written) /\ z = Records(Written, n)
      BY <1>7, <1>8
    <2> HIDE DEF n
    <2>4. PICK a, mark : Awaits(c, w, file, <<t>>, a, mark)
      <3>1. Upto(file, c) = Records(Written, n)
        BY <2>2, <2>3 DEF u
      <3> QED
        BY <1>3, <1>6, <2>3, <3>1, ItemComes
    <2>5. t \in Byte /\ t \notin OpTags
      BY <1>6, <2>3, ItemTagType DEF AllOf
    <2> HIDE DEF t
    <2>6. v = u /\ (r.byte = t \/ r.byte = EndOfFile)
      BY <1>5, <2>4, <2>5, BytePeeked DEF u, v
    <2>7. r.byte \notin OpTags
      BY <1>5, <2>5, <2>6
    <2> QED
      BY <2>2, <2>6, <2>7 DEF c, x, e, v, z
  <1> QED
    BY <1>12, <1>13

(* The run of opcodes goes on, or the entry is complete.                   *)
LEMMA LockOpcodes ==
    ASSUME IInv, ParseInv, LockInv, AtOpcode
    PROVE  LockInv'
  <1>1. /\ pc = "opcodes" /\ written' = written /\ trailer' = trailer /\ op' = op /\ item' = item
        /\ pc \in Reading \ {"item", "trailer"}
    BY DEF AtOpcode, Reading
  <1>2. PICK r \in PeekByte(file, content) :
           /\ file' = r.file
           /\ IF r.byte \in OpTags THEN pc' = "opcode" /\ listed' = listed
              ELSE IF item.body = <<>> THEN Refuse(r.file) /\ listed' = listed
              ELSE listed' = Append(listed, item) /\ pc' = "item"
    BY DEF AtOpcode, Goto, Show
  <1> DEFINE v == Upto(r.file, content)
             GoesOn == r.byte \in OpTags /\ Entered("opcode", Coming, item, op, v, Here)
             Ends   == r.byte \notin OpTags /\ item = Coming /\ v = There /\ item.body # <<>>
             Early  == /\ r.byte \notin OpTags /\ Excused(r.file, content, AllWritten)
                       /\ r.file.buf = <<>>
                       /\ r.file.error \/ (damage = "cut" /\ v = content)
  <1>3. damage # "altered" => GoesOn \/ Ends \/ Early
    BY <1>1, <1>2, OpcodePeeked
  <1>4. CASE r.byte \in OpTags
    <2>1. damage # "altered" => Entered("opcode", Coming, item, op, v, Here)
      BY <1>3, <1>4
    <2>2. pc' = "opcode" /\ listed' = listed /\ file' = r.file
          /\ pc' \in Reading \ {"item", "trailer"}
      BY <1>2, <1>4 DEF Reading
    <2> HIDE DEF v, GoesOn, Ends, Early
    <2> QED
      BY <1>1, <2>1, <2>2, Enters DEF v
  <1>5. CASE r.byte \notin OpTags /\ item.body = <<>>
    <2>1. damage # "altered" => Excused(r.file, content, AllWritten)
      BY <1>3, <1>5
    <2>2. pc' = "done" /\ file' = r.file
      BY <1>2, <1>5, RefuseFails
    <2> HIDE DEF v, GoesOn, Ends, Early
    <2> QED
      BY <1>1, <2>1, <2>2, Fails
  <1>6. CASE r.byte \notin OpTags /\ item.body # <<>>
    <2>1. listed' = Append(listed, item') /\ pc' = "item" /\ file' = r.file
      BY <1>1, <1>2, <1>6
    <2>2. CASE damage # "altered" => Ends
      <3>1. damage # "altered" => item' = Coming /\ v = There
        BY <1>1, <2>2
      <3> HIDE DEF v, GoesOn, Ends, Early
      <3> QED
        BY <1>1, <2>1, <3>1, Completes DEF v
    <2>3. CASE damage # "altered" /\ Early
      <3>1. damage' = damage /\ content' = content
        BY <1>1 DEF written
      <3>2. Upto(file, content)' = v
        BY <2>1, <3>1 DEF Upto, Position
      <3>3. Stuck'
        BY <2>1, <2>3, <3>1, <3>2 DEF Stuck
      <3>4. pc # "write" /\ pc' # "write" /\ pc' \in Reading
        BY <1>1, <2>1 DEF Reading
      <3> HIDE DEF v, GoesOn, Ends, Early
      <3> QED
        BY <1>1, <3>3, <3>4, Carries
    <2> QED
      BY <1>3, <1>6, <2>2, <2>3
  <1> QED
    BY <1>4, <1>5, <1>6

(* Inside an opcode.                                                       *)
LEMMA InsideOpcode ==
    ASSUME IInv, ParseInv, LockInv, damage # "altered", pc \in InRun \ {"opcodes"}
    PROVE  \E k \in 0 .. Len(Coming.body) :
              /\ AtRun(content, AllWritten, file, Coming, Here, There, k)
              /\ InBody(Coming, item, k)
              /\ AtBody(pc, Coming, op, Upto(file, content), Here, k)
  <1> DEFINE c == content
             w == AllWritten
             e == Coming
             b == Here
             z == There
             u == Upto(file, c)
  <1>1. pc \in Reading \ {"item", "trailer"} /\ pc \in InRun /\ pc # "opcodes"
    BY DEF Reading, InRun
  <1>2. Within(c, w, file, e, b, z) /\ Entered(pc, e, item, op, u, b)
    BY <1>1, Inside
  <1> HIDE DEF c, w, e, b, z, u
  <1>3. PICK k \in 0 .. Len(e.body) : InBody(e, item, k) /\ AtBody(pc, e, op, u, b, k)
    BY <1>1, <1>2 DEF Entered
  <1>4. e.type = Modified /\ k < Len(e.body)
    BY <1>1, <1>3 DEF InBody, AtBody
  <1>5. Len(e.body) \in Nat
    <2>1. e.body \in Seq(OpType)
      BY <1>2, <1>4 DEF Within, Place, Sound, Original, Added, Modified
    <2> QED
      BY <2>1, LenProperties
  <1>6. k \in 0 .. Len(e.body) - 1
    BY <1>3, <1>4, <1>5
  <1>7. AtRun(c, w, file, e, b, z, k)
    BY <1>2, <1>4, <1>6 DEF AtRun
  <1> QED
    BY <1>3, <1>7 DEF c, w, e, b, z, u

(* The tag of an opcode is that of no other.                               *)
LEMMA LockOpcode ==
    ASSUME IInv, ParseInv, LockInv, ReadOpcode
    PROVE  LockInv'
  <1>1. /\ pc = "opcode" /\ written' = written /\ trailer' = trailer /\ listed' = listed
        /\ item' = item /\ pc' = "pos"
        /\ pc \in Reading \ {"item", "trailer"} /\ pc' \in Reading \ {"item", "trailer"}
    BY DEF ReadOpcode, shown, Reading, Goto
  <1>2. PICK r \in ReadByte(file, content), name \in DOMAIN OpTag :
           file' = r.file /\ OpTag[name] = r.byte /\ op' = Opcode(name, 0, <<>>, 0)
    BY DEF ReadOpcode
  <1> DEFINE c == content
             w == AllWritten
             e == Coming
             b == Here
             z == There
             u == Upto(file, c)
             v == Upto(r.file, c)
  <1>3. ASSUME damage # "altered" PROVE Entered(pc', e, item', op', v, b)
    <2>1. pc \in InRun \ {"opcodes"}
      BY <1>1 DEF InRun
    <2>2. PICK k \in 0 .. Len(e.body) :
             /\ AtRun(c, w, file, e, b, z, k) /\ InBody(e, item, k) /\ AtBody(pc, e, op, u, b, k)
      BY <1>3, <2>1, InsideOpcode
    <2>3. r \in ReadByte(file, c)
      BY <1>2
    <2> HIDE DEF c, w, e, b, z, u, v
    <2> DEFINE y == e.body[k + 1]
               t == OpTag[y.op]
               a == Fixed(y.pos) \o Rest(y)
               m == Ran(e, b, k + 1)
    <2>4. u = Ran(e, b, k) /\ k < Len(e.body)
      BY <1>1, <2>2 DEF AtBody
    <2>5. t \in Byte /\ Awaits(c, w, file, <<t>>, a, m)
      BY <2>2, <2>4, OpcodeComes DEF u
    <2>6. y.op \in DOMAIN OpTag
      BY <2>2, RunPlace DEF Plain, OpType
    <2> HIDE DEF a, m
    <2>7. (r.byte = t /\ v \o a = m) \/ r.byte = EndOfFile
      <3> HIDE DEF y, t
      <3>1. /\ Known(r.file, c)
            /\ \/ r.byte = t /\ Upto(r.file, c) \o a = m
               \/ r.byte = EndOfFile /\ Excused(r.file, c, w)
        BY <2>3, <2>5, ByteTaken
      <3> QED
        BY <3>1 DEF v
    <2>8. OpTag[name] # EndOfFile
      BY <1>2, LayoutAssumption, ByteType DEF OpTags
    <2>9. OpTag[name] = OpTag[y.op] /\ v \o a = m
      BY <1>2, <2>7, <2>8
    <2>10. name = y.op
      <3> HIDE DEF y
      <3> QED
        BY <1>2, <2>6, <2>9, LayoutAssumption
    <2>11. AtBody("pos", e, op', v, b, k)
      BY <1>2, <2>4, <2>9, <2>10 DEF AtBody, Left, a, m
    <2>12. InBody(e, item', k)
      BY <1>1, <2>2
    <2> QED
      BY <1>1, <2>2, <2>11, <2>12 DEF Entered, InRun
  <1> HIDE DEF c, w, e, b, z, u, v
  <1> QED
    BY <1>1, <1>2, <1>3, Enters DEF v, c, e, b

(* Its position.                                                           *)
LEMMA LockPos ==
    ASSUME IInv, ParseInv, LockInv, ReadPos
    PROVE  LockInv'
  <1>1. /\ pc = "pos" /\ written' = written /\ trailer' = trailer /\ listed' = listed
        /\ item' = item /\ pc \in Reading \ {"item", "trailer"}
    BY DEF ReadPos, shown, Reading
  <1>2. PICK r \in ReadChunk(file, content, FixedBytes) :
           /\ file' = r.file
           /\ IF Len(r.bytes) < FixedBytes THEN Refuse(r.file) /\ op' = op
              ELSE /\ op' = [op EXCEPT !.pos = LoadFixed(r.bytes)]
                   /\ pc' = IF op.op = "X" THEN "length" ELSE "inline"
    BY DEF ReadPos, Goto
  <1> DEFINE c == content
             w == AllWritten
             e == Coming
             b == Here
             z == There
             u == Upto(file, c)
             v == Upto(r.file, c)
             Short == Len(r.bytes) < FixedBytes
  <1>3. ASSUME damage # "altered"
        PROVE  \/ ~Short /\ Entered(pc', e, item', op', v, b)
               \/ Short /\ Excused(r.file, c, w)
    <2>1. pc \in InRun \ {"opcodes"}
      BY <1>1 DEF InRun
    <2>2. PICK k \in 0 .. Len(e.body) :
             /\ AtRun(c, w, file, e, b, z, k) /\ InBody(e, item, k) /\ AtBody(pc, e, op, u, b, k)
      BY <1>3, <2>1, InsideOpcode
    <2>3. r \in ReadChunk(file, c, FixedBytes)
      BY <1>2
    <2> HIDE DEF c, w, e, b, z, u, v
    <2> DEFINE y == e.body[k + 1]
    <2>4. /\ op = Opcode(y.op, 0, <<>>, 0) /\ Left(u, e, b, k, Fixed(y.pos) \o Rest(y))
          /\ k < Len(e.body)
      BY <1>1, <2>2 DEF AtBody
    <2>5. \/ /\ ~Short /\ LoadFixed(r.bytes) = y.pos /\ Left(v, e, b, k, Rest(y))
          \/ Short /\ Excused(r.file, c, w)
      <3>1. y = e.body[k + 1] /\ Left(Upto(file, c), e, b, k, Fixed(y.pos) \o Rest(y))
        BY <2>4 DEF u
      <3>2. AtRun(c, w, file, e, b, z, k)
        BY <2>2
      <3> HIDE DEF y
      <3>3. /\ Known(r.file, c)
            /\ \/ /\ ~(Len(r.bytes) < FixedBytes) /\ LoadFixed(r.bytes) = y.pos
                  /\ Left(Upto(r.file, c), e, b, k, Rest(y))
               \/ Len(r.bytes) < FixedBytes /\ Excused(r.file, c, w)
        BY <2>3, <3>1, <3>2, PosTaken
      <3> QED
        BY <3>3 DEF v, Short
    <2>6. ASSUME ~Short PROVE Entered(pc', e, item', op', v, b)
      <3>1. LoadFixed(r.bytes) = y.pos /\ Left(v, e, b, k, Rest(y))
        BY <2>5, <2>6
      <3>2. op' = [op EXCEPT !.pos = y.pos] /\ pc' \in {"length", "inline"}
        BY <1>2, <2>6, <3>1
      <3>3. op' = Opcode(y.op, y.pos, <<>>, 0)
        BY <2>4, <3>2 DEF Opcode
      <3>4. AtBody(pc', e, op', v, b, k)
        BY <2>4, <3>1, <3>2, <3>3 DEF AtBody
      <3>5. InBody(e, item', k)
        BY <1>1, <2>2
      <3> QED
        BY <2>2, <3>2, <3>4, <3>5 DEF Entered, InRun
    <2> QED
      BY <2>5, <2>6
  <1>4. /\ Short => Refuse(r.file)
        /\ ~Short => pc' \in Reading \ {"item", "trailer"}
    BY <1>2 DEF Reading
  <1> HIDE DEF c, w, e, b, z, u, v, Short
  <1>5. CASE Short
    <2>1. pc' = "done" /\ file' = r.file
      BY <1>2, <1>4, <1>5, RefuseFails
    <2>2. damage # "altered" => Excused(r.file, c, w)
      BY <1>3, <1>5
    <2> QED
      BY <1>1, <2>1, <2>2, Fails DEF c, w
  <1>6. CASE ~Short
    <2>1. damage # "altered" => Entered(pc', e, item', op', v, b)
      BY <1>3, <1>6
    <2>2. file' = r.file
      BY <1>2
    <2> QED
      BY <1>1, <1>4, <1>6, <2>1, <2>2, Enters DEF c, e, b, v
  <1> QED
    BY <1>5, <1>6

(* An opcode that is complete is counted.                                  *)
LEMMA Tallied ==
    ASSUME NEW c, NEW w, NEW f, NEW e, NEW b, NEW z, NEW k, AtRun(c, w, f, e, b, z, k),
           NEW x, InBody(e, x, k), NEW d, NEW o, NEW v, v = Ran(e, b, k + 1)
    PROVE  Entered("opcodes", e, [x EXCEPT !.body = Append(x.body, e.body[k + 1]), !.diff = d], o, v, b)
  <1> DEFINE y == e.body[k + 1]
             s == SubSeq(e.body, 1, k)
             t == SubSeq(e.body, 1, k + 1)
             n == [x EXCEPT !.body = Append(x.body, y), !.diff = d]
  <1>1. k \in 0 .. Len(e.body) /\ k < Len(e.body) /\ k + 1 \in 0 .. Len(e.body)
    BY RunPlace
  <1>2. e.type = Modified /\ e.body \in Seq(OpType)
    BY DEF AtRun, Within, Place, Sound, Original, Added, Modified
  <1>3. t = Append(s, y)
    BY <1>1, <1>2, UpToNext
  <1>4. x = Fields(e.type, e.index, e.size, e.digest, s, x.diff)
    BY DEF InBody
  <1> HIDE DEF s, t, y
  <1>5. n = Fields(e.type, e.index, e.size, e.digest, t, d)
    <2> DEFINE p == x.diff
               h == [x EXCEPT !.body = t]
    <2>1. n = [x EXCEPT !.body = Append(x.body, y), !.diff = d] /\ x.body = s
      BY <1>4 DEF Fields
    <2>2. n = [h EXCEPT !.diff = d]
      BY <1>3, <2>1
    <2>3. x = Fields(e.type, e.index, e.size, e.digest, s, p)
      BY <1>4
    <2> HIDE DEF p, n
    <2>4. h = Fields(e.type, e.index, e.size, e.digest, t, p)
      BY <2>3 DEF Fields
    <2> HIDE DEF h
    <2> QED
      BY <2>2, <2>4 DEF Fields
  <1> HIDE DEF n
  <1>6. n.diff = d
    BY <1>5 DEF Fields
  <1>7. InBody(e, n, k + 1)
    BY <1>2, <1>5, <1>6 DEF InBody, t
  <1>8. AtBody("opcodes", e, o, v, b, k + 1)
    BY DEF AtBody
  <1>9. Entered("opcodes", e, n, o, v, b)
    BY <1>1, <1>7, <1>8 DEF Entered
  <1> QED
    BY <1>9 DEF n, y

(* The length of a deletion.                                               *)
LEMMA LockLength ==
    ASSUME IInv, ParseInv, LockInv, ReadLength
    PROVE  LockInv'
  <1>1. /\ pc = "length" /\ written' = written /\ trailer' = trailer /\ listed' = listed
        /\ op' = op /\ pc \in Reading \ {"item", "trailer"}
    BY DEF ReadLength, shown, Reading
  <1>2. PICK r \in ReadChunk(file, content, FixedBytes) :
           /\ file' = r.file
           /\ IF Len(r.bytes) < FixedBytes THEN Refuse(r.file) /\ item' = item
              ELSE Tally([op EXCEPT !.del = LoadFixed(r.bytes)])
    BY DEF ReadLength
  <1> DEFINE c == content
             w == AllWritten
             e == Coming
             b == Here
             z == There
             u == Upto(file, c)
             v == Upto(r.file, c)
             x == item
             o == [op EXCEPT !.del = LoadFixed(r.bytes)]
             Short == Len(r.bytes) < FixedBytes
  <1>3. Short \/ (pc' = "opcodes" /\ \E d : item' = [x EXCEPT !.body = Append(x.body, o), !.diff = d])
    <2> HIDE DEF o, Short
    <2> QED
      BY <1>2 DEF Tally, Goto, o, Short
  <1>4. ASSUME damage # "altered"
        PROVE  \/ ~Short /\ Entered(pc', e, item', op', v, b)
               \/ Short /\ Excused(r.file, c, w)
    <2>1. pc \in InRun \ {"opcodes"}
      BY <1>1 DEF InRun
    <2>2. PICK k \in 0 .. Len(e.body) :
             /\ AtRun(c, w, file, e, b, z, k) /\ InBody(e, x, k) /\ AtBody(pc, e, op, u, b, k)
      BY <1>4, <2>1, InsideOpcode
    <2>3. r \in ReadChunk(file, c, FixedBytes)
      BY <1>2
    <2>4. op.op = "X"
      BY <1>1 DEF ParseInv, EntryInv, Placed
    <2> HIDE DEF c, w, e, b, z, u, v, x, Short
    <2> DEFINE y == e.body[k + 1]
    <2>5. op = Opcode(y.op, y.pos, <<>>, 0) /\ Left(u, e, b, k, Rest(y)) /\ y.op = "X"
      BY <1>1, <2>2, <2>4 DEF AtBody, Opcode
    <2>6. \/ ~Short /\ o = y /\ v = Ran(e, b, k + 1)
          \/ Short /\ Excused(r.file, c, w)
      <3>1. y = e.body[k + 1] /\ Left(Upto(file, c), e, b, k, Rest(y)) /\ y.op = "X"
        BY <2>5 DEF u
      <3>2. AtRun(c, w, file, e, b, z, k)
        BY <2>2
      <3>3. o = WithDel(y, LoadFixed(r.bytes))
        BY <2>5 DEF WithDel
      <3> HIDE DEF y, o
      <3>4. /\ Known(r.file, c)
            /\ \/ /\ ~(Len(r.bytes) < FixedBytes)
                  /\ WithDel(y, LoadFixed(r.bytes)) = y
                  /\ Upto(r.file, c) = Ran(e, b, k + 1)
               \/ Len(r.bytes) < FixedBytes /\ Excused(r.file, c, w)
        BY <2>3, <3>1, <3>2, LengthTaken
      <3> QED
        BY <3>3, <3>4 DEF v, Short
    <2> HIDE DEF o
    <2>7. ASSUME ~Short PROVE Entered(pc', e, item', op', v, b)
      <3>1. o = y /\ v = Ran(e, b, k + 1) /\ AtRun(c, w, file, e, b, z, k) /\ InBody(e, x, k)
        BY <2>2, <2>6, <2>7
      <3>2. PICK d : item' = [x EXCEPT !.body = Append(x.body, o), !.diff = d]
        BY <1>3, <2>7
      <3> DEFINE n == [x EXCEPT !.body = Append(x.body, e.body[k + 1]), !.diff = d]
      <3>3. item' = n /\ pc' = "opcodes"
        BY <1>3, <2>7, <3>1, <3>2
      <3>4. Entered("opcodes", e, n, op', v, b)
        BY <3>1, Tallied
      <3> QED
        BY <3>3, <3>4
    <2> QED
      BY <2>6, <2>7
  <1>5. file' = r.file /\ (Short => Refuse(r.file))
    BY <1>2
  <1> HIDE DEF c, w, e, b, z, u, v, x, o, Short
  <1>6. CASE Short
    <2>1. pc' = "done"
      BY <1>5, <1>6, RefuseFails
    <2>2. damage # "altered" => Excused(r.file, c, w)
      BY <1>4, <1>6
    <2> QED
      BY <1>1, <1>5, <2>1, <2>2, Fails DEF c, w
  <1>7. CASE ~Short
    <2>1. damage # "altered" => Entered(pc', e, item', op', v, b)
      BY <1>4, <1>7
    <2>2. pc' \in Reading \ {"item", "trailer"}
      BY <1>3, <1>7 DEF Reading
    <2> QED
      BY <1>1, <1>5, <2>1, <2>2, Enters DEF c, e, b, v
  <1> QED
    BY <1>6, <1>7

(* The count of an opcode's bytes, and these.                              *)
LEMMA LockInline ==
    ASSUME IInv, ParseInv, LockInv, ReadInline
    PROVE  LockInv'
  <1>1. /\ pc = "inline" /\ written' = written /\ trailer' = trailer /\ listed' = listed
        /\ op' = op /\ pc \in Reading \ {"item", "trailer"}
    BY DEF ReadInline, shown, Reading
  <1>2. PICK q \in ReadByte(file, content) :
           IF q.byte = EndOfFile
           THEN file' = q.file /\ Refuse(q.file) /\ item' = item
           ELSE \E r \in ReadChunk(q.file, content, q.byte) :
                   /\ file' = r.file
                   /\ IF Len(r.bytes) < q.byte THEN Refuse(r.file) /\ item' = item
                      ELSE Tally([op EXCEPT !.bytes = r.bytes])
    BY DEF ReadInline
  <1> DEFINE c == content
             w == AllWritten
             e == Coming
             b == Here
             z == There
             u == Upto(file, c)
             x == item
             t == Upto(q.file, c)
             Y(k) == e.body[k + 1]
  <1>3. ASSUME damage # "altered"
        PROVE  \/ q.byte = EndOfFile /\ Excused(q.file, c, w)
               \/ /\ q.byte # EndOfFile
                  /\ \E k \in 0 .. Len(e.body) :
                        /\ AtRun(c, w, q.file, e, b, z, k) /\ InBody(e, x, k)
                        /\ op = Opcode(Y(k).op, Y(k).pos, <<>>, 0) /\ Y(k).op # "X"
                        /\ q.byte = Len(Y(k).bytes) /\ Left(t, e, b, k, Y(k).bytes)
    <2>1. pc \in InRun \ {"opcodes"}
      BY <1>1 DEF InRun
    <2>2. PICK k \in 0 .. Len(e.body) :
             /\ AtRun(c, w, file, e, b, z, k) /\ InBody(e, x, k) /\ AtBody(pc, e, op, u, b, k)
      BY <1>3, <2>1, InsideOpcode
    <2>3. q \in ReadByte(file, c)
      BY <1>2
    <2>4. op.op # "X"
      BY <1>1 DEF ParseInv, EntryInv, Placed
    <2> HIDE DEF c, w, e, b, z, u, x, t
    <2> DEFINE y == e.body[k + 1]
    <2>5. op = Opcode(y.op, y.pos, <<>>, 0) /\ Left(u, e, b, k, Rest(y)) /\ y.op # "X"
      BY <1>1, <2>2, <2>4 DEF AtBody, Opcode
    <2>6. /\ Known(q.file, c)
          /\ \/ q.byte = Len(y.bytes) /\ Left(Upto(q.file, c), e, b, k, y.bytes)
             \/ q.byte = EndOfFile /\ Excused(q.file, c, w)
      <3>1. y = e.body[k + 1] /\ Left(Upto(file, c), e, b, k, Rest(y)) /\ y.op # "X"
        BY <2>5 DEF u
      <3>2. AtRun(c, w, file, e, b, z, k)
        BY <2>2
      <3> HIDE DEF y
      <3> QED
        BY <2>3, <3>1, <3>2, CountTaken
    <2>7. AtRun(c, w, q.file, e, b, z, k)
      BY <2>2, <2>6 DEF AtRun, Within
    <2>8. Len(y.bytes) # EndOfFile
      <3>1. Len(y.bytes) \in Byte
        BY <2>2, RunPlace, OpcodeParts
      <3> QED
        BY <3>1, ByteType
    <2>9. y = Y(k)
      OBVIOUS
    <2> HIDE DEF y, Y
    <2>10. /\ op = Opcode(Y(k).op, Y(k).pos, <<>>, 0) /\ Y(k).op # "X"
           /\ Len(Y(k).bytes) # EndOfFile
           /\ \/ q.byte = Len(Y(k).bytes) /\ Left(t, e, b, k, Y(k).bytes)
              \/ q.byte = EndOfFile /\ Excused(q.file, c, w)
      BY <2>5, <2>6, <2>8, <2>9 DEF t
    <2> QED
      BY <2>2, <2>7, <2>10
  <1> HIDE DEF c, w, e, b, z, u, x, t
  <1>4. CASE q.byte = EndOfFile
    <2>1. pc' = "done" /\ file' = q.file
      BY <1>2, <1>4, RefuseFails
    <2>2. damage # "altered" => Excused(q.file, c, w)
      BY <1>3, <1>4
    <2> QED
      BY <1>1, <2>1, <2>2, Fails DEF c, w
  <1>5. CASE q.byte # EndOfFile
    <2>1. PICK r \in ReadChunk(q.file, content, q.byte) :
             /\ file' = r.file
             /\ IF Len(r.bytes) < q.byte THEN Refuse(r.file) /\ item' = item
                ELSE Tally([op EXCEPT !.bytes = r.bytes])
      BY <1>2, <1>5
    <2> DEFINE o == [op EXCEPT !.bytes = r.bytes]
               v == Upto(r.file, c)
               Short == Len(r.bytes) < q.byte
    <2>2. Short \/ (pc' = "opcodes" /\ \E d : item' = [x EXCEPT !.body = Append(x.body, o), !.diff = d])
      <3> HIDE DEF o, Short
      <3> QED
        BY <2>1 DEF Tally, Goto, o, Short, x
    <2>3. ASSUME damage # "altered"
          PROVE  \/ ~Short /\ Entered(pc', e, item', op', v, b)
                 \/ Short /\ Excused(r.file, c, w)
      <3>1. PICK k \in 0 .. Len(e.body) :
               /\ AtRun(c, w, q.file, e, b, z, k) /\ InBody(e, x, k)
               /\ op = Opcode(Y(k).op, Y(k).pos, <<>>, 0) /\ Y(k).op # "X"
               /\ q.byte = Len(Y(k).bytes) /\ Left(t, e, b, k, Y(k).bytes)
        BY <1>3, <1>5, <2>3
      <3> DEFINE y == Y(k)
      <3>2. r \in ReadChunk(q.file, c, Len(y.bytes))
        BY <2>1, <3>1 DEF c
      <3>3. \/ ~Short /\ o = y /\ v = Ran(e, b, k + 1)
            \/ Short /\ Excused(r.file, c, w)
        <4>1. y = e.body[k + 1] /\ Left(Upto(q.file, c), e, b, k, y.bytes) /\ y.op # "X"
          BY <3>1 DEF t
        <4>2. AtRun(c, w, q.file, e, b, z, k)
          BY <3>1
        <4>3. o = WithBytes(y, r.bytes)
          BY <3>1 DEF WithBytes
        <4>4. q.byte = Len(y.bytes)
          BY <3>1
        <4> HIDE DEF y, o, Y
        <4>5. /\ Known(r.file, c)
              /\ \/ /\ ~(Len(r.bytes) < Len(y.bytes))
                    /\ WithBytes(y, r.bytes) = y
                    /\ Upto(r.file, c) = Ran(e, b, k + 1)
                 \/ Len(r.bytes) < Len(y.bytes) /\ Excused(r.file, c, w)
          BY <3>2, <4>1, <4>2, BytesTaken
        <4> QED
          BY <4>3, <4>4, <4>5 DEF v
      <3> HIDE DEF o, Short
      <3>4. ASSUME ~Short PROVE Entered(pc', e, item', op', v, b)
        <4>1. o = y /\ v = Ran(e, b, k + 1) /\ AtRun(c, w, q.file, e, b, z, k) /\ InBody(e, x, k)
          BY <3>1, <3>3, <3>4
        <4>2. PICK d : item' = [x EXCEPT !.body = Append(x.body, o), !.diff = d]
          BY <2>2, <3>4
        <4> DEFINE n == [x EXCEPT !.body = Append(x.body, e.body[k + 1]), !.diff = d]
        <4>3. item' = n /\ pc' = "opcodes"
          BY <2>2, <3>4, <4>1, <4>2
        <4>4. Entered("opcodes", e, n, op', v, b)
          <5> HIDE DEF v
          <5> QED
            BY <4>1, Tallied
        <4> QED
          BY <4>3, <4>4
      <3> QED
        BY <3>3, <3>4
    <2>4. file' = r.file /\ (Short => Refuse(r.file))
      BY <2>1
    <2> HIDE DEF v, o, Short
    <2>5. CASE Short
      <3>1. pc' = "done"
        BY <2>4, <2>5, RefuseFails
      <3>2. damage # "altered" => Excused(r.file, c, w)
        BY <2>3, <2>5
      <3> QED
        BY <1>1, <2>4, <3>1, <3>2, Fails DEF c, w
    <2>6. CASE ~Short
      <3>1. damage # "altered" => Entered(pc', e, item', op', v, b)
        BY <2>3, <2>6
      <3>2. pc' \in Reading \ {"item", "trailer"}
        BY <2>2, <2>6 DEF Reading
      <3> QED
        BY <1>1, <2>4, <3>1, <3>2, Enters DEF c, e, b, v
    <2> QED
      BY <2>5, <2>6
  <1> QED
    BY <1>4, <1>5

(* At the end of the file there is nothing to peek at.                     *)
LEMMA AtEnd ==
    ASSUME NEW c \in Seq(Byte), NEW f, Known(f, c), Upto(f, c) = c, NEW p \in PeekByte(f, c)
    PROVE  p.byte = EndOfFile
  <1> SUFFICES ASSUME p.byte # EndOfFile PROVE FALSE
    OBVIOUS
  <1>1. /\ Known(p.file, c) /\ Upto(p.file, c) = c /\ p.file.buf # <<>>
        /\ Head(p.file.buf) = p.byte /\ p.byte \in Byte
    BY Peeks
  <1> DEFINE b == <<p.byte>>
  <1>2. Begins(c \o b, c)
    BY <1>1, UptoBegins
  <1>3. b \in Seq(Byte) /\ Len(b) = 1
    BY <1>1
  <1> HIDE DEF b
  <1>4. Len(c) \in Nat /\ c \o b \in Seq(Byte) /\ Len(c \o b) = Len(c) + 1
    <2>1. Len(c) \in Nat
      BY LenProperties
    <2>2. c \o b \in Seq(Byte) /\ Len(c \o b) = Len(c) + Len(b)
      BY <1>3, ConcatProperties
    <2> QED
      BY <1>3, <2>1, <2>2
  <1>5. Len(c \o b) <= Len(c)
    BY <1>2, <1>4, BeginsAlike
  <1> QED
    BY <1>4, <1>5

(* After the last record, the trailer is the one that was written, and     *)
(* with it all of the delta has been read.                                 *)
LEMMA TrailerTaken ==
    ASSUME NEW es, NEW d, NEW w, AllOf(es, d, w), NEW c, Along(c, w),
           NEW f, Known(f, c), Upto(f, c) = Records(es, Len(es)),
           NEW t \in ReadByte(f, c), t.byte = TrailerTag, NEW r \in ReadChunk(t.file, c, Len(d))
    PROVE  /\ Known(r.file, c)
           /\ \/ r.bytes = d /\ Upto(r.file, c) = c /\ c = w
              \/ Len(r.bytes) < Len(d) /\ Excused(r.file, c, w)
  <1> DEFINE u == Upto(f, c)
             v == Upto(t.file, c)
             x == Upto(r.file, c)
             g == <<TrailerTag>>
  <1>1. /\ AllSound(es) /\ Len(es) \in Nat /\ d \in Seq(Byte) /\ w = u \o (g \o d)
        /\ c \in Seq(Byte) /\ Begins(c, w)
    BY DEF AllOf, AllSound, Whole, TrailerRecord, Along
  <1>2. g \in Seq(Byte) /\ TrailerTag \in Byte /\ TrailerTag # EndOfFile
    BY LayoutAssumption, ByteType
  <1>3. u \in Seq(Byte)
    BY <1>1, UptoBegins
  <1> HIDE DEF u, v, x, g
  <1>4. w \in Seq(Byte) /\ Begins(w, w)
    <2>1. g \o d \in Seq(Byte)
      BY <1>1, <1>2, ConcatProperties
    <2>2. w \in Seq(Byte)
      BY <1>1, <1>3, <2>1, ConcatProperties
    <2>3. w \o <<>> = w /\ <<>> \in Seq(Byte)
      BY <2>2, Empties
    <2> QED
      BY <2>2, <2>3 DEF Begins
  <1>5. Awaits(c, w, f, g, d, w)
    BY <1>1, <1>2, <1>3, <1>4 DEF Awaits, ComesNext, u
  <1>6. Known(t.file, c) /\ v \o d = w
    <2> DEFINE y == TrailerTag
    <2>1. y \in Byte /\ Awaits(c, w, f, <<y>>, d, w)
      BY <1>2, <1>5 DEF g
    <2>2. t.byte = y /\ y # EndOfFile
      BY <1>2
    <2> HIDE DEF y
    <2>3. /\ Known(t.file, c)
          /\ \/ t.byte = y /\ Upto(t.file, c) \o d = w
             \/ t.byte = EndOfFile /\ Excused(t.file, c, w)
      BY <2>1, ByteTaken
    <2> QED
      BY <2>2, <2>3 DEF v
  <1>7. Awaits(c, w, t.file, d, <<>>, w)
    <2>1. v \in Seq(Byte)
      BY <1>1, <1>6, UptoBegins DEF v
    <2>2. d \o <<>> = d /\ <<>> \in Seq(Byte)
      BY <1>1, Empties
    <2>3. v \o (d \o <<>>) = w
      BY <1>6, <2>2
    <2> QED
      BY <1>1, <1>4, <1>6, <2>1, <2>2, <2>3 DEF Awaits, ComesNext, Along, v
  <1>8. /\ Known(r.file, c)
        /\ \/ r.bytes = d /\ x \o <<>> = w
           \/ Len(r.bytes) < Len(d) /\ Excused(r.file, c, w)
    BY <1>7, FieldTaken DEF x
  <1>9. ASSUME x \o <<>> = w PROVE x = c /\ c = w
    <2>1. x \in Seq(Byte) /\ Begins(x, c)
      BY <1>1, <1>8, UptoBegins DEF x
    <2>2. x = w
      BY <1>9, <2>1, Empties
    <2>3. /\ Len(x) \in Nat /\ Len(c) \in Nat /\ Len(x) <= Len(c) /\ (Len(x) = Len(c) => x = c)
      BY <2>1, BeginsAlike
    <2>4. Len(c) <= Len(w)
      BY <1>1, BeginsAlike
    <2>5. Len(x) = Len(c)
      BY <2>2, <2>3, <2>4
    <2> QED
      BY <2>2, <2>3, <2>5
  <1> QED
    BY <1>8, <1>9 DEF x

(* What is listed agrees with what was written, as far as it goes.         *)
LEMMA ListedIsWritten ==
    ASSUME IInv, ParseInv, LockInv, Len(listed) = Len(Written),
           \A k \in 1 .. Len(listed) : listed[k] = Written[k]
    PROVE  listed = Written
  <1>1. PICK T : Written \in Seq(T)
    BY WrittenSound
  <1> DEFINE S == T \cup Complete
  <1>2. listed \in Seq(Complete)
    BY DEF ParseInv, EntryInv
  <1>3. listed \in Seq(S) /\ Written \in Seq(S)
    BY <1>1, <1>2
  <1> HIDE DEF S
  <1> QED
    BY <1>3, SeqEqual

(* The trailer, and the end of the file after it.                          *)
LEMMA LockTrailer ==
    ASSUME IInv, ParseInv, LockInv, ReadTrailer
    PROVE  LockInv'
  <1>1. /\ pc = "trailer" /\ written' = written /\ listed' = listed
        /\ op' = op /\ item' = item /\ pc \in Reading /\ pc # "write"
    BY DEF ReadTrailer, Reading
  <1>2. PICK t \in ReadByte(file, content) : \E r \in ReadChunk(t.file, content, TrailerBytes) :
          IF Len(r.bytes) < TrailerBytes
          THEN file' = r.file /\ Refuse(r.file) /\ trailer' = trailer
          ELSE \E p \in PeekByte(r.file, content) :
                  /\ file' = p.file
                  /\ IF p.byte # EndOfFile \/ p.file.error
                     THEN Refuse(p.file) /\ trailer' = trailer
                     ELSE trailer' = r.bytes /\ pc' = "finish"
    BY DEF ReadTrailer, Goto
  <1>3. PICK r \in ReadChunk(t.file, content, TrailerBytes) :
          IF Len(r.bytes) < TrailerBytes
          THEN file' = r.file /\ Refuse(r.file) /\ trailer' = trailer
          ELSE \E p \in PeekByte(r.file, content) :
                  /\ file' = p.file
                  /\ IF p.byte # EndOfFile \/ p.file.error
                     THEN Refuse(p.file) /\ trailer' = trailer
                     ELSE trailer' = r.bytes /\ pc' = "finish"
    BY <1>2
  <1>4. /\ content \in Seq(Byte) /\ Known(file, content) /\ trailer = <<>>
        /\ TrailerBytes \in Nat /\ TrailerTag \in Byte
    BY <1>1, Before, LayoutAssumption
  <1>5. t.byte = TrailerTag
    BY <1>1, <1>2, <1>4, Bytewise DEF ParseInv, ReadInv
  <1> DEFINE c == content
             w == AllWritten
             x == Upto(r.file, c)
             Short == Len(r.bytes) < TrailerBytes
  <1>6. ASSUME damage # "altered"
        PROVE  /\ Known(r.file, c) /\ listed = Written /\ (damage = "none" => c = w)
               /\ \/ ~Short /\ r.bytes = whole /\ x = c /\ c = w
                  \/ Short /\ Excused(r.file, c, w)
    <2>1. /\ AllOf(Written, whole, w) /\ Along(c, w) /\ Known(file, c) /\ Len(Written) \in Nat
          /\ damage = "none" => c = w
      BY <1>1, <1>6, Setting
    <2>2. InStep
      BY <1>1, <1>6 DEF LockInv, Stuck
    <2>3. /\ Len(listed) = Len(Written) /\ \A k \in 1 .. Len(listed) : listed[k] = Written[k]
          /\ Upto(file, c) = Records(Written, Len(Written))
      BY <1>1, <2>2 DEF InStep, StepAt
    <2>4. listed = Written
      BY <2>3, ListedIsWritten
    <2>5. Len(whole) = TrailerBytes
      BY <1>1, ChunkAssumption DEF LockInv
    <2>6. r \in ReadChunk(t.file, c, Len(whole)) /\ t \in ReadByte(file, c)
      BY <1>2, <1>3, <2>5
    <2> HIDE DEF c, w
    <2>7. /\ Known(r.file, c)
          /\ \/ r.bytes = whole /\ Upto(r.file, c) = c /\ c = w
             \/ Len(r.bytes) < Len(whole) /\ Excused(r.file, c, w)
      BY <1>5, <2>1, <2>3, <2>6, TrailerTaken
    <2> QED
      BY <1>4, <2>1, <2>4, <2>5, <2>7
  <1> HIDE DEF c, w, x, Short
  <1>7. CASE Short
    <2>1. file' = r.file /\ pc' = "done" /\ trailer' = trailer
      BY <1>3, <1>7, RefuseFails DEF Short
    <2>2. damage # "altered" => Excused(r.file, c, w)
      BY <1>6, <1>7
    <2> QED
      BY <1>1, <2>1, <2>2, Fails DEF c, w
  <1>8. CASE ~Short
    <2>1. PICK p \in PeekByte(r.file, content) :
                  /\ file' = p.file
                  /\ IF p.byte # EndOfFile \/ p.file.error
                     THEN Refuse(p.file) /\ trailer' = trailer
                     ELSE trailer' = r.bytes /\ pc' = "finish"
      BY <1>3, <1>8 DEF Short
    <2>2. ASSUME damage # "altered"
          PROVE  p.byte = EndOfFile /\ listed = Written /\ r.bytes = whole /\ c = w
      <3>1. Known(r.file, c) /\ listed = Written /\ r.bytes = whole /\ x = c /\ c = w
        BY <1>6, <1>8, <2>2
      <3>2. c \in Seq(Byte) /\ p \in PeekByte(r.file, c)
        BY <1>4, <2>1 DEF c
      <3>3. Upto(r.file, c) = c
        BY <3>1 DEF x
      <3>4. p.byte = EndOfFile
        BY <3>1, <3>2, <3>3, AtEnd
      <3> QED
        BY <3>1, <3>4
    <2>3. CASE p.byte # EndOfFile \/ p.file.error
      <3>1. file' = p.file /\ pc' = "done" /\ trailer' = trailer
        BY <2>1, <2>3, RefuseFails
      <3>2. damage # "altered" => Excused(p.file, c, w)
        BY <2>2, <2>3 DEF Excused
      <3> QED
        BY <1>1, <3>1, <3>2, Fails DEF c, w
    <2>4. CASE ~(p.byte # EndOfFile \/ p.file.error)
      <3>1. trailer' = r.bytes /\ pc' = "finish" /\ file' = p.file
        BY <2>1, <2>4
      <3>2. /\ chunks' = chunks /\ content' = content /\ whole' = whole /\ damage' = damage
        BY <1>1 DEF written
      <3>3. Written' = Written /\ AllWritten' = AllWritten
        BY <3>2 DEF Written, AllWritten
      <3>4. /\ Len(chunks') <= MaxItems /\ whole' \in Wholes
            /\ damage' # "altered" => Begins(content', AllWritten')
            /\ damage' = "none" => content' = AllWritten'
            /\ damage' = "cut" => content' # AllWritten'
        BY <1>1, <3>2, <3>3 DEF LockInv
      <3>5. damage # "cut"
        BY <1>1, <2>2 DEF LockInv, c, w
      <3>6. damage' = "none" => listed' = Written' /\ trailer' = whole'
        BY <1>1, <2>2, <3>1, <3>2, <3>3
      <3>7. pc' # "write" /\ pc' \notin Reading /\ pc' # "done"
        BY <3>1 DEF Reading
      <3> QED
        BY <3>2, <3>4, <3>5, <3>6, <3>7 DEF LockInv
    <2> QED
      BY <2>3, <2>4
  <1> QED
    BY <1>7, <1>8

(* Where no read has failed, the delta is accepted.                        *)
LEMMA LockFinish ==
    ASSUME IInv, ParseInv, LockInv, Finish
    PROVE  LockInv'
  <1>1. /\ pc = "finish" /\ written' = written /\ trailer' = trailer /\ listed' = listed
        /\ file' = file /\ pc' = "done"
        /\ ~file.error /\ trailer # <<>> => status' = 0
    BY DEF Finish, shown, Refuse
  <1>2. /\ chunks' = chunks /\ content' = content /\ whole' = whole /\ damage' = damage
    BY <1>1 DEF written
  <1>3. Written' = Written /\ AllWritten' = AllWritten
    BY <1>2 DEF Written, AllWritten
  <1>4. /\ Len(chunks') <= MaxItems /\ whole' \in Wholes
        /\ damage' # "altered" => Begins(content', AllWritten')
        /\ damage' = "none" => content' = AllWritten'
        /\ damage' = "cut" => content' # AllWritten' /\ trailer' = <<>>
    BY <1>1, <1>2, <1>3 DEF LockInv
  <1>5. whole # <<>>
    <2>1. Len(whole) = TrailerBytes /\ TrailerBytes \in Nat \ {0}
      BY <1>1, ChunkAssumption, LayoutAssumption DEF LockInv
    <2> QED
      BY <2>1, EmptySeq
  <1>6. ASSUME damage' = "none", ~file'.error
        PROVE  listed' = Written' /\ trailer' = whole' /\ status' = 0
    <2>1. listed = Written /\ trailer = whole
      BY <1>1, <1>2, <1>6 DEF LockInv
    <2> QED
      BY <1>1, <1>2, <1>3, <1>5, <1>6, <2>1
  <1>7. pc' # "write" /\ pc' \notin Reading
    BY <1>1 DEF Reading
  <1> QED
    BY <1>4, <1>6, <1>7 DEF LockInv

(* The records of the same entries are the same.                           *)
LEMMA RecordsSame ==
    ASSUME NEW es, NEW fs, NEW n \in Nat, \A k \in 1 .. n : es[k] = fs[k]
    PROVE  Records(es, n) = Records(fs, n)
  <1>1. [j \in 1 .. n |-> RecordBytes(es[j])] = [j \in 1 .. n |-> RecordBytes(fs[j])]
    OBVIOUS
  <1> QED
    BY <1>1 DEF Records

(* One more entry is written, and is the next to be listed.                *)
LEMMA LockEntry ==
    ASSUME IInv, LockInv, WriteEntry
    PROVE  LockInv'
  <1>1. /\ pc = "write" /\ pc' = "write" /\ Len(chunks) < MaxItems /\ damage' = damage
    BY DEF WriteEntry
  <1>2. PICK c \in Chunks :
           /\ chunks' = Append(chunks, c)
           /\ content' = content \o RecordBytes(EntryFor(c, Len(chunks)))
    BY DEF WriteEntry
  <1> DEFINE n == Len(chunks)
             es == Entries(chunks)
             fs == Entries(chunks')
  <1>3. /\ chunks \in Seq(Chunks) /\ n \in Nat /\ n < MaxItems /\ MaxItems \in Nat
        /\ damage = "none" /\ Written = es
    <2>1. n \in Nat /\ chunks \in Seq(Chunks)
      BY LenProperties DEF IInv, FileInv
    <2> QED
      BY <1>1, <2>1, ChunkAssumption DEF LockInv, Written, Entries
  <1>4. /\ chunks' \in Seq(Chunks) /\ Len(chunks') = n + 1
        /\ chunks'[n + 1] = c /\ \A k \in 1 .. n : chunks'[k] = chunks[k]
    BY <1>2, <1>3, AppendProperties
  <1>5. n + 1 <= MaxItems /\ n <= MaxItems
    BY <1>3
  <1>6. /\ Len(es) = n /\ \A k \in 1 .. n : es[k] = EntryFor(chunks[k], k - 1)
    BY <1>3, <1>5, EntriesSound
  <1>7. /\ AllSound(fs) /\ Len(fs) = n + 1
        /\ \A k \in 1 .. n + 1 : fs[k] = EntryFor(chunks'[k], k - 1)
    BY <1>4, <1>5, EntriesSound
  <1>8. Written' = fs
    BY DEF Written, Entries
  <1>9. content = Records(es, n)
    BY <1>1, <1>3, <1>6 DEF LockInv
  <1> HIDE DEF n, es, fs
  <1>10. \A k \in 1 .. n : es[k] = fs[k]
    <2> TAKE k \in 1 .. n
    <2>1. k \in 1 .. n + 1
      BY <1>3
    <2> QED
      BY <1>4, <1>6, <1>7, <2>1
  <1>11. fs[n + 1] = EntryFor(c, n)
    <2>1. n + 1 \in 1 .. n + 1 /\ (n + 1) - 1 = n
      BY <1>3
    <2> QED
      BY <1>4, <1>7, <2>1
  <1>12. content' = Records(fs, n + 1)
    <2>1. Records(es, n) = Records(fs, n)
      BY <1>3, <1>10, RecordsSame
    <2>2. n \in 0 .. Len(fs) /\ n < Len(fs)
      BY <1>3, <1>7
    <2>3. Records(fs, n + 1) = Records(fs, n) \o RecordBytes(fs[n + 1])
      BY <1>7, <2>2, RecordsNext
    <2>4. content' = content \o RecordBytes(EntryFor(c, n))
      BY <1>2 DEF n
    <2> QED
      BY <1>9, <1>11, <2>1, <2>3, <2>4
  <1>13. content' = Records(Written', Len(Written'))
    BY <1>7, <1>8, <1>12
  <1> QED
    BY <1>1, <1>3, <1>4, <1>5, <1>13 DEF LockInv, Reading

(* The trailer is written: the delta is complete.                          *)
LEMMA LockTrail ==
    ASSUME IInv, LockInv, WriteTrailer
    PROVE  LockInv'
  <1>1. /\ pc = "write" /\ pc' = "stored" /\ whole' \in Wholes
        /\ content' = content \o TrailerRecord(whole')
        /\ chunks' = chunks /\ damage' = damage
    BY DEF WriteTrailer
  <1>2. /\ damage = "none" /\ content = Records(Written, Len(Written)) /\ Len(chunks) <= MaxItems
    BY <1>1 DEF LockInv
  <1>3. Written' = Written
    BY <1>1 DEF Written
  <1>4. content' = AllWritten'
    BY <1>1, <1>2, <1>3 DEF AllWritten, Whole
  <1>5. Begins(content', AllWritten')
    <2>1. content \in Seq(Byte) /\ TrailerRecord(whole') \in Seq(Byte)
      BY <1>1, WrittenIsBytes DEF IInv, FileInv
    <2>2. content' \in Seq(Byte)
      BY <1>1, <2>1, ConcatProperties
    <2>3. content' \o <<>> = content' /\ <<>> \in Seq(Byte)
      BY <2>2, Empties
    <2> QED
      BY <1>4, <2>3 DEF Begins
  <1>6. pc' # "write" /\ pc' \notin Reading /\ pc' \notin {"finish", "done"}
    BY <1>1 DEF Reading
  <1> QED
    BY <1>1, <1>2, <1>4, <1>5, <1>6 DEF LockInv

(* A delta that is cut begins as it was written, and ends too early.       *)
LEMMA LockDamage ==
    ASSUME IInv, ParseInv, LockInv, Damage
    PROVE  LockInv'
  <1>1. /\ pc = "stored" /\ pc' = "stored" /\ damage = "none" /\ trailer' = trailer
        /\ chunks' = chunks /\ whole' = whole
        /\ \/ damage' = "cut" /\ \E k \in 0 .. Len(content) - 1 : content' = SubSeq(content, 1, k)
           \/ damage' = "altered"
    BY DEF Damage, shown
  <1>2. Written' = Written /\ AllWritten' = AllWritten
    BY <1>1 DEF Written, AllWritten
  <1>3. /\ whole \in Wholes /\ content = AllWritten /\ Len(chunks) <= MaxItems
        /\ trailer = <<>> /\ content \in Seq(Byte)
    BY <1>1 DEF LockInv, ParseInv, EndInv, IInv, FileInv
  <1>4. pc' # "write" /\ pc' \notin Reading /\ pc' \notin {"finish", "done"}
    BY <1>1 DEF Reading
  <1>5. CASE damage' = "altered"
    BY <1>1, <1>3, <1>4, <1>5 DEF LockInv
  <1>6. CASE damage' # "altered"
    <2>1. damage' = "cut"
      BY <1>1, <1>6
    <2>2. PICK k \in 0 .. Len(content) - 1 : content' = SubSeq(content, 1, k)
      BY <1>1, <1>6
    <2>3. Len(content) \in Nat /\ k \in Nat /\ k < Len(content)
      BY <1>3, <2>2, LenProperties
    <2>4. \A i \in 1 .. k : content[i] \in Byte
      <3>1. \A i \in 1 .. k : i \in 1 .. Len(content)
        BY <2>3
      <3> QED
        BY <1>3, <3>1, ElementOfSeq
    <2> DEFINE t == SubSeq(content, 1, k)
    <2>5. /\ t \in Seq(Byte) /\ Len(t) = (IF 1 <= k THEN k - 1 + 1 ELSE 0)
          /\ \A i \in 1 .. k - 1 + 1 : t[i] = content[1 + i - 1]
      <3>1. 1 \in Int /\ k \in Int
        BY <2>3
      <3> QED
        BY <2>4, <3>1, SubSeqProperties
    <2>6. Len(t) = k /\ \A i \in 1 .. k : content[i] = t[i]
      <3> HIDE DEF t
      <3>1. Len(t) = k /\ k - 1 + 1 = k
        BY <2>3, <2>5
      <3>2. \A i \in 1 .. k : 1 + i - 1 = i
        OBVIOUS
      <3> QED
        BY <2>5, <3>1, <3>2
    <2>7. content' = t
      BY <2>2
    <2> HIDE DEF t
    <2>8. Begins(t, content) /\ t # content
      BY <1>3, <2>3, <2>5, <2>6, PrefixBegins
    <2> QED
      BY <1>1, <1>2, <1>3, <1>4, <2>1, <2>7, <2>8 DEF LockInv
  <1> QED
    BY <1>5, <1>6

(* Every step keeps the reader in step with the writer.                    *)
LEMMA LockStep ==
    ASSUME IInv, ParseInv, LockInv, [Next]_vars
    PROVE  LockInv'
  <1>1. CASE UNCHANGED vars
    <2>1. /\ chunks' = chunks /\ content' = content /\ whole' = whole /\ damage' = damage
          /\ pc' = pc /\ file' = file /\ item' = item /\ op' = op
          /\ listed' = listed /\ trailer' = trailer /\ status' = status
      BY <1>1 DEF vars, written, shown
    <2>2. Written' = Written /\ AllWritten' = AllWritten
      BY <2>1 DEF Written, AllWritten
    <2>3. InStep' = InStep /\ Stuck' = Stuck
      <3>1. Upto(file, content)' = Upto(file, content)
        BY <2>1 DEF Upto, Position
      <3> QED
        BY <2>1, <2>2, <3>1 DEF InStep, Stuck
    <2> QED
      BY <2>1, <2>2, <2>3 DEF LockInv
  <1>2. CASE View
    <2>1. ASSUME NEW field \in {"index", "size"}, ReadNumber(field) PROVE LockInv'
      BY <2>1, LockIndex, LockSize
    <2>2. CASE Open \/ ReadHeader \/ NextItem \/ ReadTag
      BY <2>2, LockOpen, LockHeader, LockItem, LockTag
    <2>3. CASE ReadDigest \/ ReadPayload \/ AtOpcode \/ ReadOpcode
      BY <2>3, LockDigest, LockPayload, LockOpcodes, LockOpcode
    <2>4. CASE ReadPos \/ ReadLength \/ ReadInline
      BY <2>4, LockPos, LockLength, LockInline
    <2>5. CASE ReadTrailer \/ Finish
      BY <2>5, LockTrailer, LockFinish
    <2> QED
      BY <1>2, <2>1, <2>2, <2>3, <2>4, <2>5 DEF View
  <1> QED
    BY <1>1, <1>2, LockEntry, LockTrail, LockDamage DEF Next, Done

(* Nothing is written but the header.                                      *)
LEMMA LockStarts == Init => LockInv
  <1> SUFFICES ASSUME Init PROVE LockInv
    OBVIOUS
  <1>1. content = HeaderBytes /\ chunks = <<>> /\ damage = "none" /\ pc = "write"
    BY DEF Init
  <1>2. <<>> \in Seq(Chunks) /\ Len(<<>>) = 0 /\ 0 <= MaxItems
    BY EmptySeq, ChunkAssumption
  <1>3. Len(Written) = 0
    <2>1. Written = Entries(chunks)
      BY DEF Written, Entries
    <2>2. chunks \in Seq(Chunks) /\ Len(chunks) = 0
      BY <1>1, <1>2
    <2> QED
      BY <1>2, <2>1, <2>2, EntriesSound
  <1>4. Records(Written, 0) = HeaderBytes
    BY NoRecords
  <1> QED
    BY <1>1, <1>2, <1>3, <1>4 DEF LockInv, Reading

(* Unless a byte of the delta is altered, view reads each field of it      *)
(* where create has written it, and as the value that was written, up to   *)
(* where a read fails or the delta has been cut.                           *)
THEOREM InLockstep == Spec => []LockInv
  <1>1. IInv /\ ParseInv /\ LockInv /\ [Next]_vars => LockInv'
    BY LockStep
  <1> QED
    BY <1>1, LockStarts, Inductive, Parsed, PTL DEF Spec

(* Whatever is listed was written, in the same order.                      *)
LEMMA ListedSoFar ==
    ASSUME IInv, ParseInv, LockInv, damage = "none", ~file.error
    PROVE  /\ Len(listed) \in 0 .. Len(Written)
           /\ \A k \in 1 .. Len(listed) : listed[k] = Written[k]
  <1>1. Len(Written) \in Nat
    BY WrittenSound
  <1>2. CASE pc \in {"write", "stored", "header"}
    <2>1. listed = <<>>
      BY <1>2 DEF ParseInv, EntryInv
    <2>2. Len(listed) = 0
      BY <2>1, EmptySeq
    <2> QED
      BY <1>1, <2>2
  <1>3. CASE pc \in Reading
    <2>1. InStep
      BY <1>3 DEF LockInv, Stuck
    <2> QED
      BY <2>1 DEF InStep, StepAt
  <1>4. CASE pc \in {"finish", "done"}
    <2>1. listed = Written
      BY <1>4 DEF LockInv
    <2> QED
      BY <1>1, <2>1
  <1> QED
    BY <1>2, <1>3, <1>4 DEF IInv, PhaseInv, Reading

(* What create writes is what view lists (DeltaCodec.hpp:132-206,          *)
(* DeltaViewer.cpp:121-218): at every moment a prefix of the entries, and  *)
(* in the end all of them and the digest of the trailer, with status 0,    *)
(* for every width of a word, every number, size and content of the        *)
(* chunks, every length of the buffer and of the reads.                    *)
THEOREM ViewsWritten == Spec => []ViewsWhatWasWritten
  <1>1. IInv /\ ParseInv /\ LockInv => ViewsWhatWasWritten
    <2> SUFFICES ASSUME IInv, ParseInv, LockInv, damage = "none", ~file.error
                 PROVE  /\ IsPrefix(listed, Written)
                        /\ pc = "done" => status = 0 /\ listed = Written /\ trailer = whole
      BY DEF ViewsWhatWasWritten
    <2>1. pc = "done" => status = 0 /\ listed = Written /\ trailer = whole
      BY DEF LockInv
    <2>2. /\ Len(listed) \in 0 .. Len(Written)
          /\ \A k \in 1 .. Len(listed) : listed[k] = Written[k]
      BY ListedSoFar
    <2>3. PICK T : Written \in Seq(T)
      BY WrittenSound
    <2> DEFINE S == T \cup Complete
               n == Len(listed)
               s == SubSeq(listed, 1, n)
               t == SubSeq(Written, 1, n)
    <2>4. listed \in Seq(S) /\ Written \in Seq(S)
      BY <2>3 DEF ParseInv, EntryInv
    <2>5. n \in Nat /\ Len(Written) \in Nat /\ n <= Len(Written)
      BY <2>2, WrittenSound
    <2> HIDE DEF S, n
    <2>6. s = listed
      <3>1. n \in 0 .. Len(listed) /\ n = Len(listed)
        BY <2>5 DEF n
      <3> QED
        BY <2>4, <3>1, UpToNext
    <2>7. t \in Seq(S) /\ Len(t) = n /\ \A k \in 1 .. n : t[k] = Written[k]
      <3>1. n \in 0 .. Len(Written)
        BY <2>5
      <3>2. t \in Seq(S) /\ Len(t) = n
        BY <2>4, <3>1, UpToNext
      <3>3. \A k \in 1 .. n : Written[k] \in S
        <4>1. \A k \in 1 .. n : k \in 1 .. Len(Written)
          BY <2>5
        <4> QED
          BY <2>4, <4>1, ElementOfSeq
      <3>4. 1 \in Int /\ n \in Int
        BY <2>5
      <3>5. \A k \in 1 .. n - 1 + 1 : t[k] = Written[1 + k - 1]
        BY <3>3, <3>4, SubSeqProperties
      <3> HIDE DEF t
      <3>6. n - 1 + 1 = n /\ \A k \in 1 .. n : 1 + k - 1 = k
        BY <2>5
      <3> QED
        BY <3>2, <3>5, <3>6
    <2> HIDE DEF s, t
    <2>8. listed = t
      <3>1. Len(listed) = Len(t) /\ \A k \in 1 .. Len(listed) : listed[k] = t[k]
        BY <2>2, <2>7 DEF n
      <3> QED
        BY <2>4, <2>7, <3>1, SeqEqual
    <2>9. IsPrefix(listed, Written)
      BY <2>5, <2>6, <2>8 DEF IsPrefix, n, s, t
    <2> QED
      BY <2>1, <2>9
  <1> QED
    BY <1>1, Inductive, Parsed, InLockstep, PTL

(* No proper prefix of what create has written is accepted                 *)
(* (DeltaViewer.cpp:209-212, DeltaCodec.hpp:350-376): wherever the delta   *)
(* is cut, and whatever its digests and payloads look like there, view     *)
(* does not end with status 0.                                             *)
THEOREM CutsNoticed == Spec => []TruncationNoticed
  <1>1. ParseInv /\ LockInv => TruncationNoticed
    BY DEF ParseInv, EndInv, LockInv, TruncationNoticed, Accepted
  <1> QED
    BY <1>1, Parsed, InLockstep, PTL
=============================================================================
