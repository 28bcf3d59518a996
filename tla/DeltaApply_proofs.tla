------------------------- MODULE DeltaApply_proofs --------------------------
(***************************************************************************)
(* apply, for every delta of well-typed items, however long and in         *)
(* whatever order they come, every old file and every change of it.        *)
(***************************************************************************)
EXTENDS DeltaApply, Induction_proofs, FiniteSetTheorems

-----------------------------------------------------------------------------
LEMMA Lesser ==
    ASSUME NEW m \in Int, NEW n \in Int
    PROVE  Min({m, n}) \in Int /\ Min({m, n}) <= m /\ Min({m, n}) <= n
  BY MinOfTwo

-----------------------------------------------------------------------------
(* A patch under way over `old`, for an entry of `size` bytes.             *)
PatchGood(p, old, size) ==
    /\ p = [out |-> p.out, at |-> p.at] /\ p.out \in Seq(Byte) /\ p.at \in Nat
    /\ p.at <= Len(old) /\ Len(p.out) <= size

OpCode == [op : {"D", "I", "X"}, pos : Nat, bytes : Seq(Byte), del : Nat]

(* An opcode that passes the bounds checks keeps within both chunks.       *)
LEMMA OpcodeKeepsBounds ==
    ASSUME NEW old \in Seq(Byte), NEW size \in Nat, NEW p, PatchGood(p, old, size),
           NEW o \in OpCode, Fits(p, o, old, size)
    PROVE  PatchGood(PatchOp(p, o, old), old, size)
  <1> DEFINE match == o.pos - Len(p.out)
             from  == p.at + 1
             to    == p.at + match
             copy  == SubSeq(old, from, to)
             used  == Consumes(o)
             out   == p.out \o copy \o o.bytes
             at    == p.at + match + used
  <1>1. /\ p.out \in Seq(Byte) /\ p.at \in Nat /\ p.at <= Len(old)
        /\ Len(p.out) \in Nat /\ Len(old) \in Nat /\ Len(p.out) <= size
        /\ o.pos \in Nat /\ o.bytes \in Seq(Byte) /\ Len(o.bytes) \in Nat /\ o.del \in Nat
    BY LenProperties DEF PatchGood, OpCode
  <1>2. used \in Nat
    BY <1>1 DEF Consumes
  <1>3. /\ match \in Nat /\ match <= Len(old) - p.at
        /\ Len(o.bytes) <= size - Len(p.out) - match
        /\ used <= Len(old) - p.at - match
    BY <1>1 DEF Fits
  <1>4. PatchOp(p, o, old) = [out |-> out, at |-> at]
    BY DEF PatchOp, Patching
  <1> HIDE DEF match, used
  <1>5. from \in Nat \ {0} /\ to \in Int /\ to <= Len(old) /\ (from <= to <=> match > 0)
        /\ to - from + 1 = match
    BY SMTT(60), <1>1, <1>3
  <1> HIDE DEF from, to
  <1>6. copy \in Seq(Byte) /\ Len(copy) = IF from <= to THEN to - from + 1 ELSE 0
    BY <1>5, Part
  <1> HIDE DEF copy
  <1>7. Len(copy) = match
    BY <1>3, <1>5, <1>6
  <1>8. p.out \o copy \in Seq(Byte) /\ Len(p.out \o copy) = Len(p.out) + Len(copy)
    BY <1>1, <1>6, Joined
  <1>9. out \in Seq(Byte) /\ Len(out) = Len(p.out \o copy) + Len(o.bytes)
    BY <1>1, <1>8, Joined
  <1> HIDE DEF out
  <1>10. Len(out) <= size
    <2> DEFINE l     == Len(p.out \o copy)
               given == Len(o.bytes)
               had   == Len(p.out)
    <2>1. l = had + match /\ Len(out) = l + given
      BY <1>7, <1>8, <1>9
    <2>2. /\ had \in Nat /\ given \in Nat /\ match \in Nat
          /\ given <= size - had - match
      BY <1>1, <1>3
    <2> HIDE DEF l, given, had
    <2> QED
      BY SMTT(60), <2>1, <2>2
  <1>11. at \in Nat /\ at <= Len(old)
    BY SMTT(60), <1>1, <1>2, <1>3
  <1> HIDE DEF at
  <1> DEFINE q == PatchOp(p, o, old)
  <1>12. q = [out |-> q.out, at |-> q.at] /\ q.out = out /\ q.at = at
    BY <1>4
  <1> HIDE DEF q
  <1>13. PatchGood(q, old, size)
    BY <1>9, <1>10, <1>11, <1>12 DEF PatchGood
  <1> QED
    BY <1>13 DEF q

LEMMA TailIsBytes ==
    ASSUME NEW old \in Seq(Byte), NEW size \in Nat, NEW p, PatchGood(p, old, size),
           TailFits(p, old, size)
    PROVE  PatchTail(p, old, size) \in Seq(Byte)
  <1> DEFINE n == p.at + size - Len(p.out)
  <1>1. /\ p.out \in Seq(Byte) /\ p.at \in Nat /\ Len(p.out) \in Nat /\ Len(old) \in Nat
        /\ p.at + 1 \in Nat \ {0} /\ n \in Int /\ n <= Len(old)
    BY LenProperties DEF PatchGood, TailFits
  <1> HIDE DEF n
  <1>2. SubSeq(old, p.at + 1, n) \in Seq(Byte)
    BY <1>1, Part
  <1> QED
    BY <1>1, <1>2, Joined DEF PatchTail, n

-----------------------------------------------------------------------------
(* What the digits of an option spell.                                     *)
Spells(it, ds) ==
    it = [s \in SUBSET DOMAIN ds |->
             IF s = {} THEN 0 ELSE 10 * it[s \ {Max(s)}] + ds[Max(s)]]

LEMMA SpelledChosen ==
    ASSUME NEW ds, NEW it, Spells(it, ds)
    PROVE  \E jt : Spells(jt, ds) /\ Spelled(ds) = jt[DOMAIN ds]
  BY DEF Spelled, FoldLeft, MapThenFoldSet, Spells

LEMMA SpelledFold ==
    ASSUME NEW ds \in Seq(0 .. 9)
    PROVE  \E acc \in [0 .. Len(ds) -> Nat] :
               /\ acc[0] = 0 /\ acc[Len(ds)] = Spelled(ds)
               /\ \A k \in 1 .. Len(ds) : acc[k] = 10 * acc[k - 1] + ds[k]
  <1> DEFINE n == Len(ds)
             G == [p \in Nat \X (1 .. n) |-> 10 * p[1] + ds[p[2]]]
  <1>1. n \in Nat /\ DOMAIN ds = 1 .. n /\ \A k \in 1 .. n : ds[k] \in 0 .. 9
    BY ElementOfSeq, LenProperties
  <1> HIDE DEF n
  <1>2. G \in [Nat \X (1 .. n) -> Nat]
    BY <1>1
  <1>3. \A v \in Nat, k \in 1 .. n : G[<<v, k>>] = 10 * v + ds[k]
    OBVIOUS
  <1> HIDE DEF G
  <1>4. PICK it \in [SUBSET (1 .. n) -> Nat] : Iterates(it, n, 0, G)
    BY <1>1, <1>2, FoldExists
  <1>5. Spells(it, ds)
    <2>1. ASSUME NEW s \in SUBSET (1 .. n), s # {}
          PROVE  G[<<it[s \ {Max(s)}], Max(s)>>] = 10 * it[s \ {Max(s)}] + ds[Max(s)]
      <3>1. Max(s) \in 1 .. n
        BY <2>1, <1>1, MaxUpTo
      <3> QED
        BY <3>1, <1>3
    <2> QED
      BY <1>1, <1>4, <2>1 DEF Iterates, Spells
  <1>6. PICK jt : Spells(jt, ds) /\ Spelled(ds) = jt[DOMAIN ds]
    BY <1>5, SpelledChosen
  <1>7. Steps(jt, Nat, n, 0, G)
    <2>1. jt[{}] = 0
      BY <1>6 DEF Spells
    <2>2. ASSUME NEW s \in SUBSET (1 .. n), s # {}, jt[s \ {Max(s)}] \in Nat
          PROVE  jt[s] = G[<<jt[s \ {Max(s)}], Max(s)>>]
      <3>1. Max(s) \in 1 .. n
        BY <2>2, <1>1, MaxUpTo
      <3>2. jt[s] = 10 * jt[s \ {Max(s)}] + ds[Max(s)]
        BY <1>1, <1>6, <2>2 DEF Spells
      <3> QED
        BY <1>3, <2>2, <3>1, <3>2
    <2> QED
      BY <2>1, <2>2, Zenon DEF Steps
  <1>8. PICK acc : Values(acc, Nat, n, 0, G, jt)
    BY <1>1, <1>2, <1>7, FoldValues
  <1>9. /\ acc \in [0 .. n -> Nat] /\ acc[0] = 0
        /\ \A k \in 1 .. n : acc[k] = G[<<acc[k - 1], k>>]
        /\ acc[n] = Spelled(ds)
    BY <1>1, <1>6, <1>8 DEF Values
  <1>10. ASSUME NEW k \in 1 .. n PROVE acc[k] = 10 * acc[k - 1] + ds[k]
    <2>1. k - 1 \in 0 .. n
      BY <1>1
    <2>2. acc[k - 1] \in Nat
      BY <2>1, <1>9
    <2> QED
      BY <1>3, <1>9, <2>2
  <1> QED
    BY <1>9, <1>10 DEF n

Numbers(it, ds) ==
    it = [s \in SUBSET DOMAIN ds |->
             IF s = {} THEN 0 ELSE AddDigit(it[s \ {Max(s)}], ds[Max(s)])]

LEMMA NumberChosen ==
    ASSUME NEW text, NEW it, Numbers(it, text.digits)
    PROVE  \E jt : Numbers(jt, text.digits) /\ Number(text) = jt[DOMAIN text.digits]
  BY DEF Number, FoldLeft, MapThenFoldSet, Numbers

(* What a number is turned into: itself, or Refused if it is no word.      *)
Word(v) == IF v <= MaxWord THEN v ELSE Refused

Word0 == -1 .. MaxWord

(* One more digit, unless the word overflows: once refused, always refused.*)
LEMMA DigitAdded ==
    ASSUME NEW v \in Nat, NEW d \in 0 .. 9
    PROVE  AddDigit(Word(v), d) = Word(10 * v + d)
  <1>1. MaxWord \in Nat /\ MaxWord >= 9
    BY ApplyAssumption
  <1> DEFINE q == (MaxWord - d) \div 10
  <1>2. q \in Nat /\ 10 * q <= MaxWord - d /\ MaxWord - d < 10 * q + 10
    BY <1>1
  <1> HIDE DEF q
  <1>3. CASE v > MaxWord
    <2>1. 10 * v + d > MaxWord
      BY <1>1, <1>3
    <2> QED
      BY <1>1, <1>3, <2>1 DEF AddDigit, Word, Refused
  <1>4. CASE v <= MaxWord
    <2>1. v > q <=> 10 * v + d > MaxWord
      BY <1>1, <1>2
    <2>2. Word(v) = v /\ v # Refused
      BY <1>1, <1>4 DEF Word, Refused
    <2>3. AddDigit(v, d) = IF v > q THEN Refused ELSE 10 * v + d
      BY <2>2 DEF AddDigit, q
    <2>4. Word(10 * v + d) = IF v > q THEN Refused ELSE 10 * v + d
      BY <1>1, <2>1 DEF Word
    <2> QED
      BY <2>2, <2>3, <2>4
  <1> QED
    BY <1>1, <1>3, <1>4

LEMMA DigitTyped ==
    ASSUME NEW v \in Word0, NEW d \in 0 .. 9
    PROVE  AddDigit(v, d) \in Word0
  <1>1. MaxWord \in Nat /\ MaxWord >= 9
    BY ApplyAssumption
  <1>2. CASE v = Refused
    BY <1>1, <1>2 DEF AddDigit, Refused, Word0
  <1>3. CASE v # Refused
    <2>1. v \in Nat /\ v <= MaxWord
      BY <1>1, <1>3 DEF Refused, Word0
    <2>2. AddDigit(v, d) = Word(10 * v + d)
      BY <2>1, DigitAdded DEF Word
    <2>3. Word(10 * v + d) \in Word0
      BY <1>1, <2>1 DEF Word, Word0, Refused
    <2> QED
      BY <2>2, <2>3
  <1> QED
    BY <1>2, <1>3

(* parse_size() reads the number the digits spell, and refuses it if it is *)
(* no word, wherever in the text the overflow occurs (main.cpp:46-57).     *)
LEMMA NumberIs ==
    ASSUME NEW text, text.digits \in Seq(0 .. 9)
    PROVE  /\ Spelled(text.digits) \in Nat
           /\ Number(text) = Word(Spelled(text.digits))
  <1> DEFINE ds == text.digits
             n == Len(ds)
             G == [p \in Word0 \X (1 .. n) |-> AddDigit(p[1], ds[p[2]])]
  <1>1. n \in Nat /\ DOMAIN ds = 1 .. n /\ \A k \in 1 .. n : ds[k] \in 0 .. 9
    BY ElementOfSeq, LenProperties
  <1>2. PICK acc \in [0 .. n -> Nat] :
            /\ acc[0] = 0 /\ acc[n] = Spelled(ds)
            /\ \A k \in 1 .. n : acc[k] = 10 * acc[k - 1] + ds[k]
    BY SpelledFold
  <1>0. 0 \in Word0
    BY ApplyAssumption DEF Word0
  <1> HIDE DEF n, ds
  <1>3. G \in [Word0 \X (1 .. n) -> Word0]
    <2>1. \A v \in Word0, k \in 1 .. n : AddDigit(v, ds[k]) \in Word0
      BY <1>1, DigitTyped
    <2> QED
      BY <2>1
  <1>4. \A v \in Word0, k \in 1 .. n : G[<<v, k>>] = AddDigit(v, ds[k])
    OBVIOUS
  <1> HIDE DEF G
  <1>5. PICK it \in [SUBSET (1 .. n) -> Word0] : Iterates(it, n, 0, G)
    BY <1>0, <1>1, <1>3, FoldExists
  <1>6. Numbers(it, ds)
    <2>1. ASSUME NEW s \in SUBSET (1 .. n), s # {}
          PROVE  G[<<it[s \ {Max(s)}], Max(s)>>] = AddDigit(it[s \ {Max(s)}], ds[Max(s)])
      <3>1. Max(s) \in 1 .. n
        BY <2>1, <1>1, MaxUpTo
      <3> QED
        BY <3>1, <1>4
    <2> QED
      BY <1>1, <1>5, <2>1 DEF Iterates, Numbers
  <1>7. PICK jt : Numbers(jt, ds) /\ Number(text) = jt[DOMAIN ds]
    BY <1>6, NumberChosen DEF ds
  <1>8. Steps(jt, Word0, n, 0, G)
    <2>1. jt[{}] = 0
      BY <1>7 DEF Numbers
    <2>2. ASSUME NEW s \in SUBSET (1 .. n), s # {}, jt[s \ {Max(s)}] \in Word0
          PROVE  jt[s] = G[<<jt[s \ {Max(s)}], Max(s)>>]
      <3>1. Max(s) \in 1 .. n
        BY <2>2, <1>1, MaxUpTo
      <3>2. jt[s] = AddDigit(jt[s \ {Max(s)}], ds[Max(s)])
        BY <1>1, <1>7, <2>2 DEF Numbers
      <3> QED
        BY <1>4, <2>2, <3>1, <3>2
    <2> QED
      BY <2>1, <2>2, Zenon DEF Steps
  <1>9. PICK bcc : Values(bcc, Word0, n, 0, G, jt)
    BY <1>0, <1>1, <1>3, <1>8, FoldValues
  <1>10. /\ bcc \in [0 .. n -> Word0] /\ bcc[0] = 0
         /\ \A k \in 1 .. n : bcc[k] = G[<<bcc[k - 1], k>>]
         /\ bcc[n] = Number(text)
    BY <1>1, <1>7, <1>9 DEF Values
  <1> DEFINE ccc == [k \in 0 .. n |-> Word(acc[k])]
  <1>11. SameSteps(bcc, ccc, n)
    <2>1. ccc[0] = 0
      <3>1. Word(0) = 0 /\ 0 \in 0 .. n
        BY <1>1, ApplyAssumption DEF Word
      <3> QED
        BY <1>2, <3>1
    <2>2. ASSUME NEW k \in 1 .. n, bcc[k - 1] = ccc[k - 1] PROVE bcc[k] = ccc[k]
      <3>1. k - 1 \in 0 .. n /\ k \in 0 .. n
        BY <1>1
      <3>2. acc[k - 1] \in Nat /\ bcc[k - 1] \in Word0 /\ ds[k] \in 0 .. 9
        BY <1>1, <1>2, <1>10, <3>1
      <3>3. bcc[k] = AddDigit(bcc[k - 1], ds[k])
        BY <1>4, <1>10, <3>2
      <3>4. bcc[k - 1] = Word(acc[k - 1])
        BY <2>2, <3>1
      <3>5. bcc[k] = Word(10 * acc[k - 1] + ds[k])
        BY <3>2, <3>3, <3>4, DigitAdded
      <3>6. acc[k] = 10 * acc[k - 1] + ds[k]
        BY <1>2
      <3> QED
        BY <3>1, <3>5, <3>6
    <2> QED
      BY <1>10, <2>1, <2>2, Zenon DEF SameSteps
  <1>12. bcc[n] = ccc[n] /\ n \in 0 .. n
    <2> HIDE DEF ccc
    <2>1. SameTo(bcc, ccc, n) /\ n \in 0 .. n
      BY <1>1, <1>11, SameValues
    <2> QED
      BY <2>1 DEF SameTo
  <1>13. acc[n] \in Nat
    BY <1>2, <1>12
  <1> QED
    BY <1>2, <1>10, <1>12, <1>13 DEF ds

(* The suffix, which is refused if what it shifts out is not zero.         *)
LEMMA Scales ==
    ASSUME NEW n \in 0 .. MaxWord, NEW letter \in DOMAIN Scale
    PROVE  /\ n * Scale[letter] \in Nat
           /\ Scaled(n, letter) = Word(n * Scale[letter])
  <1> DEFINE m == Scale[letter]
             q == MaxWord \div m
             product == n * m
  <1>1. MaxWord \in Nat /\ m \in Nat \ {0}
    BY ApplyAssumption
  <1>2. Scaled(n, letter) = IF n > q THEN Refused ELSE product % (MaxWord + 1)
    BY DEF Scaled
  <1> HIDE DEF m
  <1>3. q \in Nat /\ m * q <= MaxWord /\ MaxWord < m * (q + 1)
    BY <1>1
  <1>4. product \in Nat
    BY <1>1
  <1> HIDE DEF q
  <1>5. CASE n > q
    <2>1. n \in Nat /\ n >= q + 1
      BY <1>1, <1>3, <1>5
    <2>2. m * (q + 1) <= product
      BY <1>1, <1>3, <2>1
    <2>3. m * (q + 1) \in Nat
      BY <1>1, <1>3
    <2> HIDE DEF product
    <2>4. product > MaxWord
      BY <1>1, <1>3, <1>4, <2>2, <2>3
    <2>5. Scaled(n, letter) = Refused /\ Word(product) = Refused
      BY <1>2, <1>1, <1>4, <1>5, <2>4 DEF Word
    <2> QED
      BY <1>4, <2>5 DEF product, m
  <1>6. CASE ~(n > q)
    <2>1. n \in Nat /\ n <= q
      BY <1>1, <1>3, <1>6
    <2>2. product <= m * q
      BY <1>1, <1>3, <2>1
    <2>3. m * q \in Nat
      BY <1>1, <1>3
    <2> HIDE DEF product
    <2>4. product <= MaxWord
      BY <1>1, <1>3, <1>4, <2>2, <2>3
    <2>5. product % (MaxWord + 1) = product
      BY <1>1, <1>4, <2>4
    <2>6. Scaled(n, letter) = product /\ Word(product) = product
      BY <1>2, <1>1, <1>4, <1>6, <2>4, <2>5 DEF Word
    <2> QED
      BY <1>4, <2>6 DEF product, m
  <1> QED
    BY <1>5, <1>6

(* parse_size() returns what the option stands for, if it is well formed   *)
(* and a word can hold it, and refuses it otherwise.                       *)
LEMMA ParsedAs ==
    ASSUME NEW text \in Options \ {None}
    PROVE  /\ parse_size(text) # Refused => /\ Means(text) /\ parse_size(text) = Value(text)
                                            /\ parse_size(text) \in 0 .. MaxWord
           /\ parse_size(text) = Refused => ~Means(text) \/ Value(text) > MaxWord
  <1> DEFINE v == Spelled(text.digits)
             n == Number(text)
             c == text.suffix[1]
  <1>1. /\ text.digits \in Seq(0 .. 9) /\ text.suffix \in Seq(STRING)
        /\ Len(text.suffix) \in Nat /\ DOMAIN text.suffix = 1 .. Len(text.suffix)
    <2>1. text.digits \in Seq(0 .. 9) /\ text.suffix \in Seq(STRING)
      BY OptionsAssumption
    <2> QED
      BY <2>1, LenProperties
  <1>2. v \in Nat /\ n = Word(v) /\ MaxWord \in Nat
    BY <1>1, NumberIs, ApplyAssumption
  <1>3. text.suffix = <<>> <=> Len(text.suffix) = 0
    BY <1>1, EmptySeq
  <1>4. CASE n = Refused
    <2>1. v > MaxWord
      BY <1>2, <1>4 DEF Word, Refused
    <2>2. parse_size(text) = Refused
      BY <1>4 DEF parse_size
    <2>3. ASSUME Means(text) PROVE Value(text) > MaxWord
      <3>1. CASE text.suffix = <<>>
        <4>1. Value(text) = v * 1
          BY <3>1 DEF Value
        <4> QED
          BY <1>2, <2>1, <4>1
      <3>2. CASE text.suffix # <<>>
        <4>1. 1 \in DOMAIN text.suffix
          BY <1>1, <1>3, <3>2
        <4>2. c \in DOMAIN Scale
          BY <2>3, <4>1 DEF Means
        <4> DEFINE m == Scale[c]
        <4>3. m \in Nat \ {0}
          BY <4>2, ApplyAssumption
        <4>4. Value(text) = v * m
          BY <3>2 DEF Value
        <4> HIDE DEF m, v, n
        <4>5. v * m >= v /\ v * m \in Nat
          BY <1>2, <4>3
        <4> QED
          BY <1>2, <2>1, <4>4, <4>5
      <3> QED
        BY <3>1, <3>2
    <2> QED
      BY <2>2, <2>3
  <1>5. CASE n # Refused
    <2>1. n = v /\ v \in 0 .. MaxWord
      BY <1>2, <1>5 DEF Word, Refused
    <2>2. CASE ~Means(text)
      <3>1. CASE text.digits = <<>> \/ Len(text.suffix) > 1
        BY <2>2, <3>1 DEF parse_size
      <3>2. CASE ~(text.digits = <<>> \/ Len(text.suffix) > 1)
        <4>1. PICK i \in DOMAIN text.suffix : text.suffix[i] \notin DOMAIN Scale
          BY <1>1, <2>2, <3>2 DEF Means
        <4>2. i = 1 /\ text.suffix # <<>>
          BY <1>1, <1>3, <3>2, <4>1
        <4> QED
          BY <2>2, <3>2, <4>1, <4>2 DEF parse_size
      <3> QED
        BY <3>1, <3>2
    <2>3. CASE Means(text)
      <3>1. CASE text.suffix = <<>>
        <4>1. parse_size(text) = n /\ Value(text) = v * 1
          BY <1>5, <2>3, <3>1, <1>1, <1>3 DEF parse_size, Value, Means
        <4> QED
          BY <2>1, <2>3, <4>1, <1>2 DEF Refused
      <3>2. CASE text.suffix # <<>>
        <4>1. 1 \in DOMAIN text.suffix
          BY <1>1, <1>3, <3>2
        <4>2. c \in DOMAIN Scale
          BY <2>3, <4>1 DEF Means
        <4>3. parse_size(text) = Scaled(n, c) /\ Value(text) = v * Scale[c]
          <5>1. ~(Len(text.suffix) > 1) /\ text.digits # <<>>
            BY <1>1, <2>3 DEF Means
          <5> QED
            BY <1>5, <3>2, <4>2, <5>1 DEF parse_size, Value
        <4> DEFINE product == v * Scale[c]
        <4>4. product \in Nat /\ Scaled(v, c) = Word(product)
          BY <2>1, <4>2, Scales
        <4>5. parse_size(text) = Word(product) /\ Value(text) = product
          BY <2>1, <4>3, <4>4
        <4> HIDE DEF product
        <4> QED
          BY <1>2, <2>3, <4>4, <4>5 DEF Word, Refused
      <3> QED
        BY <3>1, <3>2
    <2> QED
      BY <2>2, <2>3
  <1> QED
    BY <1>4, <1>5

(* What an option stands for is a word.                                    *)
LEMMA SizeIsWord ==
    ASSUME NEW text \in Options \ {None}, parse_size(text) # Refused
    PROVE  parse_size(text) \in 0 .. MaxWord
  BY ParsedAs

-----------------------------------------------------------------------------
(* The entries of a delta and what they describe.                          *)

(* How many of the first k items are entries.                              *)
Counted(k) == Cardinality({j \in 1 .. k : delta[j].kind = "entry"})

LEMMA CountedNext ==
    ASSUME NEW k \in Nat
    PROVE  /\ Counted(0) = 0 /\ Counted(k) \in Nat
           /\ Counted(k + 1) = IF delta[k + 1].kind = "entry" THEN Counted(k) + 1 ELSE Counted(k)
           /\ \A j \in 0 .. k : Counted(j) <= Counted(k)
  <1> DEFINE E(m) == {j \in 1 .. m : delta[j].kind = "entry"}
  <1>1. \A m \in Nat : IsFiniteSet(E(m)) /\ Cardinality(E(m)) \in Nat
    <2>1. TAKE m \in Nat
    <2>2. IsFiniteSet(1 .. m) /\ E(m) \subseteq 1 .. m
      BY FS_Interval
    <2>3. IsFiniteSet(E(m))
      BY <2>2, FS_Subset
    <2> QED
      BY <2>3, FS_CardinalityType
  <1>2. E(0) = {}
    OBVIOUS
  <1>3. \A m \in Nat : Counted(m) = Cardinality(E(m))
    BY DEF Counted
  <1>4. delta[k + 1].kind = "entry" => E(k + 1) = E(k) \cup {k + 1} /\ k + 1 \notin E(k)
    OBVIOUS
  <1>5. delta[k + 1].kind # "entry" => E(k + 1) = E(k)
    OBVIOUS
  <1>6. \A j \in 0 .. k : j \in Nat /\ E(j) \subseteq E(k)
    OBVIOUS
  <1> HIDE DEF E
  <1>7. Counted(0) = 0
    BY <1>2, <1>3, FS_EmptySet
  <1>8. Counted(k + 1) = IF delta[k + 1].kind = "entry" THEN Counted(k) + 1 ELSE Counted(k)
    <2>1. k + 1 \in Nat
      OBVIOUS
    <2>2. CASE delta[k + 1].kind = "entry"
      <3>1. Cardinality(E(k) \cup {k + 1}) = Cardinality(E(k)) + 1
        BY <1>1, <1>4, <2>2, FS_AddElement
      <3> QED
        BY <1>3, <1>4, <2>1, <2>2, <3>1
    <2>3. CASE delta[k + 1].kind # "entry"
      BY <1>3, <1>5, <2>1, <2>3
    <2> QED
      BY <2>2, <2>3
  <1>9. \A j \in 0 .. k : Counted(j) <= Counted(k)
    <2>1. TAKE j \in 0 .. k
    <2>2. Cardinality(E(j)) <= Cardinality(E(k))
      BY <1>1, <1>6, FS_Subset
    <2> QED
      BY <1>3, <1>6, <2>2
  <1>10. Counted(k) \in Nat
    BY <1>1, <1>3
  <1> QED
    BY <1>7, <1>8, <1>9, <1>10

Reading == [left : Nat, bytes : Seq(Byte)]

Describes(it, n) ==
    it = [s \in SUBSET DOMAIN delta |->
             IF s = {} THEN [left |-> n, bytes |-> <<>>]
             ELSE Describe(it[s \ {Max(s)}], delta[Max(s)])]

LEMMA DescribedChosen ==
    ASSUME NEW n, NEW it, Describes(it, n)
    PROVE  \E jt : Describes(jt, n) /\ Described(n) = jt[DOMAIN delta].bytes
  BY DEF Described, FoldLeft, MapThenFoldSet, Describes

LEMMA DescribeTyped ==
    ASSUME NEW s \in Reading, NEW item \in DeltaItem
    PROVE  /\ Describe(s, item) \in Reading
           /\ item.kind = "entry" => item.digest \in Seq(Byte)
  <1>1. item.kind = "entry" => item.digest \in Seq(Byte)
    BY DEF DeltaItem, EntryItem
  <1>2. CASE item.kind = "entry" /\ s.left > 0
    <2>1. s.bytes \o item.digest \in Seq(Byte) /\ s.left - 1 \in Nat
      BY <1>1, <1>2, Joined DEF Reading
    <2> QED
      BY <1>1, <1>2, <2>1 DEF Describe, Reading
  <1>3. CASE ~(item.kind = "entry" /\ s.left > 0)
    BY <1>1, <1>3, Zenon DEF Describe
  <1> QED
    BY <1>2, <1>3

LEMMA EntryDescribed ==
    ASSUME NEW s, NEW item, item.kind = "entry", s.left > 0
    PROVE  /\ Describe(s, item).left = s.left - 1
           /\ Describe(s, item).bytes = s.bytes \o item.digest
  <1> DEFINE l == s.left - 1
             b == s.bytes \o item.digest
  <1>1. Describe(s, item) = [left |-> l, bytes |-> b]
    BY DEF Describe
  <1> HIDE DEF l, b
  <1>2. Describe(s, item).left = l /\ Describe(s, item).bytes = b
    BY <1>1
  <1> QED
    BY <1>2 DEF l, b

(* The values Described() goes through.                                    *)
LEMMA DescribedFold ==
    ASSUME delta \in Seq(DeltaItem), NEW n \in Nat
    PROVE  \E acc \in [0 .. Len(delta) -> Reading] :
               /\ acc[0] = [left |-> n, bytes |-> <<>>]
               /\ acc[Len(delta)].bytes = Described(n)
               /\ \A k \in 1 .. Len(delta) : acc[k] = Describe(acc[k - 1], delta[k])
  <1> DEFINE L == Len(delta)
             base0 == [left |-> n, bytes |-> <<>>]
             G == [p \in Reading \X (1 .. L) |-> Describe(p[1], delta[p[2]])]
  <1>1. L \in Nat /\ DOMAIN delta = 1 .. L /\ \A k \in 1 .. L : delta[k] \in DeltaItem
    BY ElementOfSeq, LenProperties
  <1>2. base0 \in Reading
    BY EmptySeq DEF Reading
  <1> HIDE DEF L
  <1>3. G \in [Reading \X (1 .. L) -> Reading]
    <2>1. \A v \in Reading, k \in 1 .. L : Describe(v, delta[k]) \in Reading
      BY <1>1, DescribeTyped
    <2> QED
      BY <2>1
  <1>4. \A v \in Reading, k \in 1 .. L : G[<<v, k>>] = Describe(v, delta[k])
    OBVIOUS
  <1> HIDE DEF G
  <1>5. PICK it \in [SUBSET (1 .. L) -> Reading] : Iterates(it, L, base0, G)
    <2> HIDE DEF base0
    <2> QED
      BY <1>1, <1>2, <1>3, FoldExists
  <1>6. Describes(it, n)
    <2>1. ASSUME NEW s \in SUBSET (1 .. L), s # {}
          PROVE  G[<<it[s \ {Max(s)}], Max(s)>>] = Describe(it[s \ {Max(s)}], delta[Max(s)])
      <3>1. Max(s) \in 1 .. L
        BY <2>1, <1>1, MaxUpTo
      <3> QED
        BY <3>1, <1>4
    <2> QED
      BY <1>1, <1>5, <2>1 DEF Iterates, Describes
  <1>7. PICK jt : Describes(jt, n) /\ Described(n) = jt[DOMAIN delta].bytes
    BY <1>6, DescribedChosen
  <1>8. Steps(jt, Reading, L, base0, G)
    <2>1. jt[{}] = base0
      BY <1>7 DEF Describes
    <2>2. ASSUME NEW s \in SUBSET (1 .. L), s # {}, jt[s \ {Max(s)}] \in Reading
          PROVE  jt[s] = G[<<jt[s \ {Max(s)}], Max(s)>>]
      <3>1. Max(s) \in 1 .. L
        BY <2>2, <1>1, MaxUpTo
      <3>2. jt[s] = Describe(jt[s \ {Max(s)}], delta[Max(s)])
        BY <1>1, <1>7, <2>2 DEF Describes
      <3> QED
        BY <1>4, <2>2, <3>1, <3>2
    <2> HIDE DEF base0
    <2> QED
      BY <2>1, <2>2, Zenon DEF Steps
  <1>9. PICK acc : Values(acc, Reading, L, base0, G, jt)
    <2> HIDE DEF base0
    <2> QED
      BY <1>1, <1>2, <1>3, <1>8, FoldValues
  <1>10. /\ acc \in [0 .. L -> Reading] /\ acc[0] = base0
         /\ \A k \in 1 .. L : acc[k] = G[<<acc[k - 1], k>>]
         /\ acc[L].bytes = Described(n)
    BY <1>1, <1>7, <1>9 DEF Values
  <1>11. ASSUME NEW k \in 1 .. L PROVE acc[k] = Describe(acc[k - 1], delta[k])
    <2>1. k - 1 \in 0 .. L
      BY <1>1
    <2>2. acc[k - 1] \in Reading
      BY <2>1, <1>10
    <2> QED
      BY <1>4, <1>10, <2>2
  <1> QED
    BY <1>10, <1>11 DEF L

(* No entry describes nothing.                                             *)
LEMMA NothingDescribed ==
    ASSUME delta \in Seq(DeltaItem)
    PROVE  Described(0) = <<>>
  <1> DEFINE L == Len(delta)
             f == [k \in 0 .. L |-> [left |-> 0, bytes |-> <<>>]]
  <1>1. L \in Nat
    BY LenProperties
  <1>2. PICK acc \in [0 .. L -> Reading] :
            /\ acc[0] = [left |-> 0, bytes |-> <<>>] /\ acc[L].bytes = Described(0)
            /\ \A k \in 1 .. L : acc[k] = Describe(acc[k - 1], delta[k])
    BY DescribedFold
  <1>3. SameSteps(acc, f, L)
    <2>1. acc[0] = f[0]
      BY <1>1, <1>2
    <2>2. ASSUME NEW k \in 1 .. L, acc[k - 1] = f[k - 1] PROVE acc[k] = f[k]
      <3>1. k - 1 \in 0 .. L /\ k \in 0 .. L
        BY <1>1
      <3>2. acc[k - 1] = [left |-> 0, bytes |-> <<>>]
        BY <2>2, <3>1
      <3>3. Describe(acc[k - 1], delta[k]) = acc[k - 1]
        BY <3>2 DEF Describe
      <3> QED
        BY <1>2, <3>1, <3>2, <3>3
    <2> QED
      BY <2>1, <2>2, Zenon DEF SameSteps
  <1>4. acc[L] = f[L] /\ L \in 0 .. L
    <2> HIDE DEF f
    <2>1. SameTo(acc, f, L) /\ L \in 0 .. L
      BY <1>1, <1>3, SameValues
    <2> QED
      BY <2>1 DEF SameTo
  <1> QED
    BY <1>2, <1>4

(* One entry more describes the bytes of its digest more, wherever in the  *)
(* delta it is.                                                            *)
LEMMA DescribedNext ==
    ASSUME delta \in Seq(DeltaItem), NEW e \in 1 .. Len(delta), delta[e].kind = "entry"
    PROVE  Described(Counted(e - 1) + 1) = Described(Counted(e - 1)) \o delta[e].digest
  <1> DEFINE L == Len(delta)
             n == Counted(e - 1)
             more == delta[e].digest
  <1>1. L \in Nat /\ e - 1 \in Nat /\ e \in Nat /\ e <= L
    BY LenProperties
  <1>c. Counted(e - 1) \in Nat /\ \A j \in 0 .. e - 1 : Counted(j) <= Counted(e - 1)
    BY <1>1, CountedNext
  <1>2. n \in Nat /\ n + 1 \in Nat
    BY <1>c
  <1>3. PICK f \in [0 .. L -> Reading] :
            /\ f[0] = [left |-> n, bytes |-> <<>>] /\ f[L].bytes = Described(n)
            /\ \A k \in 1 .. L : f[k] = Describe(f[k - 1], delta[k])
    BY <1>2, DescribedFold
  <1>4. PICK g \in [0 .. L -> Reading] :
            /\ g[0] = [left |-> n + 1, bytes |-> <<>>] /\ g[L].bytes = Described(n + 1)
            /\ \A k \in 1 .. L : g[k] = Describe(g[k - 1], delta[k])
    BY <1>2, DescribedFold
  <1>5. \A k \in 0 .. e - 1 : Counted(k) \in Nat /\ Counted(k) <= n
    <2>1. \A k \in 0 .. e - 1 : k \in Nat
      OBVIOUS
    <2>2. \A k \in Nat : Counted(k) \in Nat
      BY CountedNext
    <2> QED
      BY <1>c, <2>1, <2>2
  <1> DEFINE Before(k) == /\ f[k].left = n - Counted(k) /\ g[k].left = f[k].left + 1
                          /\ g[k].bytes = f[k].bytes
             After(k)  == /\ f[k].left = 0 /\ g[k].left = 0
                          /\ g[k].bytes = f[k].bytes \o more
             S == {k \in 0 .. L : IF k < e THEN Before(k) ELSE After(k)}
  <1> HIDE DEF n, more, L
  <1>6. 0 \in S
    <2>1. Counted(0) = 0
      BY CountedNext
    <2> QED
      BY <1>1, <1>2, <1>3, <1>4, <2>1
  <1>7. ASSUME NEW k \in 1 .. L, k - 1 \in S PROVE k \in S
    <2>1. k - 1 \in 0 .. L /\ k \in 0 .. L /\ k \in Int
      BY <1>1
    <2>2. f[k - 1] \in Reading /\ g[k - 1] \in Reading
      BY <2>1, <1>3, <1>4
    <2>3. f[k] = Describe(f[k - 1], delta[k]) /\ g[k] = Describe(g[k - 1], delta[k])
      BY <1>3, <1>4
    <2> DEFINE p == f[k - 1]
               q == g[k - 1]
               item == delta[k]
    <2>a. ASSUME item.kind = "entry", p.left > 0
          PROVE  f[k].left = p.left - 1 /\ f[k].bytes = p.bytes \o item.digest
      <3>1. f[k] = Describe(p, item)
        BY <2>3
      <3> HIDE DEF p, item
      <3>2. /\ Describe(p, item).left = p.left - 1
            /\ Describe(p, item).bytes = p.bytes \o item.digest
        BY <2>a, EntryDescribed
      <3> QED
        BY <3>1, <3>2
    <2>b. ASSUME item.kind = "entry", q.left > 0
          PROVE  g[k].left = q.left - 1 /\ g[k].bytes = q.bytes \o item.digest
      <3>1. g[k] = Describe(q, item)
        BY <2>3
      <3> HIDE DEF q, item
      <3>2. /\ Describe(q, item).left = q.left - 1
            /\ Describe(q, item).bytes = q.bytes \o item.digest
        BY <2>b, EntryDescribed
      <3> QED
        BY <3>1, <3>2
    <2>4. Counted(k) = IF delta[k].kind = "entry" THEN Counted(k - 1) + 1 ELSE Counted(k - 1)
      <3>1. k - 1 \in Nat /\ (k - 1) + 1 = k
        BY <1>1
      <3> QED
        BY <3>1, CountedNext
    <2>5. CASE k < e
      <3>1. k - 1 < e
        BY <1>1, <2>1, <2>5
      <3>2. Before(k - 1)
        BY <1>7, <3>1
      <3>3. Counted(k) \in Nat /\ Counted(k) <= n /\ Counted(k - 1) \in Nat
        BY <1>1, <1>5, <2>1, <2>5
      <3>4. CASE delta[k].kind = "entry"
        <4>1. f[k - 1].left > 0 /\ g[k - 1].left > 0
          BY <1>2, <2>4, <3>2, <3>3, <3>4
        <4>2. /\ f[k].left = f[k - 1].left - 1
              /\ f[k].bytes = f[k - 1].bytes \o delta[k].digest
          BY <2>a, <3>4, <4>1
        <4>3. /\ g[k].left = g[k - 1].left - 1
              /\ g[k].bytes = g[k - 1].bytes \o delta[k].digest
          BY <2>b, <3>4, <4>1
        <4>4. Counted(k) = Counted(k - 1) + 1
          BY <2>4, <3>4
        <4>5. Before(k)
          BY <1>2, <3>2, <3>3, <4>2, <4>3, <4>4
        <4> QED
          BY <2>1, <2>5, <4>5
      <3>5. CASE delta[k].kind # "entry"
        <4>1. f[k] = f[k - 1] /\ g[k] = g[k - 1]
          BY <2>3, <3>5 DEF Describe
        <4>2. Before(k)
          BY <2>4, <3>2, <3>5, <4>1
        <4> QED
          BY <2>1, <2>5, <4>2
      <3> QED
        BY <3>4, <3>5
    <2>6. CASE k = e
      <3>1. Before(k - 1) /\ Counted(k - 1) = n
        BY <1>1, <1>7, <2>6 DEF n
      <3>2. f[k - 1].left = 0 /\ g[k - 1].left = 1
        BY <1>2, <3>1
      <3>3. f[k] = f[k - 1]
        BY <2>3, <3>2 DEF Describe
      <3>4. /\ g[k].left = g[k - 1].left - 1
            /\ g[k].bytes = g[k - 1].bytes \o delta[k].digest
        <4>1. item.kind = "entry"
          BY <2>6
        <4>2. q.left > 0
          BY <3>2
        <4> QED
          BY <2>b, <4>1, <4>2
      <3>5. g[k].left = g[k - 1].left - 1 /\ g[k].bytes = f[k].bytes \o more
        <4>1. delta[k].digest = more /\ g[k - 1].bytes = f[k].bytes
          BY <2>6, <3>1, <3>3 DEF more
        <4> QED
          BY <3>4, <4>1
      <3>6. After(k)
        BY <3>2, <3>3, <3>5
      <3> QED
        BY <1>1, <2>1, <2>6, <3>6
    <2>7. CASE k > e
      <3>1. ~(k - 1 < e) /\ ~(k < e)
        BY <1>1, <2>1, <2>7
      <3>2. After(k - 1)
        BY <1>7, <3>1
      <3>3. f[k] = f[k - 1] /\ g[k] = g[k - 1]
        BY <2>3, <3>2 DEF Describe
      <3>4. After(k)
        BY <3>2, <3>3
      <3> QED
        BY <2>1, <3>1, <3>4
    <2> QED
      BY <1>1, <2>1, <2>5, <2>6, <2>7
  <1> HIDE DEF S
  <1>8. 0 .. L \subseteq S
    BY <1>1, <1>6, <1>7, UpToInduction
  <1>9. L \in S /\ ~(L < e)
    BY <1>1, <1>8
  <1>10. After(L)
    BY <1>9 DEF S
  <1> QED
    BY <1>3, <1>4, <1>10 DEF n, more

-----------------------------------------------------------------------------
(* The inductive invariant.                                                *)
TypeInv ==
    /\ delta \in Seq(DeltaItem) /\ content \in Contents
    /\ changes \in 0 .. MaxChanges /\ limit \in 0 .. MaxWord /\ pos \in 0 .. Len(delta)
    /\ chunks \in Seq(Chunk) /\ base \in Seq(Byte)
    /\ produced \in Seq(Byte) /\ output \in Seq(Byte)
    /\ scanned \in Seq(Byte) /\ Len(scanned) <= MaxLength
    /\ pc = "limit" => option \in Options \ {None}

(* What each phase knows of the item under way: that it is there, that an  *)
(* entry's source chunk is, and that a patch is within its bounds.         *)
PhaseInv ==
    /\ pc \in {"limit", "open", "header", "sign", "item", "trailer", "entry", "source",
               "opcodes", "tail", "write", "finish", "done"}
    /\ pc \in {"limit", "open", "header"} => scanned = <<>>
    /\ pc = "trailer" => At("trailer")
    /\ pc = "entry" => ~AtEof
    /\ pc \in {"source", "opcodes", "tail"} =>
          /\ entry \in EntryItem /\ ReferencesOld(entry)
          /\ entry.source \in 1 .. Len(chunks)
          /\ pc # "source" => entry.type = "MODIFIED"
          /\ entry.type = "MODIFIED" => entry.size <= MaxChunk
    /\ pc \in {"opcodes", "tail"} => PatchGood(patch, base, entry.size)

(* The trailer ends the delta and digests the whole output, and nothing is *)
(* written once it has been read.                                          *)
TrailerInv ==
    /\ sawTrailer => /\ pc \in {"finish", "done"}
                     /\ delta # <<>> /\ delta[Len(delta)].kind = "trailer"
                     /\ delta[Len(delta)].whole /\ delta[Len(delta)].digest = output
    /\ result = "ok" => sawTrailer
    /\ sawTrailer \in BOOLEAN /\ deltaErr \in BOOLEAN /\ oldErr \in BOOLEAN
    /\ result \in {"none", "ok", "io_error", "corrupt_delta", "integrity_mismatch",
                   "limit_exceeded", "invalid_argument", "internal_error", "usage"}

LimitInv ==
    /\ Len(output) <= limit
    /\ pc = "limit" => output = <<>>
    /\ result # "none" => pc = "done"
    /\ result = "limit_exceeded" => Len(output) + Len(produced) > limit

IInv == TypeInv /\ PhaseInv /\ TrailerInv /\ LimitInv

-----------------------------------------------------------------------------
LEMMA ItemTyped ==
    ASSUME TypeInv, ~AtEof
    PROVE  /\ Item \in DeltaItem /\ pos + 1 \in 1 .. Len(delta) /\ Len(delta) \in Nat
           /\ Item.kind = "entry" => Item \in EntryItem
           /\ Item.kind = "op" => Item.code \in OpCode
  <1>1. Len(delta) \in Nat /\ pos \in 0 .. Len(delta) /\ delta \in Seq(DeltaItem)
    BY LenProperties DEF TypeInv
  <1>2. pos + 1 \in 1 .. Len(delta)
    BY <1>1 DEF AtEof
  <1>3. Item \in DeltaItem
    BY <1>1, <1>2, ElementOfSeq DEF Item
  <1> QED
    BY <1>1, <1>2, <1>3 DEF DeltaItem, EntryItem, OpCode

(* What ReadSource reads, however the old file has changed since.          *)
SourceBytes ==
    LET c == chunks[entry.source]
    IN  Bytes(content, c.start, Len(c.bytes))

LEMMA SourceTyped ==
    ASSUME IInv, pc = "source"
    PROVE  SourceBytes \in Seq(Byte)
  <1> DEFINE c    == chunks[entry.source]
             from == c.start + 1
             to   == Min({c.start + Len(c.bytes), Len(content)})
  <1>1. c \in Chunk /\ content \in Seq(Byte)
    BY InputsAssumption, ElementOfSeq DEF IInv, TypeInv, PhaseInv
  <1>2. c.start \in Nat /\ Len(c.bytes) \in Nat /\ Len(content) \in Nat
    BY <1>1, LenProperties DEF Chunk
  <1>3. from \in Nat \ {0} /\ to \in Int /\ to <= Len(content)
    <2> DEFINE m == c.start + Len(c.bytes)
               n == Len(content)
    <2>1. m \in Int /\ n \in Int
      BY <1>2
    <2> HIDE DEF m, n
    <2>2. Min({m, n}) \in Int /\ Min({m, n}) <= n
      BY <2>1, Lesser
    <2> QED
      BY <1>2, <2>2 DEF m, n
  <1> HIDE DEF from, to
  <1>4. SubSeq(content, from, to) \in Seq(Byte)
    BY <1>1, <1>3, Part
  <1> QED
    BY <1>4 DEF SourceBytes, Bytes, from, to

(* What has been scanned is something that can be cut into chunks.         *)
LEMMA ScannedIsCut ==
    ASSUME NEW s \in Seq(Byte), Len(s) <= MaxLength
    PROVE  s \in DOMAIN Chunked /\ Chunked[s] \in Seq(Chunk)
  <1>1. Len(s) \in Nat /\ s \in [1 .. Len(s) -> Byte]
    BY LenProperties
  <1>2. Len(s) \in 0 .. MaxLength
    BY <1>1, ApplyAssumption
  <1>3. s \in BoundedSeq(Byte, MaxLength)
    BY <1>1, <1>2 DEF BoundedSeq, SeqOf
  <1> QED
    BY <1>3, ApplyAssumption, InputsAssumption

LEMMA ByteScanned ==
    ASSUME IInv, SignByte
    PROVE  /\ scanned' \in Seq(Byte) /\ Len(scanned') = Len(scanned) + 1
           /\ Len(scanned) \in Nat /\ Len(content) \in Nat /\ Len(scanned') <= Len(content)
           /\ Len(scanned') <= MaxLength
           /\ scanned'[Len(scanned) + 1] = content[Len(scanned) + 1]
           /\ \A k \in 1 .. Len(scanned) : scanned'[k] = scanned[k]
  <1> DEFINE n == Len(scanned)
             byte == content[n + 1]
  <1>1. scanned \in Seq(Byte) /\ content \in Seq(Byte) /\ Len(content) <= MaxLength
    BY InputsAssumption DEF IInv, TypeInv
  <1>2. n \in Nat /\ Len(content) \in Nat /\ n < Len(content)
    BY <1>1, LenProperties DEF SignByte
  <1>3. byte \in Byte
    BY <1>1, <1>2, ElementOfSeq
  <1>4. scanned' = Append(scanned, byte)
    BY DEF SignByte
  <1> HIDE DEF byte
  <1>5. /\ scanned' \in Seq(Byte) /\ Len(scanned') = n + 1 /\ scanned'[n + 1] = byte
        /\ \A k \in 1 .. n : scanned'[k] = scanned[k]
    BY <1>1, <1>3, <1>4, AppendProperties
  <1>6. MaxLength \in Nat
    BY ApplyAssumption
  <1> QED
    BY <1>1, <1>2, <1>5, <1>6 DEF byte

LEMMA TypeStep ==
    ASSUME IInv, [Next]_vars
    PROVE  TypeInv'
  <1>1. CASE ParseLimit
    <2>1. limit' \in 0 .. MaxWord
      <3>1. option \in Options \ {None} /\ limit \in 0 .. MaxWord
        BY <1>1 DEF ParseLimit, IInv, TypeInv
      <3>2. \/ limit' = limit
            \/ parse_size(option) # Refused /\ limit' = parse_size(option)
        BY <1>1 DEF ParseLimit
      <3> QED
        BY <3>1, <3>2, SizeIsWord
    <2> QED
      BY <1>1, <2>1 DEF ParseLimit, IInv, TypeInv, vars, inputs, diffing, written, errors, Goto, Fail, DeltaReadFails
  <1>2. CASE ReadHeader
    <2>1. pos' \in 0 .. Len(delta)
      BY <1>2, ItemTyped DEF ReadHeader, IInv, TypeInv, At
    <2> QED
      BY <1>2, <2>1 DEF ReadHeader, IInv, TypeInv, vars, inputs, diffing, written, errors, Goto, Fail, DeltaReadFails
  <1>3. CASE SignOld
    <2>1. Chunked[scanned] \in Seq(Chunk)
      BY ScannedIsCut DEF IInv, TypeInv
    <2>2. scanned' \in Seq(Byte) /\ Len(scanned') <= MaxLength
      BY <1>3, EmptySeq, ApplyAssumption DEF SignOld
    <2> QED
      BY <1>3, <2>1, <2>2 DEF SignOld, IInv, TypeInv, vars, inputs, diffing, written, errors, Goto, Fail, DeltaReadFails
  <1>4. CASE NextItem
    BY <1>4 DEF NextItem, IInv, TypeInv, vars, inputs, diffing, written, errors, Goto, Fail, DeltaReadFails
  <1>5. CASE ReadTrailer
    <2>1. ~AtEof
      BY <1>5 DEF ReadTrailer, IInv, PhaseInv, At
    <2>2. pos' \in 0 .. Len(delta)
      BY <1>5, <2>1, ItemTyped DEF ReadTrailer, IInv
    <2> QED
      BY <1>5, <2>2 DEF ReadTrailer, IInv, TypeInv, vars, inputs, diffing, written, errors, Goto, Fail, DeltaReadFails
  <1>6. CASE ReadEntry
    <2>1. ~AtEof
      BY <1>6 DEF ReadEntry, IInv, PhaseInv
    <2>2. pos' \in 0 .. Len(delta)
      BY <1>6, <2>1, ItemTyped DEF ReadEntry, IInv
    <2>3. produced' \in Seq(Byte)
      <3>1. Acceptable(Item) => Item.payload \in Seq(Byte)
        BY <2>1, ItemTyped DEF IInv, Acceptable, EntryItem
      <3>2. produced \in Seq(Byte) /\ <<>> \in Seq(Byte)
        BY EmptySeq DEF IInv, TypeInv
      <3> QED
        BY <1>6, <3>1, <3>2 DEF ReadEntry
    <2> QED
      BY <1>6, <2>2, <2>3 DEF ReadEntry, IInv, TypeInv, vars, inputs, diffing, written, errors, Goto, Fail, DeltaReadFails
  <1>7. CASE ReadSource
    <2>1. SourceBytes \in Seq(Byte)
      BY <1>7, SourceTyped DEF ReadSource
    <2>2. produced' \in Seq(Byte) /\ base' \in Seq(Byte)
      BY <1>7, <2>1 DEF ReadSource, SourceBytes, IInv, TypeInv, diffing
    <2> QED
      BY <1>7, <2>2 DEF ReadSource, IInv, TypeInv, vars, inputs, diffing, written, errors, Goto, Fail, DeltaReadFails
  <1>8. CASE ApplyOpcode
    <2>1. pos' \in 0 .. Len(delta)
      BY <1>8, ItemTyped DEF ApplyOpcode, IInv, At
    <2> QED
      BY <1>8, <2>1 DEF ApplyOpcode, IInv, TypeInv, vars, inputs, diffing, written, errors, Goto, Fail, DeltaReadFails
  <1>9. CASE OpcodesEnd
    BY <1>9 DEF OpcodesEnd, IInv, TypeInv, vars, inputs, diffing, written, errors, Goto, Fail, DeltaReadFails
  <1>10. CASE CopyTail
    <2>1. produced' \in Seq(Byte)
      <3>1. base \in Seq(Byte) /\ entry.size \in Nat /\ PatchGood(patch, base, entry.size)
        BY <1>10 DEF CopyTail, IInv, TypeInv, PhaseInv, EntryItem
      <3>2. TailFits(patch, base, entry.size) => PatchTail(patch, base, entry.size) \in Seq(Byte)
        BY <3>1, TailIsBytes
      <3> QED
        BY <1>10, <3>2 DEF CopyTail, IInv, TypeInv
    <2> QED
      BY <1>10, <2>1 DEF CopyTail, IInv, TypeInv, vars, inputs, diffing, written, errors, Goto, Fail, DeltaReadFails
  <1>11. CASE WriteProduced
    <2>1. output' \in Seq(Byte)
      BY <1>11, Joined DEF WriteProduced, IInv, TypeInv, written
    <2> QED
      BY <1>11, <2>1 DEF WriteProduced, IInv, TypeInv, vars, inputs, diffing, written, errors, Goto, Fail, DeltaReadFails
  <1>12. CASE Finish
    BY <1>12 DEF Finish, IInv, TypeInv, vars, inputs, diffing, written, errors, Goto, Fail, DeltaReadFails
  <1>13. CASE Throw
    BY <1>13 DEF Throw, IInv, TypeInv, vars, inputs, diffing, written, errors, Goto, Fail, DeltaReadFails
  <1>14. CASE Change
    <2>1. changes' \in 0 .. MaxChanges /\ content' \in Contents
      BY <1>14, ApplyAssumption DEF Change, IInv, TypeInv
    <2> QED
      BY <1>14, <2>1 DEF Change, IInv, TypeInv, vars, inputs, diffing, written, errors, Goto, Fail, DeltaReadFails
  <1>15. CASE Done \/ UNCHANGED vars
    BY <1>15 DEF Done, IInv, TypeInv, vars, inputs, diffing, written, errors, Goto, Fail, DeltaReadFails
  <1>16. CASE Open
    BY <1>16 DEF Open, IInv, TypeInv, vars, inputs, diffing, written, errors, Goto, Fail, DeltaReadFails
  <1>17. CASE SignByte
    <2>1. scanned' \in Seq(Byte) /\ Len(scanned') <= MaxLength
      BY <1>17, ByteScanned
    <2> QED
      BY <1>17, <2>1 DEF SignByte, IInv, TypeInv, vars, inputs, diffing, written, errors, Goto, Fail, DeltaReadFails
  <1> QED
    BY <1>1, <1>2, <1>3, <1>4, <1>5, <1>6, <1>7, <1>8, <1>9, <1>10, <1>11, <1>12, <1>13, <1>14,
       <1>15, <1>16, <1>17 DEF Next, Main

LEMMA SourceOfEntry ==
    ASSUME IInv, pc = "source"
    PROVE  entry.type \in {"ORIGINAL", "MODIFIED"}
  BY DEF IInv, PhaseInv, ReferencesOld

LEMMA PhaseStep ==
    ASSUME IInv, [Next]_vars
    PROVE  PhaseInv'
  <1>1. CASE ParseLimit
    <2>1. pc' \in {"open", "done"} /\ scanned' = <<>>
      BY <1>1 DEF ParseLimit, Goto, Fail, IInv, PhaseInv
    <2> QED
      BY <2>1 DEF PhaseInv
  <1>2. CASE ReadHeader
    <2>1. pc' \in {"sign", "item", "write", "finish", "done"}
      BY <1>2 DEF ReadHeader, Goto, Fail, DeltaReadFails
    <2> QED
      BY <2>1 DEF PhaseInv
  <1>3. CASE SignOld
    <2>1. pc' \in {"sign", "item", "write", "finish", "done"}
      BY <1>3 DEF SignOld, Goto, Fail, DeltaReadFails
    <2> QED
      BY <2>1 DEF PhaseInv
  <1>4. CASE NextItem
    <2>1. /\ pc' \in {"finish", "trailer", "entry"} /\ UNCHANGED <<delta, pos>>
          /\ pc' = "trailer" => At("trailer")
          /\ pc' = "entry" => ~AtEof
      BY <1>4 DEF NextItem, Goto, inputs
    <2>2. AtEof' = AtEof /\ At("trailer")' = At("trailer")
      BY <2>1 DEF AtEof, At, Item
    <2> QED
      BY <2>1, <2>2 DEF PhaseInv, ReferencesOld
  <1>5. CASE ReadTrailer
    <2>1. pc' \in {"sign", "item", "write", "finish", "done"}
      BY <1>5 DEF ReadTrailer, Goto, Fail, DeltaReadFails
    <2> QED
      BY <2>1 DEF PhaseInv
  <1>6. CASE ReadEntry
    <2>1. pc' \in {"write", "source", "done"} /\ UNCHANGED chunks
      BY <1>6 DEF ReadEntry, Goto, Fail, DeltaReadFails
    <2>2. ASSUME pc' = "source"
          PROVE  /\ entry' \in EntryItem /\ ReferencesOld(entry')
                 /\ entry'.source \in 1 .. Len(chunks)
                 /\ entry'.type = "MODIFIED" => entry'.size <= MaxChunk
      <3>1. entry' = Item /\ Acceptable(Item) /\ Item.type # "ADDED"
        BY <1>6, <2>2 DEF ReadEntry, Goto, Fail, DeltaReadFails
      <3>2. Item \in EntryItem
        BY <1>6, <3>1, ItemTyped DEF ReadEntry, IInv, PhaseInv, Acceptable
      <3>3. ReferencesOld(Item)
        BY <3>1, <3>2 DEF ReferencesOld, EntryItem
      <3> QED
        BY <3>1, <3>2, <3>3 DEF Acceptable
    <2> QED
      BY <2>1, <2>2 DEF PhaseInv, ReferencesOld
  <1>7. CASE ReadSource
    <2>1. /\ pc' \in {"write", "opcodes", "done"} /\ pc = "source"
          /\ UNCHANGED <<chunks, entry>>
      BY <1>7 DEF ReadSource, Goto, Fail
    <2>2. ASSUME pc' = "opcodes"
          PROVE  entry.type = "MODIFIED" /\ base' = SourceBytes /\ patch' = Patching(<<>>, 0)
      <3>1. entry.type # "ORIGINAL" /\ base' = SourceBytes /\ patch' = Patching(<<>>, 0)
        BY <1>7, <2>2 DEF ReadSource, Goto, Fail, SourceBytes
      <3>2. entry.type \in {"ORIGINAL", "MODIFIED"}
        BY <2>1, SourceOfEntry
      <3> QED
        BY <3>1, <3>2
    <2>3. ASSUME pc' = "opcodes"
          PROVE  PatchGood(patch', base', entry'.size)
      <3>1. SourceBytes \in Seq(Byte) /\ Len(SourceBytes) \in Nat /\ entry.size \in Nat
        BY <2>1, SourceTyped, LenProperties DEF IInv, PhaseInv, EntryItem
      <3>2. <<>> \in Seq(Byte) /\ Len(<<>>) = 0
        BY EmptySeq
      <3>3. /\ patch' = [out |-> patch'.out, at |-> patch'.at]
            /\ patch'.out = <<>> /\ patch'.at = 0 /\ base' = SourceBytes /\ entry' = entry
        BY <2>1, <2>2, <2>3 DEF Patching
      <3> QED
        BY <3>1, <3>2, <3>3 DEF PatchGood
    <2> QED
      BY <2>1, <2>2, <2>3 DEF IInv, PhaseInv, ReferencesOld
  <1>8. CASE ApplyOpcode
    <2>1. /\ pc' \in {"opcodes", "done"} /\ pc = "opcodes"
          /\ UNCHANGED <<chunks, entry, base>>
      BY <1>8 DEF ApplyOpcode, Goto, Fail, DeltaReadFails
    <2>2. ASSUME pc' = "opcodes"
          PROVE  PatchGood(patch', base, entry.size)
      <3>1. Fits(patch, Item.code, base, entry.size) /\ patch' = PatchOp(patch, Item.code, base)
        BY <1>8, <2>2 DEF ApplyOpcode, Goto, Fail, DeltaReadFails
      <3>2. Item.code \in OpCode
        BY <1>8, ItemTyped DEF ApplyOpcode, At, IInv
      <3>3. base \in Seq(Byte) /\ entry.size \in Nat /\ PatchGood(patch, base, entry.size)
        BY <2>1 DEF IInv, TypeInv, PhaseInv, EntryItem
      <3> QED
        BY <3>1, <3>2, <3>3, OpcodeKeepsBounds
    <2> QED
      BY <2>1, <2>2 DEF IInv, PhaseInv, ReferencesOld
  <1>9. CASE OpcodesEnd
    <2>1. pc' = "tail" /\ pc = "opcodes" /\ UNCHANGED <<chunks, entry, base, patch>>
      BY <1>9 DEF OpcodesEnd, Goto, diffing
    <2> QED
      BY <2>1 DEF IInv, PhaseInv, ReferencesOld
  <1>10. CASE CopyTail
    <2>1. pc' \in {"sign", "item", "write", "finish", "done"}
      BY <1>10 DEF CopyTail, Goto, Fail, DeltaReadFails
    <2> QED
      BY <2>1 DEF PhaseInv
  <1>11. CASE WriteProduced
    <2>1. pc' \in {"sign", "item", "write", "finish", "done"}
      BY <1>11 DEF WriteProduced, Goto, Fail, DeltaReadFails
    <2> QED
      BY <2>1 DEF PhaseInv
  <1>12. CASE Finish
    <2>1. pc' \in {"sign", "item", "write", "finish", "done"}
      BY <1>12 DEF Finish, Goto, Fail, DeltaReadFails
    <2> QED
      BY <2>1 DEF PhaseInv
  <1>13. CASE Throw
    <2>1. pc' \in {"sign", "item", "write", "finish", "done"}
      BY <1>13 DEF Throw, Goto, Fail, DeltaReadFails
    <2> QED
      BY <2>1 DEF PhaseInv
  <1>14. CASE Change
    <2>1. UNCHANGED <<delta, scanned, pc, pos, chunks, entry, base, patch>>
      BY <1>14 DEF Change, diffing
    <2> QED
      BY <2>1 DEF IInv, PhaseInv, At, AtEof, Item, ReferencesOld
  <1>15. CASE Done \/ UNCHANGED vars
    <2>1. UNCHANGED <<delta, scanned, pc, pos, chunks, entry, base, patch>>
      BY <1>15 DEF Done, vars, inputs, diffing
    <2> QED
      BY <2>1 DEF IInv, PhaseInv, At, AtEof, Item, ReferencesOld
  <1>16. CASE Open
    <2>1. pc' \in {"header", "done"} /\ scanned' = <<>>
      BY <1>16 DEF Open, Goto, Fail, IInv, PhaseInv
    <2> QED
      BY <2>1 DEF PhaseInv
  <1>17. CASE SignByte
    <2>1. pc' = "sign"
      BY <1>17 DEF SignByte
    <2> QED
      BY <2>1 DEF PhaseInv
  <1> QED
    BY <1>1, <1>2, <1>3, <1>4, <1>5, <1>6, <1>7, <1>8, <1>9, <1>10, <1>11, <1>12, <1>13, <1>14,
       <1>15, <1>16, <1>17 DEF Next, Main

LEMMA TrailerStep ==
    ASSUME IInv, [Next]_vars
    PROVE  TrailerInv'
  <1>1. CASE ParseLimit
    <2>1. ~sawTrailer /\ result # "ok"
      BY <1>1 DEF ParseLimit, IInv, TrailerInv, Goto
    <2> QED
      BY <1>1, <2>1 DEF ParseLimit, IInv, TrailerInv, vars, inputs, diffing, written, errors, Goto, Fail, DeltaReadFails
  <1>2. CASE ReadHeader
    <2>1. ~sawTrailer /\ result # "ok"
      BY <1>2 DEF ReadHeader, IInv, TrailerInv, Goto
    <2> QED
      BY <1>2, <2>1 DEF ReadHeader, IInv, TrailerInv, vars, inputs, diffing, written, errors, Goto, Fail, DeltaReadFails
  <1>3. CASE SignOld
    <2>1. ~sawTrailer /\ result # "ok"
      BY <1>3 DEF SignOld, IInv, TrailerInv, Goto
    <2> QED
      BY <1>3, <2>1 DEF SignOld, IInv, TrailerInv, vars, inputs, diffing, written, errors, Goto, Fail, DeltaReadFails
  <1>4. CASE NextItem
    <2>1. ~sawTrailer /\ result # "ok"
      BY <1>4 DEF NextItem, IInv, TrailerInv, Goto
    <2> QED
      BY <1>4, <2>1 DEF NextItem, IInv, TrailerInv, vars, inputs, diffing, written, errors, Goto, Fail, DeltaReadFails
  <1>5. CASE ReadTrailer
    <2>1. ~sawTrailer /\ result # "ok" /\ UNCHANGED <<delta, output>>
      BY <1>5 DEF ReadTrailer, IInv, TrailerInv, inputs, written
    <2>2. ASSUME sawTrailer'
          PROVE  /\ pc' = "finish" /\ delta # <<>> /\ delta[Len(delta)].kind = "trailer"
                 /\ delta[Len(delta)].whole /\ delta[Len(delta)].digest = output
      <3>1. Item.whole /\ pos + 1 = Len(delta) /\ Item.digest = output /\ pc' = "finish"
        BY <1>5, <2>1, <2>2 DEF ReadTrailer, Goto
      <3>2. At("trailer")
        BY <1>5 DEF ReadTrailer, IInv, PhaseInv
      <3>3. pos \in Nat /\ Len(<<>>) = 0
        BY LenProperties, EmptySeq DEF IInv, TypeInv
      <3> QED
        BY <3>1, <3>2, <3>3 DEF At, Item
    <2> QED
      BY <1>5, <2>1, <2>2 DEF ReadTrailer, IInv, TrailerInv, vars, inputs, diffing, written, errors, Goto, Fail, DeltaReadFails
  <1>6. CASE ReadEntry
    <2>1. ~sawTrailer /\ result # "ok"
      BY <1>6 DEF ReadEntry, IInv, TrailerInv, Goto
    <2> QED
      BY <1>6, <2>1 DEF ReadEntry, IInv, TrailerInv, vars, inputs, diffing, written, errors, Goto, Fail, DeltaReadFails
  <1>7. CASE ReadSource
    <2>1. ~sawTrailer /\ result # "ok"
      BY <1>7 DEF ReadSource, IInv, TrailerInv, Goto
    <2> QED
      BY <1>7, <2>1 DEF ReadSource, IInv, TrailerInv, vars, inputs, diffing, written, errors, Goto, Fail, DeltaReadFails
  <1>8. CASE ApplyOpcode
    <2>1. ~sawTrailer /\ result # "ok"
      BY <1>8 DEF ApplyOpcode, IInv, TrailerInv, Goto
    <2> QED
      BY <1>8, <2>1 DEF ApplyOpcode, IInv, TrailerInv, vars, inputs, diffing, written, errors, Goto, Fail, DeltaReadFails
  <1>9. CASE OpcodesEnd
    <2>1. ~sawTrailer /\ result # "ok"
      BY <1>9 DEF OpcodesEnd, IInv, TrailerInv, Goto
    <2> QED
      BY <1>9, <2>1 DEF OpcodesEnd, IInv, TrailerInv, vars, inputs, diffing, written, errors, Goto, Fail, DeltaReadFails
  <1>10. CASE CopyTail
    <2>1. ~sawTrailer /\ result # "ok"
      BY <1>10 DEF CopyTail, IInv, TrailerInv, Goto
    <2> QED
      BY <1>10, <2>1 DEF CopyTail, IInv, TrailerInv, vars, inputs, diffing, written, errors, Goto, Fail, DeltaReadFails
  <1>11. CASE WriteProduced
    <2>1. ~sawTrailer /\ result # "ok"
      BY <1>11 DEF WriteProduced, IInv, TrailerInv, Goto
    <2> QED
      BY <1>11, <2>1 DEF WriteProduced, IInv, TrailerInv, vars, inputs, diffing, written, errors, Goto, Fail, DeltaReadFails
  <1>12. CASE Finish
    <2>1. UNCHANGED <<delta, output, sawTrailer, deltaErr, oldErr>> /\ pc' = "done"
      BY <1>12 DEF Finish, Fail, inputs, written, errors
    <2>2. result' = "ok" => sawTrailer
      BY <1>12 DEF Finish, Fail
    <2>3. result' \in {"none", "ok", "io_error", "corrupt_delta", "integrity_mismatch",
                       "limit_exceeded", "invalid_argument", "internal_error", "usage"}
      BY <1>12 DEF Finish, Fail
    <2> QED
      BY <2>1, <2>2, <2>3 DEF IInv, TrailerInv
  <1>13. CASE Throw
    <2>1. UNCHANGED <<delta, output, sawTrailer, deltaErr, oldErr>> /\ pc' = "done"
      BY <1>13 DEF Throw, Fail, inputs, written, errors
    <2>2. result' = "ok" => sawTrailer
      BY <1>13 DEF Throw, Fail
    <2>3. result' \in {"none", "ok", "io_error", "corrupt_delta", "integrity_mismatch",
                       "limit_exceeded", "invalid_argument", "internal_error", "usage"}
      BY <1>13 DEF Throw, Fail
    <2> QED
      BY <2>1, <2>2, <2>3 DEF IInv, TrailerInv
  <1>14. CASE Change
    BY <1>14 DEF Change, IInv, TrailerInv, vars, inputs, diffing, written, errors, Goto, Fail, DeltaReadFails
  <1>15. CASE Done \/ UNCHANGED vars
    BY <1>15 DEF Done, IInv, TrailerInv, vars, inputs, diffing, written, errors, Goto, Fail, DeltaReadFails
  <1>16. CASE Open
    <2>1. ~sawTrailer /\ result # "ok"
      BY <1>16 DEF Open, IInv, TrailerInv, Goto
    <2> QED
      BY <1>16, <2>1 DEF Open, IInv, TrailerInv, vars, inputs, diffing, written, errors, Goto, Fail, DeltaReadFails
  <1>17. CASE SignByte
    <2>1. ~sawTrailer /\ result # "ok"
      BY <1>17 DEF SignByte, IInv, TrailerInv, Goto
    <2> QED
      BY <1>17, <2>1 DEF SignByte, IInv, TrailerInv, vars, inputs, diffing, written, errors, Goto, Fail, DeltaReadFails
  <1> QED
    BY <1>1, <1>2, <1>3, <1>4, <1>5, <1>6, <1>7, <1>8, <1>9, <1>10, <1>11, <1>12, <1>13, <1>14,
       <1>15, <1>16, <1>17 DEF Next, Main

LEMMA LimitStep ==
    ASSUME IInv, [Next]_vars
    PROVE  LimitInv'
  <1>1. CASE ParseLimit
    <2>1. output = <<>> /\ result = "none" /\ pc' # "limit"
      BY <1>1 DEF ParseLimit, Goto, Fail, IInv, LimitInv
    <2>2. limit' \in Nat /\ Len(<<>>) = 0
      BY TypeStep, EmptySeq, ApplyAssumption DEF TypeInv
    <2>3. output' = <<>> /\ result' \in {"none", "usage"} /\ (result' = "usage" => pc' = "done")
      BY <1>1, <2>1 DEF ParseLimit, Goto, Fail, written
    <2> QED
      BY <2>1, <2>2, <2>3 DEF LimitInv
  <1>2. CASE ReadHeader
    <2>1. /\ UNCHANGED <<output, limit>> /\ pc' # "limit" /\ pc # "done"
          /\ result' # result => pc' = "done" /\ result' # "limit_exceeded"
      BY <1>2 DEF ReadHeader, vars, inputs, diffing, written, errors, Goto, Fail, DeltaReadFails
    <2> QED
      BY <2>1 DEF IInv, LimitInv
  <1>3. CASE SignOld
    <2>1. /\ UNCHANGED <<output, limit>> /\ pc' # "limit" /\ pc # "done"
          /\ result' # result => pc' = "done" /\ result' # "limit_exceeded"
      BY <1>3 DEF SignOld, vars, inputs, diffing, written, errors, Goto, Fail, DeltaReadFails
    <2> QED
      BY <2>1 DEF IInv, LimitInv
  <1>4. CASE NextItem
    <2>1. /\ UNCHANGED <<output, limit>> /\ pc' # "limit" /\ pc # "done"
          /\ result' # result => pc' = "done" /\ result' # "limit_exceeded"
      BY <1>4 DEF NextItem, vars, inputs, diffing, written, errors, Goto, Fail, DeltaReadFails
    <2> QED
      BY <2>1 DEF IInv, LimitInv
  <1>5. CASE ReadTrailer
    <2>1. /\ UNCHANGED <<output, limit>> /\ pc' # "limit" /\ pc # "done"
          /\ result' # result => pc' = "done" /\ result' # "limit_exceeded"
      BY <1>5 DEF ReadTrailer, vars, inputs, diffing, written, errors, Goto, Fail, DeltaReadFails
    <2> QED
      BY <2>1 DEF IInv, LimitInv
  <1>6. CASE ReadEntry
    <2>1. /\ UNCHANGED <<output, limit>> /\ pc' # "limit" /\ pc # "done"
          /\ result' # result => pc' = "done" /\ result' # "limit_exceeded"
      BY <1>6 DEF ReadEntry, vars, inputs, diffing, written, errors, Goto, Fail, DeltaReadFails
    <2> QED
      BY <2>1 DEF IInv, LimitInv
  <1>7. CASE ReadSource
    <2>1. /\ UNCHANGED <<output, limit>> /\ pc' # "limit" /\ pc # "done"
          /\ result' # result => pc' = "done" /\ result' # "limit_exceeded"
      BY <1>7 DEF ReadSource, vars, inputs, diffing, written, errors, Goto, Fail, DeltaReadFails
    <2> QED
      BY <2>1 DEF IInv, LimitInv
  <1>8. CASE ApplyOpcode
    <2>1. /\ UNCHANGED <<output, limit>> /\ pc' # "limit" /\ pc # "done"
          /\ result' # result => pc' = "done" /\ result' # "limit_exceeded"
      BY <1>8 DEF ApplyOpcode, vars, inputs, diffing, written, errors, Goto, Fail, DeltaReadFails
    <2> QED
      BY <2>1 DEF IInv, LimitInv
  <1>9. CASE OpcodesEnd
    <2>1. /\ UNCHANGED <<output, limit>> /\ pc' # "limit" /\ pc # "done"
          /\ result' # result => pc' = "done" /\ result' # "limit_exceeded"
      BY <1>9 DEF OpcodesEnd, vars, inputs, diffing, written, errors, Goto, Fail, DeltaReadFails
    <2> QED
      BY <2>1 DEF IInv, LimitInv
  <1>10. CASE CopyTail
    <2>1. /\ UNCHANGED <<output, limit>> /\ pc' # "limit" /\ pc # "done"
          /\ result' # result => pc' = "done" /\ result' # "limit_exceeded"
      BY <1>10 DEF CopyTail, vars, inputs, diffing, written, errors, Goto, Fail, DeltaReadFails
    <2> QED
      BY <2>1 DEF IInv, LimitInv
  <1>11. CASE WriteProduced
    <2>1. /\ Len(output) \in Nat /\ Len(produced) \in Nat /\ limit \in Nat
          /\ Len(output \o produced) = Len(output) + Len(produced)
      BY Joined, LenProperties, ApplyAssumption DEF IInv, TypeInv
    <2>2. UNCHANGED <<produced, limit>> /\ pc' # "limit" /\ result = "none"
      BY <1>11 DEF WriteProduced, Goto, Fail, inputs, IInv, LimitInv
    <2>3. CASE Len(produced) > limit - Len(output)
      <3>1. output' = output /\ pc' = "done"
        BY <1>11, <2>3 DEF WriteProduced, Fail, written
      <3> QED
        BY <2>1, <2>2, <2>3, <3>1 DEF IInv, LimitInv
    <2>4. CASE ~(Len(produced) > limit - Len(output))
      <3>1. /\ output' = output \o produced \/ output' = output
            /\ result' \in {"none", "io_error"} /\ (result' = "io_error" => pc' = "done")
        BY <1>11, <2>2, <2>4 DEF WriteProduced, Goto, Fail, written
      <3> QED
        BY <2>1, <2>2, <2>4, <3>1 DEF IInv, LimitInv
    <2> QED
      BY <2>3, <2>4
  <1>12. CASE Finish
    <2>1. /\ UNCHANGED <<output, limit>> /\ pc' # "limit" /\ pc # "done"
          /\ result' # result => pc' = "done" /\ result' # "limit_exceeded"
      BY <1>12 DEF Finish, vars, inputs, diffing, written, errors, Goto, Fail, DeltaReadFails
    <2> QED
      BY <2>1 DEF IInv, LimitInv
  <1>13. CASE Throw
    <2>1. /\ UNCHANGED <<output, limit>> /\ pc' # "limit" /\ pc # "done"
          /\ result' # result => pc' = "done" /\ result' # "limit_exceeded"
      BY <1>13 DEF Throw, vars, inputs, diffing, written, errors, Goto, Fail, DeltaReadFails
    <2> QED
      BY <2>1 DEF IInv, LimitInv
  <1>14. CASE Change
    BY <1>14 DEF Change, IInv, LimitInv, vars, inputs, diffing, written, errors, Goto, Fail, DeltaReadFails
  <1>15. CASE Done \/ UNCHANGED vars
    BY <1>15 DEF Done, IInv, LimitInv, vars, inputs, diffing, written, errors, Goto, Fail, DeltaReadFails
  <1>16. CASE Open
    <2>1. /\ UNCHANGED <<output, limit>> /\ pc' # "limit" /\ pc # "done"
          /\ result' # result => pc' = "done" /\ result' # "limit_exceeded"
      BY <1>16 DEF Open, vars, inputs, diffing, written, errors, Goto, Fail, DeltaReadFails
    <2> QED
      BY <2>1 DEF IInv, LimitInv
  <1>17. CASE SignByte
    <2>1. /\ UNCHANGED <<output, limit>> /\ pc' # "limit" /\ pc # "done"
          /\ result' # result => pc' = "done" /\ result' # "limit_exceeded"
      BY <1>17 DEF SignByte, vars, inputs, diffing, written, errors, Goto, Fail, DeltaReadFails
    <2> QED
      BY <2>1 DEF IInv, LimitInv
  <1> QED
    BY <1>1, <1>2, <1>3, <1>4, <1>5, <1>6, <1>7, <1>8, <1>9, <1>10, <1>11, <1>12, <1>13, <1>14,
       <1>15, <1>16, <1>17 DEF Next, Main

LEMMA Starts == Init => IInv
  <1> SUFFICES ASSUME Init PROVE IInv
    OBVIOUS
  <1>1. <<>> \in Seq(Byte) /\ <<>> \in Seq(Chunk) /\ Len(<<>>) = 0
    BY EmptySeq
  <1>2. delta \in Seq(DeltaItem) /\ Len(delta) \in Nat /\ content \in Contents
    BY InputsAssumption, LenProperties DEF Init
  <1>3. MaxWord \in Nat /\ MaxChanges \in Nat /\ MaxLength \in Nat
    BY ApplyAssumption
  <1>4. TypeInv
    BY <1>1, <1>2, <1>3 DEF Init, TypeInv
  <1>5. PhaseInv
    BY DEF Init, PhaseInv
  <1>6. TrailerInv
    BY DEF Init, TrailerInv
  <1>7. LimitInv
    BY <1>1, <1>3 DEF Init, LimitInv
  <1> QED
    BY <1>4, <1>5, <1>6, <1>7 DEF IInv

-----------------------------------------------------------------------------
(* The strengthened invariant holds in every reachable state of apply.     *)
THEOREM Inductive == Spec => []IInv
  <1>1. IInv /\ [Next]_vars => IInv'
    BY TypeStep, PhaseStep, TrailerStep, LimitStep DEF IInv
  <1> QED
    BY <1>1, Starts, PTL DEF Spec

(* Every variable keeps its type: the reader never passes the end of the   *)
(* delta (DeltaCodec.hpp:245), whatever it is told to expect there.        *)
THEOREM TypeCorrect == Spec => []TypeOK
  <1>1. IInv => TypeOK
    BY DEF IInv, TypeInv, PhaseInv, TrailerInv, TypeOK
  <1> QED
    BY <1>1, Inductive, PTL

(* For every delta, damaged in whatever way, and every change of the old   *)
(* file: an output that replaces the destination is the one that the       *)
(* delta's last item, its trailer, digests (Apply.hpp:114-127, 214-225).   *)
THEOREM OutputExact == Spec => []ExactOutput
  <1>1. IInv => ExactOutput
    BY DEF IInv, TrailerInv, ExactOutput
  <1> QED
    BY <1>1, Inductive, PTL

(* For every delta and every limit: no more than the limit is ever staged, *)
(* and only a delta that describes more is stopped (Apply.hpp:200).        *)
THEOREM LimitKept == Spec => []LimitExact
  <1>1. IInv => LimitExact
    BY DEF IInv, LimitInv, LimitExact
  <1> QED
    BY <1>1, Inductive, PTL

(* For every sequence of opcodes: applyDiff() keeps within the old chunk   *)
(* and within the size its entry declares (Apply.hpp:250-299).             *)
THEOREM PatchKeepsBounds == Spec => []PatchBounded
  <1>1. IInv => PatchBounded
    <2> SUFFICES ASSUME IInv, pc \in {"opcodes", "tail"}
                 PROVE  /\ patch.at \in 0 .. Len(base) /\ Len(patch.out) <= entry.size
                        /\ entry.size <= MaxChunk
      BY DEF PatchBounded
    <2>1. base \in Seq(Byte) /\ PatchGood(patch, base, entry.size) /\ entry.size <= MaxChunk
      BY DEF IInv, TypeInv, PhaseInv
    <2> QED
      BY <2>1, LenProperties DEF PatchGood
  <1> QED
    BY <1>1, Inductive, PTL

-----------------------------------------------------------------------------
(* What is staged, as long as the old file stays as it was signed: the     *)
(* bytes of the entries counted so far, and, when the entry under way is   *)
(* written, its own.                                                       *)
UnderWay ==
    \E e \in 1 .. pos :
        /\ delta[e].kind = "entry" /\ entry = delta[e]
        /\ Counted(e - 1) = entries /\ Counted(pos) = entries + 1

AsScanned ==
    Len(scanned) <= Len(content) /\ \A k \in 1 .. Len(scanned) : scanned[k] = content[k]

StagedInv ==
    changes = 0 =>
        /\ StagedAsDescribed
        /\ pc = "sign" => AsScanned
        /\ pc \in {"limit", "open", "header", "sign", "item", "entry"} => Counted(pos) = entries
        /\ pc \in {"item", "entry", "source", "opcodes", "tail", "write"}
           => chunks = Chunked[content]
        /\ pc \in {"source", "opcodes", "tail", "write"} => UnderWay
        /\ pc = "source" => Matches(entry)
        /\ pc = "write" => produced = entry.digest

(* In terms of the next state, when the delta and the old file stay.       *)
LEMMA StagedKept ==
    ASSUME changes' = 0 => /\ StagedAsDescribed' /\ delta' = delta /\ content' = content
                           /\ pc' = "sign" => AsScanned'
                           /\ pc' \in {"limit", "open", "header", "sign", "item", "entry"}
                              => Counted(pos') = entries'
                           /\ pc' \in {"item", "entry", "source", "opcodes", "tail", "write"}
                              => chunks' = Chunked[content]
                           /\ pc' \in {"source", "opcodes", "tail", "write"} =>
                                \E e \in 1 .. pos' :
                                    /\ delta[e].kind = "entry" /\ entry' = delta[e]
                                    /\ Counted(e - 1) = entries' /\ Counted(pos') = entries' + 1
                           /\ pc' = "source" => Matches(entry)'
                           /\ pc' = "write" => produced' = entry'.digest
    PROVE  StagedInv'
  <1>1. SUFFICES ASSUME changes' = 0
                 PROVE  /\ StagedAsDescribed'
                        /\ pc' = "sign" => AsScanned'
                        /\ pc' \in {"limit", "open", "header", "sign", "item", "entry"}
                           => Counted(pos)' = entries'
                        /\ pc' \in {"item", "entry", "source", "opcodes", "tail", "write"}
                           => chunks' = Chunked[content']
                        /\ pc' \in {"source", "opcodes", "tail", "write"} => UnderWay'
                        /\ pc' = "source" => Matches(entry)'
                        /\ pc' = "write" => produced' = entry'.digest
    BY Zenon DEF StagedInv
  <1>2. delta' = delta /\ content' = content
    BY <1>1
  <1>3. \A k : Counted(k)' = Counted(k)
    BY <1>2 DEF Counted
  <1>4. Counted(pos)' = Counted(pos')
    BY <1>2 DEF Counted
  <1>5. ASSUME NEW e \in 1 .. pos', delta[e].kind = "entry", entry' = delta[e],
               Counted(e - 1) = entries', Counted(pos') = entries' + 1
        PROVE  UnderWay'
    BY <1>2, <1>3, <1>4, <1>5 DEF UnderWay
  <1> QED
    BY <1>1, <1>2, <1>4, <1>5

LEMMA ItemCounted ==
    ASSUME IInv, ~AtEof
    PROVE  Counted(pos + 1) = IF Item.kind = "entry" THEN Counted(pos) + 1 ELSE Counted(pos)
  <1>1. pos \in Nat
    BY LenProperties DEF IInv, TypeInv
  <1> QED
    BY <1>1, CountedNext DEF Item

LEMMA StagedSame ==
    ASSUME StagedInv, changes = 0, UNCHANGED <<delta, output, entries>>
    PROVE  StagedAsDescribed'
  <1>1. output = Described(entries)
    BY DEF StagedInv, StagedAsDescribed
  <1>2. Described(entries)' = Described(entries)
    BY DEF Described
  <1> QED
    BY <1>1, <1>2 DEF StagedAsDescribed

LEMMA StagedStep ==
    ASSUME IInv, StagedInv, [Next]_vars
    PROVE  StagedInv'
  <1> SUFFICES ASSUME changes' = 0 PROVE StagedInv'
    BY DEF StagedInv
  <1>0. ~Change /\ changes = 0 /\ UNCHANGED <<delta, content>>
    <2>1. ~Change
      BY ApplyAssumption DEF Change, IInv, TypeInv
    <2> QED
      BY <2>1 DEF Next, Main, Done, vars, inputs, ParseLimit, Open, ReadHeader, SignByte,
                  SignOld, NextItem,
                  ReadTrailer, ReadEntry, ReadSource, ApplyOpcode, OpcodesEnd, CopyTail,
                  WriteProduced, Finish, Throw
  <1>s. UNCHANGED <<output, entries>> => StagedAsDescribed'
    BY <1>0, StagedSame
  <1>d. ASSUME pc' = "done", UNCHANGED <<output, entries>>
        PROVE  StagedInv'
    BY <1>0, <1>s, <1>d, StagedKept
  <1>1. CASE ParseLimit
    <2>1. pc = "limit" /\ pc' \in {"open", "done"} /\ UNCHANGED <<pos, output, entries>>
      BY <1>1 DEF ParseLimit, Goto, Fail, written
    <2>2. Counted(pos) = entries
      BY <1>0, <2>1 DEF StagedInv
    <2> QED
      BY <1>0, <1>s, <2>1, <2>2, StagedKept
  <1>2. CASE ReadHeader
    <2>1. pc = "header" /\ pc' \in {"sign", "done"} /\ UNCHANGED <<output, entries>>
      BY <1>2 DEF ReadHeader, Goto, Fail, DeltaReadFails, written
    <2>2. Counted(pos) = entries
      BY <1>0, <2>1 DEF StagedInv
    <2>3. ASSUME pc' = "sign" PROVE Counted(pos') = entries
      <3>1. At("header") /\ pos' = pos + 1
        BY <1>2, <2>3 DEF ReadHeader, Goto, Fail, DeltaReadFails
      <3> QED
        BY <2>2, <3>1, ItemCounted DEF At
    <2>4. AsScanned'
      <3>1. scanned' = <<>> /\ content' \in Seq(Byte)
        BY <1>0, <1>2, <2>1, InputsAssumption DEF ReadHeader, inputs, IInv, TypeInv, PhaseInv
      <3>2. Len(<<>>) = 0 /\ Len(content') \in Nat
        BY <3>1, EmptySeq, LenProperties
      <3> QED
        BY <3>1, <3>2 DEF AsScanned
    <2> QED
      BY <1>0, <1>s, <2>1, <2>3, <2>4, StagedKept
  <1>3. CASE SignOld
    <2>1. pc = "sign" /\ pc' \in {"item", "done"} /\ UNCHANGED <<pos, output, entries>>
      BY <1>3 DEF SignOld, Goto, Fail, written
    <2>2. Counted(pos) = entries
      BY <1>0, <2>1 DEF StagedInv
    <2>3. ASSUME pc' = "item" PROVE chunks' = Chunked[content]
      <3>1. chunks' = Chunked[scanned] /\ Len(scanned) >= Len(content)
        BY <1>3, <2>3 DEF SignOld, Goto, Fail
      <3>2. AsScanned
        BY <1>0, <2>1 DEF StagedInv
      <3>3. scanned \in Seq(Byte) /\ content \in Seq(Byte)
        BY InputsAssumption DEF IInv, TypeInv
      <3>4. Len(scanned) = Len(content)
        BY <3>1, <3>2, <3>3, LenProperties DEF AsScanned
      <3>5. scanned = content
        BY <3>2, <3>3, <3>4, SeqEqual DEF AsScanned
      <3> QED
        BY <3>1, <3>5
    <2> QED
      BY <1>0, <1>s, <2>1, <2>2, <2>3, StagedKept
  <1>4. CASE NextItem
    <2>1. /\ pc = "item" /\ pc' \in {"finish", "trailer", "entry"}
          /\ UNCHANGED <<pos, chunks, output, entries>>
      BY <1>4 DEF NextItem, Goto, written
    <2>2. Counted(pos) = entries /\ chunks = Chunked[content]
      BY <1>0, <2>1 DEF StagedInv
    <2> QED
      BY <1>0, <1>s, <2>1, <2>2, StagedKept
  <1>5. CASE ReadTrailer
    <2>1. pc' \in {"finish", "done"} /\ UNCHANGED <<output, entries>>
      BY <1>5 DEF ReadTrailer, Goto, Fail, DeltaReadFails, written
    <2> QED
      BY <1>0, <1>s, <2>1, StagedKept
  <1>6. CASE ReadEntry
    <2>1. /\ pc = "entry" /\ pc' \in {"write", "source", "done"} /\ pos' = pos + 1
          /\ UNCHANGED <<chunks, output, entries>>
      BY <1>6 DEF ReadEntry, Goto, Fail, DeltaReadFails, written
    <2>2. Counted(pos) = entries /\ chunks = Chunked[content]
      BY <1>0, <2>1 DEF StagedInv
    <2>3. ~AtEof /\ pos \in Nat
      BY <2>1, LenProperties DEF IInv, PhaseInv, TypeInv
    <2>4. CASE pc' = "done"
      BY <1>d, <2>1, <2>4
    <2>5. CASE pc' # "done"
      <3>1. /\ Acceptable(Item) /\ Matches(Item) /\ entry' = Item
            /\ pc' = IF Item.type = "ADDED" THEN "write" ELSE "source"
            /\ produced' = IF Item.type = "ADDED" THEN Item.payload ELSE <<>>
        BY <1>6, <2>5 DEF ReadEntry, Goto, Fail, DeltaReadFails
      <3>2. Item.kind = "entry"
        BY <3>1 DEF Acceptable
      <3>3. Counted(pos') = entries + 1
        BY <2>1, <2>2, <2>3, <3>2, ItemCounted
      <3>4. /\ pos + 1 \in 1 .. pos' /\ delta[pos + 1].kind = "entry"
            /\ entry' = delta[pos + 1] /\ Counted((pos + 1) - 1) = entries
        <4>1. (pos + 1) - 1 = pos /\ pos + 1 \in 1 .. pos'
          BY <2>1, <2>3
        <4> QED
          BY <2>2, <3>1, <3>2, <4>1 DEF Item
      <3>5. pc' = "source" => Matches(entry)'
        BY <2>1, <3>1 DEF Matches
      <3>6. pc' = "write" => produced' = entry'.digest
        <4>1. ASSUME pc' = "write" PROVE Item.type = "ADDED"
          BY <3>1, <4>1
        <4> QED
          BY <3>1, <4>1 DEF Matches
      <3> DEFINE e == pos + 1
      <3>7. /\ e \in 1 .. pos' /\ delta[e].kind = "entry" /\ entry' = delta[e]
            /\ Counted(e - 1) = entries'
        BY <2>1, <3>4
      <3> HIDE DEF e
      <3> QED
        BY <1>0, <1>s, <2>1, <2>2, <3>3, <3>5, <3>6, <3>7, StagedKept
    <2> QED
      BY <2>4, <2>5
  <1>7. CASE ReadSource
    <2>1. /\ pc = "source" /\ pc' \in {"opcodes", "write", "done"}
          /\ UNCHANGED <<pos, chunks, entry, output, entries>>
      BY <1>7 DEF ReadSource, Goto, Fail, written
    <2>2. chunks = Chunked[content] /\ UnderWay /\ Matches(entry)
      BY <1>0, <2>1 DEF StagedInv
    <2>3. ASSUME pc' = "write" PROVE produced' = entry.digest
      <3>1. entry.type = "ORIGINAL" /\ produced' = SourceBytes
        BY <1>7, <2>1, <2>3 DEF ReadSource, Goto, Fail, SourceBytes
      <3>2. chunks[entry.source].bytes = entry.digest
        BY <2>2, <3>1 DEF Matches
      <3>3. content \in Contents /\ entry.source \in 1 .. Len(chunks)
        BY <2>1 DEF IInv, TypeInv, PhaseInv
      <3>4. SourceBytes = chunks[entry.source].bytes
        <4>1. content \in Seq(Byte) /\ Len(content) <= MaxLength
          BY <3>3, InputsAssumption
        <4>2. content \in DOMAIN Chunked
          BY <4>1, ScannedIsCut
        <4> QED
          BY <2>2, <3>3, <4>2, InputsAssumption DEF SourceBytes
      <3> QED
        BY <3>1, <3>2, <3>4
    <2> QED
      BY <1>0, <1>s, <2>1, <2>2, <2>3, StagedKept DEF UnderWay
  <1>8. CASE ApplyOpcode
    <2>1. /\ pc = "opcodes" /\ pc' \in {"opcodes", "done"} /\ pos' = pos + 1 /\ At("op")
          /\ UNCHANGED <<chunks, entry, output, entries>>
      BY <1>8 DEF ApplyOpcode, Goto, Fail, DeltaReadFails, written
    <2>2. chunks = Chunked[content] /\ UnderWay
      BY <1>0, <2>1 DEF StagedInv
    <2>3. PICK e \in 1 .. pos :
              /\ delta[e].kind = "entry" /\ entry = delta[e]
              /\ Counted(e - 1) = entries /\ Counted(pos) = entries + 1
      BY <2>2 DEF UnderWay
    <2>4. Counted(pos') = entries + 1
      BY <2>1, <2>3, ItemCounted DEF At
    <2>5. e \in 1 .. pos'
      BY <2>1, LenProperties DEF IInv, TypeInv
    <2> QED
      BY <1>0, <1>s, <2>1, <2>2, <2>3, <2>4, <2>5, StagedKept
  <1>9. CASE OpcodesEnd
    <2>1. /\ pc = "opcodes" /\ pc' = "tail"
          /\ UNCHANGED <<pos, chunks, entry, output, entries>>
      BY <1>9 DEF OpcodesEnd, Goto, written
    <2>2. chunks = Chunked[content] /\ UnderWay
      BY <1>0, <2>1 DEF StagedInv
    <2> QED
      BY <1>0, <1>s, <2>1, <2>2, StagedKept DEF UnderWay
  <1>10. CASE CopyTail
    <2>1. /\ pc = "tail" /\ pc' \in {"write", "done"}
          /\ UNCHANGED <<pos, chunks, entry, output, entries>>
      BY <1>10 DEF CopyTail, Goto, Fail, written
    <2>2. chunks = Chunked[content] /\ UnderWay
      BY <1>0, <2>1 DEF StagedInv
    <2>3. pc' = "write" => produced' = entry.digest
      BY <1>10 DEF CopyTail, Goto, Fail
    <2> QED
      BY <1>0, <1>s, <2>1, <2>2, <2>3, StagedKept DEF UnderWay
  <1>11. CASE WriteProduced
    <2>1. pc = "write" /\ pc' \in {"item", "done"} /\ UNCHANGED <<pos, chunks>>
      BY <1>11 DEF WriteProduced, Goto, Fail
    <2>2. chunks = Chunked[content] /\ UnderWay /\ produced = entry.digest
      BY <1>0, <2>1 DEF StagedInv
    <2>3. CASE pc' = "done"
      BY <1>11, <1>d, <2>3 DEF WriteProduced, Goto, Fail, written
    <2>4. CASE pc' = "item"
      <3>1. output' = output \o produced /\ entries' = entries + 1
        BY <1>11, <2>4 DEF WriteProduced, Goto, Fail
      <3>2. PICK e \in 1 .. pos :
                /\ delta[e].kind = "entry" /\ entry = delta[e]
                /\ Counted(e - 1) = entries /\ Counted(pos) = entries + 1
        BY <2>2 DEF UnderWay
      <3>3. delta \in Seq(DeltaItem) /\ e \in 1 .. Len(delta)
        BY LenProperties DEF IInv, TypeInv
      <3>4. output = Described(entries)
        BY <1>0 DEF StagedInv, StagedAsDescribed
      <3>5. Described(Counted(e - 1) + 1) = Described(Counted(e - 1)) \o delta[e].digest
        BY <3>2, <3>3, DescribedNext
      <3>6. Described(entries + 1) = Described(entries) \o produced
        BY <2>2, <3>2, <3>5
      <3>7. Described(entries)' = Described(entries + 1)
        BY <1>0, <3>1 DEF Described
      <3>8. StagedAsDescribed'
        BY <3>1, <3>4, <3>6, <3>7 DEF StagedAsDescribed
      <3> QED
        BY <1>0, <2>1, <2>2, <2>4, <3>1, <3>2, <3>8, StagedKept
    <2> QED
      BY <2>1, <2>3, <2>4
  <1>12. CASE Finish
    BY <1>12, <1>d DEF Finish, Fail, written
  <1>13. CASE Throw
    BY <1>13, <1>d DEF Throw, Fail, written
  <1>14. CASE Done \/ UNCHANGED vars
    <2>1. UNCHANGED <<scanned, content, pc, pos, chunks, entry, produced, output, entries>>
      BY <1>14 DEF Done, vars, inputs, written
    <2>2. /\ pc \in {"limit", "open", "header", "sign", "item", "entry"}
             => Counted(pos) = entries
          /\ pc = "sign" => AsScanned
          /\ pc \in {"item", "entry", "source", "opcodes", "tail", "write"}
             => chunks = Chunked[content]
          /\ pc \in {"source", "opcodes", "tail", "write"} => UnderWay
          /\ pc = "source" => Matches(entry)
          /\ pc = "write" => produced = entry.digest
      BY <1>0 DEF StagedInv
    <2>3. Matches(entry)' = Matches(entry)
      BY <2>1 DEF Matches
    <2> QED
      BY <1>0, <1>s, <2>1, <2>2, <2>3, StagedKept DEF UnderWay, AsScanned
  <1>15. CASE Open
    <2>1. pc = "open" /\ pc' \in {"header", "done"} /\ UNCHANGED <<pos, output, entries>>
      BY <1>15 DEF Open, Goto, Fail, written
    <2>2. Counted(pos) = entries
      BY <1>0, <2>1 DEF StagedInv
    <2> QED
      BY <1>0, <1>s, <2>1, <2>2, StagedKept
  <1>16. CASE SignByte
    <2>1. pc = "sign" /\ pc' = "sign" /\ UNCHANGED <<content, pos, output, entries>>
      BY <1>16 DEF SignByte, written
    <2>2. Counted(pos) = entries /\ AsScanned
      BY <1>0, <2>1 DEF StagedInv
    <2>3. AsScanned'
      BY <1>16, <2>1, <2>2, ByteScanned DEF AsScanned
    <2> QED
      BY <1>0, <1>s, <2>1, <2>2, <2>3, StagedKept
  <1> QED
    BY <1>0, <1>1, <1>2, <1>3, <1>4, <1>5, <1>6, <1>7, <1>8, <1>9, <1>10, <1>11, <1>12, <1>13,
       <1>14, <1>15, <1>16 DEF Next, Main

(* For every delta and every old file that stays as it was signed: at any  *)
(* time, what is staged is what the digests of the entries written so far  *)
(* describe, in their order (Apply.hpp:139-211).                           *)
THEOREM Staged == Spec => []StagedAsDescribed
  <1>1. Init => StagedInv
    <2> SUFFICES ASSUME Init PROVE StagedInv
      OBVIOUS
    <2>1. delta \in Seq(DeltaItem)
      BY InputsAssumption DEF Init
    <2>2. Counted(0) = 0
      BY CountedNext
    <2>3. StagedAsDescribed
      BY <2>1, NothingDescribed DEF Init, StagedAsDescribed
    <2> QED
      BY <2>2, <2>3 DEF Init, StagedInv
  <1>2. IInv /\ StagedInv /\ [Next]_vars => StagedInv'
    BY StagedStep
  <1>3. StagedInv => StagedAsDescribed
    BY DEF StagedInv, StagedAsDescribed
  <1> QED
    BY <1>1, <1>2, <1>3, Inductive, PTL DEF Spec

(* For every option: --max-output means what it says, and is refused only  *)
(* where it is malformed or no word can hold it (main.cpp:46-83).          *)
THEOREM LimitParsed == Spec => ParsedExactly
  <1> DEFINE Step == pc = "limit" =>
                        /\ pc' = "open" => Means(option) /\ limit' = Value(option)
                        /\ result' = "usage" => ~Means(option) \/ Value(option) > MaxWord
  <1>1. IInv /\ [Next]_vars => [Step]_vars
    <2> SUFFICES ASSUME IInv, Next, pc = "limit"
                 PROVE  /\ pc' = "open" => Means(option) /\ limit' = Value(option)
                        /\ result' = "usage" => ~Means(option) \/ Value(option) > MaxWord
      OBVIOUS
    <2>1. option \in Options \ {None} /\ result = "none"
      BY DEF IInv, TypeInv, LimitInv
    <2>2. CASE ParseLimit
      <3>1. CASE parse_size(option) = Refused
        <4>1. ~Means(option) \/ Value(option) > MaxWord
          BY <2>1, <3>1, ParsedAs
        <4>2. pc' = "done"
          BY <2>2, <3>1 DEF ParseLimit, Fail
        <4> QED
          BY <4>1, <4>2
      <3>2. CASE parse_size(option) # Refused
        <4>1. Means(option) /\ parse_size(option) = Value(option)
          BY <2>1, <3>2, ParsedAs
        <4>2. limit' = parse_size(option) /\ result' = result
          BY <2>2, <3>2 DEF ParseLimit, Goto
        <4> QED
          BY <2>1, <4>1, <4>2
      <3> QED
        BY <3>1, <3>2
    <2>3. CASE Throw
      BY <2>3 DEF Throw, Fail
    <2>4. CASE Change
      BY <2>1, <2>4 DEF Change
    <2>5. ParseLimit \/ Throw \/ Change
      BY DEF Next, Main, Done, Open, ReadHeader, SignByte, SignOld, NextItem, ReadTrailer, ReadEntry,
             ReadSource, ApplyOpcode, OpcodesEnd, CopyTail, WriteProduced, Finish, Goto
    <2> QED
      BY <2>2, <2>3, <2>4, <2>5
  <1> QED
    BY <1>1, Inductive, PTL DEF Spec, ParsedExactly
=============================================================================
