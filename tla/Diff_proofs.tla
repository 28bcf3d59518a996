----------------------------- MODULE Diff_proofs -----------------------------
(***************************************************************************)
(* The diff of any two chunks, patched into the old one, is the new one:   *)
(* with the opcodes of the Myers search, where it ends, as with those of   *)
(* the greedy fallback.                                                    *)
(***************************************************************************)
EXTENDS Diff, Induction_proofs

-----------------------------------------------------------------------------
(* Paths: a point <<x, y>> stands for the first x bytes of the old chunk   *)
(* and the first y of the new one, and every element of a sequence leads   *)
(* from a point to the next as R says.                                     *)

Point == Nat \X Nat

Along(R, es, ps, p, q) ==
    /\ ps \in [0 .. Len(es) -> Point] /\ ps[0] = p /\ ps[Len(es)] = q
    /\ \A j \in 1 .. Len(es) : <<es[j], ps[j - 1], ps[j]>> \in R

Linked(R, es, p, q) == \E ps \in [0 .. Len(es) -> Point] : Along(R, es, ps, p, q)

(* The empty sequence stays where it is.                                   *)
LEMMA LinkedEmpty ==
    ASSUME NEW R, NEW p \in Point
    PROVE  Linked(R, <<>>, p, p)
  <1> DEFINE ps == [j \in 0 .. Len(<<>>) |-> p]
  <1>1. Len(<<>>) = 0
    OBVIOUS
  <1>2. ps \in [0 .. Len(<<>>) -> Point] /\ ps[0] = p /\ ps[Len(<<>>)] = p
    BY <1>1
  <1>3. 1 .. Len(<<>>) = {}
    BY <1>1
  <1> HIDE DEF ps
  <1>4. Along(R, <<>>, ps, p, p)
    BY <1>2, <1>3 DEF Along
  <1> QED
    BY <1>2, <1>4 DEF Linked

LEMMA LinkedNowhere ==
    ASSUME NEW R, NEW p, NEW q, Linked(R, <<>>, p, q)
    PROVE  p = q /\ p \in Point
  <1>1. PICK ps \in [0 .. Len(<<>>) -> Point] : Along(R, <<>>, ps, p, q)
    BY DEF Linked
  <1>2. Len(<<>>) = 0 /\ 0 \in 0 .. 0
    OBVIOUS
  <1>3. ps[0] = p /\ ps[0] = q /\ ps[0] \in Point
    BY <1>1, <1>2 DEF Along
  <1> QED
    BY <1>3

LEMMA LinkedOne ==
    ASSUME NEW R, NEW e, NEW p \in Point, NEW q \in Point, <<e, p, q>> \in R
    PROVE  Linked(R, <<e>>, p, q)
  <1> DEFINE ps == [j \in 0 .. Len(<<e>>) |-> IF j = 0 THEN p ELSE q]
  <1>1. Len(<<e>>) = 1 /\ <<e>>[1] = e
    OBVIOUS
  <1>2. ps \in [0 .. Len(<<e>>) -> Point] /\ ps[0] = p /\ ps[1] = q
    BY <1>1
  <1> HIDE DEF ps
  <1>3. ASSUME NEW j \in 1 .. Len(<<e>>) PROVE <<(<<e>>)[j], ps[j - 1], ps[j]>> \in R
    <2>1. j = 1 /\ j - 1 = 0
      BY <1>1
    <2> QED
      BY <1>1, <1>2, <2>1
  <1>4. Along(R, <<e>>, ps, p, q)
    BY <1>1, <1>2, <1>3 DEF Along
  <1> QED
    BY <1>2, <1>4 DEF Linked

(* Two paths, one after the other.                                         *)
LEMMA LinkedJoin ==
    ASSUME NEW R, NEW E, NEW es \in Seq(E), NEW fs \in Seq(E),
           NEW p, NEW q, NEW r, Linked(R, es, p, q), Linked(R, fs, q, r)
    PROVE  Linked(R, es \o fs, p, r)
  <1> DEFINE m == Len(es)
             n == Len(fs)
             gs == es \o fs
  <1>1. /\ m \in Nat /\ n \in Nat /\ Len(gs) = m + n
        /\ \A i \in 1 .. m + n : gs[i] = IF i <= m THEN es[i] ELSE fs[i - m]
    BY ConcatProperties, LenProperties
  <1>2. PICK ps \in [0 .. m -> Point] : Along(R, es, ps, p, q)
    BY DEF Linked
  <1>3. PICK qs \in [0 .. n -> Point] : Along(R, fs, qs, q, r)
    BY DEF Linked
  <1>4. /\ ps[0] = p /\ ps[m] = q
        /\ \A j \in 1 .. m : <<es[j], ps[j - 1], ps[j]>> \in R
    BY <1>2 DEF Along
  <1>5. /\ qs[0] = q /\ qs[n] = r
        /\ \A j \in 1 .. n : <<fs[j], qs[j - 1], qs[j]>> \in R
    BY <1>3 DEF Along
  <1> HIDE DEF m, n, gs
  <1> DEFINE rs == [j \in 0 .. m + n |-> IF j <= m THEN ps[j] ELSE qs[j - m]]
  <1>6. rs \in [0 .. m + n -> Point]
    <2>1. ASSUME NEW j \in 0 .. m + n PROVE rs[j] \in Point
      <3>1. CASE j <= m
        <4>1. j \in 0 .. m
          BY <3>1, <1>1
        <4> QED
          BY <3>1, <4>1
      <3>2. CASE ~(j <= m)
        <4>1. j - m \in 0 .. n
          BY <3>2, <1>1
        <4> QED
          BY <3>2, <4>1
      <3> QED
        BY <3>1, <3>2
    <2> QED
      BY <2>1
  <1>7. \A j \in 0 .. m : rs[j] = ps[j]
    BY <1>1
  <1>8. \A j \in 0 .. n : rs[m + j] = qs[j]
    <2>1. SUFFICES ASSUME NEW j \in 0 .. n PROVE rs[m + j] = qs[j]
      OBVIOUS
    <2>2. m + j \in 0 .. m + n /\ (m + j) - m = j
      BY <1>1
    <2>3. CASE j = 0
      BY <1>1, <1>4, <1>5, <2>2, <2>3
    <2>4. CASE j # 0
      BY <1>1, <2>2, <2>4
    <2> QED
      BY <2>3, <2>4
  <1> HIDE DEF rs
  <1>9. ASSUME NEW j \in 1 .. m + n PROVE <<gs[j], rs[j - 1], rs[j]>> \in R
    <2>1. CASE j <= m
      <3>1. j \in 1 .. m /\ j \in 0 .. m /\ j - 1 \in 0 .. m
        BY <1>1, <2>1
      <3> QED
        BY <1>1, <1>4, <1>7, <2>1, <3>1
    <2>2. CASE ~(j <= m)
      <3> DEFINE i == j - m
      <3>1. i \in 1 .. n /\ i \in 0 .. n /\ i - 1 \in 0 .. n /\ m + i = j /\ m + (i - 1) = j - 1
        BY <1>1, <2>2
      <3>2. gs[j] = fs[i]
        BY <1>1, <2>2
      <3> HIDE DEF i
      <3>3. rs[j] = qs[i] /\ rs[j - 1] = qs[i - 1]
        BY <1>8, <3>1
      <3> QED
        BY <1>5, <3>1, <3>2, <3>3
    <2> QED
      BY <2>1, <2>2
  <1>10. rs[0] = p /\ rs[m + n] = r
    BY <1>1, <1>4, <1>5, <1>7, <1>8
  <1>11. Along(R, gs, rs, p, r)
    BY <1>1, <1>6, <1>9, <1>10 DEF Along
  <1> QED
    BY <1>1, <1>6, <1>11 DEF Linked, gs

(* The first step of a path, and the rest of it.                           *)
LEMMA LinkedFirst ==
    ASSUME NEW R, NEW E, NEW es \in Seq(E), es # <<>>,
           NEW p, NEW r, Linked(R, es, p, r)
    PROVE  \E q \in Point : <<Head(es), p, q>> \in R /\ Linked(R, Tail(es), q, r)
  <1> DEFINE n == Len(es)
             ts == Tail(es)
  <1>1. /\ n \in Nat \ {0} /\ Head(es) = es[1]
        /\ ts \in Seq(E) /\ Len(ts) = n - 1
        /\ \A i \in 1 .. n - 1 : ts[i] = es[i + 1]
    BY HeadTailProperties, LenProperties, EmptySeq
  <1>2. PICK ps \in [0 .. n -> Point] : Along(R, es, ps, p, r)
    BY DEF Linked
  <1>3. /\ ps[0] = p /\ ps[n] = r
        /\ \A j \in 1 .. n : <<es[j], ps[j - 1], ps[j]>> \in R
    BY <1>2 DEF Along
  <1> HIDE DEF n, ts
  <1> DEFINE qs == [j \in 0 .. n - 1 |-> ps[j + 1]]
  <1>4. qs \in [0 .. n - 1 -> Point]
    BY <1>1
  <1>5. qs[0] = ps[1] /\ qs[n - 1] = r
    BY <1>1, <1>3
  <1>6. ASSUME NEW j \in 1 .. n - 1 PROVE <<ts[j], qs[j - 1], qs[j]>> \in R
    <2>1. j + 1 \in 1 .. n /\ j - 1 \in 0 .. n - 1 /\ j \in 0 .. n - 1
          /\ (j + 1) - 1 = j /\ (j - 1) + 1 = j
      BY <1>1
    <2>2. qs[j - 1] = ps[j] /\ qs[j] = ps[j + 1] /\ ts[j] = es[j + 1]
      BY <1>1, <2>1
    <2> HIDE DEF qs
    <2> QED
      BY <1>3, <2>1, <2>2
  <1> HIDE DEF qs
  <1>7. Along(R, ts, qs, ps[1], r)
    BY <1>1, <1>4, <1>5, <1>6 DEF Along
  <1>8. Linked(R, ts, ps[1], r)
    BY <1>1, <1>4, <1>7 DEF Linked
  <1>9. 1 \in 1 .. n /\ 1 \in 0 .. n /\ 1 - 1 = 0
    BY <1>1
  <1>10. ps[1] \in Point /\ <<es[1], p, ps[1]>> \in R
    BY <1>3, <1>9
  <1> QED
    BY <1>1, <1>8, <1>10 DEF ts

-----------------------------------------------------------------------------
(* Opcodes: what each does, seen from the point the patch has reached.     *)

Op == {o \in [op : {"D", "I", "X"}, pos : Nat, bytes : Seq(Byte), del : Nat] :
          /\ Len(o.bytes) <= MaxCount
          /\ o.op = "X" <=> o.del > 0
          /\ o.op # "X" <=> o.bytes # <<>>}

(* The m bytes from p on are in both chunks, and equal.                    *)
Same(a, b, p, m) == /\ p[1] + m <= Len(a) /\ p[2] + m <= Len(b)
                    /\ \A j \in 1 .. m : a[p[1] + j] = b[p[2] + j]

(* Equal bytes lead from p to r.                                           *)
Matched(a, b, p, r) ==
    \E m \in Nat : r = <<p[1] + m, p[2] + m>> /\ Same(a, b, p, m)

(* An opcode leads from p, over the equal bytes before its position, to q. *)
Leads(a, b, o, p, q) ==
    /\ \E m \in Nat : /\ o.pos = p[2] + m /\ Same(a, b, p, m)
                      /\ q = <<p[1] + m + Consumes(o), o.pos + Len(o.bytes)>>
    /\ q[1] <= Len(a) /\ q[2] <= Len(b)
    /\ \A j \in 1 .. Len(o.bytes) : o.bytes[j] = b[o.pos + j]

OpSteps(a, b) == {t \in Op \X Point \X Point : Leads(a, b, t[1], t[2], t[3])}

LEMMA OpStep ==
    ASSUME NEW a, NEW b, NEW o, NEW p, NEW q
    PROVE  <<o, p, q>> \in OpSteps(a, b)
           <=> o \in Op /\ p \in Point /\ q \in Point /\ Leads(a, b, o, p, q)
  BY DEF OpSteps

(* The parts of an opcode.                                                 *)
LEMMA OpFacts ==
    ASSUME NEW o \in Op
    PROVE  /\ o.op \in {"D", "I", "X"} /\ o.pos \in Nat /\ o.bytes \in Seq(Byte)
           /\ o.del \in Nat /\ Len(o.bytes) \in Nat /\ Consumes(o) \in Nat
           /\ Len(o.bytes) <= MaxCount
           /\ o.op = "X" <=> o.del > 0
           /\ o.op # "X" <=> o.bytes # <<>>
  <1>1. o.bytes \in Seq(Byte) /\ o.del \in Nat
    BY DEF Op
  <1>2. Len(o.bytes) \in Nat
    BY <1>1, LenProperties
  <1>3. Consumes(o) \in Nat
    BY <1>1, <1>2 DEF Consumes
  <1> QED
    BY <1>1, <1>2, <1>3 DEF Op

(* The opcodes written so far lead from the start to a point from which    *)
(* only equal bytes are missing up to r.                                   *)
Reached(a, b, os, r) ==
    /\ os \in Seq(Op)
    /\ \E p \in Point : Linked(OpSteps(a, b), os, <<0, 0>>, p) /\ Matched(a, b, p, r)

LEMMA MatchedNothing ==
    ASSUME NEW a, NEW b, NEW p \in Point, p[1] <= Len(a), p[2] <= Len(b)
    PROVE  Matched(a, b, p, p)
  <1>1. p = <<p[1] + 0, p[2] + 0>>
    BY DEF Point
  <1>2. p[1] + 0 = p[1] /\ p[2] + 0 = p[2]
    BY DEF Point
  <1>3. Same(a, b, p, 0)
    BY <1>2 DEF Same
  <1> QED
    BY <1>1, <1>3 DEF Matched

(* Equal bytes after equal bytes.                                          *)
LEMMA SameJoin ==
    ASSUME NEW a, NEW b, NEW p \in Point, NEW m \in Nat, NEW n \in Nat,
           Same(a, b, p, m), Same(a, b, <<p[1] + m, p[2] + m>>, n)
    PROVE  Same(a, b, p, m + n)
  <1> DEFINE x == p[1]
             y == p[2]
  <1>1. x \in Nat /\ y \in Nat
    BY DEF Point
  <1>2. /\ x + m <= Len(a) /\ y + m <= Len(b)
        /\ \A j \in 1 .. m : a[x + j] = b[y + j]
    BY DEF Same
  <1>3. /\ (x + m) + n <= Len(a) /\ (y + m) + n <= Len(b)
        /\ \A j \in 1 .. n : a[(x + m) + j] = b[(y + m) + j]
    BY DEF Same
  <1> HIDE DEF x, y
  <1>4. ASSUME NEW j \in 1 .. m + n PROVE a[x + j] = b[y + j]
    <2>1. CASE j <= m
      BY <1>2, <2>1
    <2>2. CASE ~(j <= m)
      <3>1. j - m \in 1 .. n /\ (x + m) + (j - m) = x + j /\ (y + m) + (j - m) = y + j
        BY <1>1, <2>2
      <3>2. a[(x + m) + (j - m)] = b[(y + m) + (j - m)]
        BY <1>3, <3>1
      <3> QED
        BY <3>1, <3>2
    <2> QED
      BY <2>1, <2>2
  <1>5. x + (m + n) = (x + m) + n /\ y + (m + n) = (y + m) + n
    BY <1>1
  <1> QED
    BY <1>3, <1>4, <1>5 DEF Same, x, y

LEMMA MatchedJoin ==
    ASSUME NEW a, NEW b, NEW p \in Point, NEW q, NEW r,
           Matched(a, b, p, q), Matched(a, b, q, r)
    PROVE  Matched(a, b, p, r)
  <1>1. PICK m \in Nat : q = <<p[1] + m, p[2] + m>> /\ Same(a, b, p, m)
    BY DEF Matched
  <1>2. PICK n \in Nat : r = <<q[1] + n, q[2] + n>> /\ Same(a, b, q, n)
    BY DEF Matched
  <1>3. Same(a, b, p, m + n)
    BY <1>1, <1>2, SameJoin
  <1>4. r = <<p[1] + (m + n), p[2] + (m + n)>>
    BY <1>1, <1>2 DEF Point
  <1> QED
    BY <1>3, <1>4 DEF Matched

(* An opcode also leads on from where the equal bytes before it start.     *)
LEMMA MatchBefore ==
    ASSUME NEW a, NEW b, NEW o \in Op, NEW p \in Point, NEW q \in Point, NEW r,
           Matched(a, b, p, q), Leads(a, b, o, q, r)
    PROVE  Leads(a, b, o, p, r)
  <1>1. PICK m \in Nat : q = <<p[1] + m, p[2] + m>> /\ Same(a, b, p, m)
    BY DEF Matched
  <1>2. PICK n \in Nat : /\ o.pos = q[2] + n /\ Same(a, b, q, n)
                         /\ r = <<q[1] + n + Consumes(o), o.pos + Len(o.bytes)>>
    BY DEF Leads
  <1>3. Same(a, b, p, m + n)
    BY <1>1, <1>2, SameJoin
  <1>4. Consumes(o) \in Nat
    BY OpFacts
  <1>5. q[1] = p[1] + m /\ q[2] = p[2] + m /\ p[1] \in Nat /\ p[2] \in Nat
    BY <1>1 DEF Point
  <1>6. o.pos = p[2] + (m + n) /\ q[1] + n + Consumes(o) = p[1] + (m + n) + Consumes(o)
    BY SMTT(60), <1>2, <1>4, <1>5
  <1>7. m + n \in Nat
    OBVIOUS
  <1>8. \E k \in Nat : /\ o.pos = p[2] + k /\ Same(a, b, p, k)
                       /\ r = <<p[1] + k + Consumes(o), o.pos + Len(o.bytes)>>
    BY <1>2, <1>3, <1>6, <1>7
  <1> QED
    BY <1>8 DEF Leads

(* More equal bytes, and more opcodes, after those that lead to r.         *)
LEMMA ReachedMatch ==
    ASSUME NEW a, NEW b, NEW os, NEW r, NEW s, Reached(a, b, os, r), Matched(a, b, r, s)
    PROVE  Reached(a, b, os, s)
  <1>1. PICK p \in Point : Linked(OpSteps(a, b), os, <<0, 0>>, p) /\ Matched(a, b, p, r)
    BY DEF Reached
  <1>2. Matched(a, b, p, s)
    BY <1>1, MatchedJoin
  <1> QED
    BY <1>1, <1>2 DEF Reached

LEMMA ReachedOps ==
    ASSUME NEW a, NEW b, NEW os, NEW r, NEW s, NEW es \in Seq(Op),
           Reached(a, b, os, r), r[1] <= Len(a), r[2] <= Len(b),
           Linked(OpSteps(a, b), es, r, s)
    PROVE  Reached(a, b, os \o es, s) /\ s \in Point
  <1> DEFINE R == OpSteps(a, b)
  <1>1. PICK p \in Point : Linked(R, os, <<0, 0>>, p) /\ Matched(a, b, p, r)
    BY DEF Reached
  <1>2. os \in Seq(Op) /\ os \o es \in Seq(Op)
    BY ConcatProperties DEF Reached
  <1>3. CASE es = <<>>
    <2>1. r = s /\ r \in Point
      BY <1>3, LinkedNowhere
    <2>2. os \o es = os
      BY <1>2, <1>3, ConcatEmptySeq
    <2> QED
      BY <2>1, <2>2
  <1>4. CASE es # <<>>
    <2>1. PICK q \in Point : <<Head(es), r, q>> \in R /\ Linked(R, Tail(es), q, s)
      BY <1>4, LinkedFirst
    <2>2. Head(es) \in Op /\ r \in Point /\ Leads(a, b, Head(es), r, q)
      BY <2>1, OpStep
    <2>3. Leads(a, b, Head(es), p, q)
      BY <1>1, <2>2, MatchBefore
    <2>4. <<Head(es), p, q>> \in R
      BY <1>1, <2>1, <2>2, <2>3, OpStep
    <2>5. Linked(R, <<Head(es)>>, p, q)
      BY <2>4, LinkedOne
    <2>6. <<Head(es)>> \in Seq(Op) /\ Tail(es) \in Seq(Op) /\ <<Head(es)>> \o Tail(es) = es
      BY <1>4, <2>2, HeadTailProperties
    <2>7. Linked(R, <<Head(es)>> \o Tail(es), p, s)
      BY <2>1, <2>5, <2>6, LinkedJoin, Zenon
    <2>8. Linked(R, os \o es, <<0, 0>>, s)
      BY <1>1, <1>2, <2>6, <2>7, LinkedJoin, Zenon
    <2> QED
      <3>1. PICK ps \in [0 .. Len(es) -> Point] : Along(R, es, ps, r, s)
        BY DEF Linked
      <3>2. s \in Point
        <4>1. Len(es) \in Nat
          BY LenProperties
        <4>2. ps[Len(es)] = s
          BY <3>1 DEF Along
        <4> QED
          BY <4>1, <4>2
      <3>3. s[1] <= Len(a) /\ s[2] <= Len(b)
        <4> DEFINE n == Len(es)
        <4>1. n \in Nat \ {0}
          BY <1>4, LenProperties, EmptySeq
        <4>2. <<es[n], ps[n - 1], ps[n]>> \in R /\ ps[n] = s
          BY <3>1, <4>1 DEF Along
        <4> QED
          BY <4>2, OpStep DEF Leads
      <3>4. Matched(a, b, s, s)
        BY <3>2, <3>3, MatchedNothing
      <3> QED
        BY <1>2, <2>8, <3>2, <3>4 DEF Reached
  <1> QED
    BY <1>3, <1>4

-----------------------------------------------------------------------------
(* The opcodes of a block of inline bytes, and of a block of edits.        *)

(* As many parts of c elements as n elements need.                         *)
LEMMA Ceiling ==
    ASSUME NEW n \in Nat, NEW c \in Nat \ {0}
    PROVE  /\ (n + c - 1) \div c \in Nat
           /\ ((n + c - 1) \div c) * c >= n
           /\ ((n + c - 1) \div c) * c < n + c
  <1> DEFINE k == n + c - 1
             q == k \div c
  <1>1. k \in Nat
    OBVIOUS
  <1>2. q \in Nat /\ k = q * c + (k % c) /\ k % c \in 0 .. c - 1
    BY <1>1
  <1>3. q * c \in Nat
    BY <1>2
  <1>4. k - (c - 1) <= q * c /\ q * c <= k
    BY <1>1, <1>2, <1>3
  <1> HIDE DEF q
  <1> QED
    BY <1>2, <1>3, <1>4 DEF q

LEMMA Multiples ==
    ASSUME NEW c \in Nat, NEW i \in Nat, NEW j \in Nat, i <= j
    PROVE  i * c \in Nat /\ j * c \in Nat /\ i * c <= j * c
  OBVIOUS

LEMMA OneMultipleLess ==
    ASSUME NEW c \in Nat, NEW j \in Nat \ {0}
    PROVE  (j - 1) * c \in Nat /\ (j - 1) * c + c = j * c
  OBVIOUS

(* Where the parts of n elements end, of at most c elements each.          *)
Ends(off, n, c, q) ==
    /\ q \in Nat /\ off \in [0 .. q -> Nat] /\ off[0] = 0 /\ off[q] = n
    /\ \A j \in 1 .. q : /\ off[j - 1] = (j - 1) * c
                         /\ off[j] = Min({(j - 1) * c + c, n})
                         /\ off[j - 1] < off[j] /\ off[j] <= off[j - 1] + c /\ off[j] <= n

LEMMA Parts ==
    ASSUME NEW n \in Nat, NEW c \in Nat \ {0}
    PROVE  \E off : Ends(off, n, c, (n + c - 1) \div c)
  <1> DEFINE q == (n + c - 1) \div c
             off == [j \in 0 .. q |-> IF j * c <= n THEN j * c ELSE n]
  <1>c. q \in Nat /\ q * c >= n /\ q * c < n + c
    BY Ceiling
  <1> HIDE DEF q
  <1>1. q \in Nat /\ q * c >= n /\ q * c < n + c /\ q * c \in Nat
    BY <1>c
  <1>2. \A j \in 0 .. q : j * c \in Nat /\ off[j] = IF j * c <= n THEN j * c ELSE n
    <2>1. \A j \in 0 .. q : j \in Nat
      OBVIOUS
    <2>2. \A j \in Nat : j * c \in Nat
      OBVIOUS
    <2> QED
      BY <2>1, <2>2
  <1>3. off \in [0 .. q -> Nat]
    BY <1>2
  <1>4. off[0] = 0
    <2>1. 0 * c = 0 /\ 0 \in 0 .. q
      BY <1>1
    <2> QED
      BY <1>2, <2>1
  <1>5. off[q] = n
    <2>1. q \in 0 .. q
      BY <1>1
    <2>2. off[q] = IF q * c <= n THEN q * c ELSE n
      BY <1>2, <2>1
    <2> HIDE DEF off
    <2> QED
      BY <1>1, <2>2
  <1>6. ASSUME NEW j \in 1 .. q
        PROVE  /\ off[j - 1] = (j - 1) * c
               /\ off[j] = Min({(j - 1) * c + c, n})
               /\ off[j - 1] < off[j] /\ off[j] <= off[j - 1] + c /\ off[j] <= n
    <2>1. j \in Nat \ {0} /\ j \in 0 .. q /\ j - 1 \in 0 .. q /\ j - 1 \in Nat /\ q - 1 \in Nat
      BY <1>1
    <2>2. (j - 1) * c \in Nat /\ (j - 1) * c + c = j * c
      BY <2>1, OneMultipleLess
    <2>3. (q - 1) * c \in Nat /\ (q - 1) * c + c = q * c
      BY <1>1, <2>1, OneMultipleLess
    <2>4. (j - 1) * c <= (q - 1) * c
      <3>1. j - 1 <= q - 1 /\ j - 1 \in Nat /\ q - 1 \in Nat
        BY <1>1, <2>1
      <3> DEFINE i == j - 1
                 k == q - 1
      <3> HIDE DEF off, i, k
      <3>2. i \in Nat /\ k \in Nat /\ i <= k
        BY <3>1 DEF i, k
      <3>3. i * c <= k * c
        BY <3>2, Multiples
      <3> QED
        BY <3>3 DEF i, k
    <2>5. /\ off[j - 1] = IF (j - 1) * c <= n THEN (j - 1) * c ELSE n
          /\ off[j] = IF j * c <= n THEN j * c ELSE n
      BY <1>2, <2>1
    <2> HIDE DEF off
    <2> DEFINE i == (j - 1) * c
               k == (q - 1) * c
    <2>6. i < n
      <3>1. i \in Nat /\ k \in Nat /\ i <= k /\ k + c = q * c
        BY <2>2, <2>3, <2>4
      <3> HIDE DEF i, k
      <3> QED
        BY <1>1, <3>1
    <2>7. i \in Nat /\ i + c = j * c /\ off[j - 1] = i
      BY <2>2, <2>5, <2>6
    <2> HIDE DEF i
    <2>8. Min({i + c, n}) = IF i + c <= n THEN i + c ELSE n
      BY <2>7, MinOfTwo
    <2>9. off[j] = IF i + c <= n THEN i + c ELSE n
      BY <2>5, <2>7
    <2> QED
      BY <2>6, <2>7, <2>8, <2>9 DEF i
  <1> HIDE DEF off
  <1>7. Ends(off, n, c, q)
    BY <1>1, <1>3, <1>4, <1>5, <1>6 DEF Ends
  <1> QED
    BY <1>7 DEF q

(* Bytes of the new chunk, from position y on.                             *)
Copied(b, y, bytes) ==
    /\ bytes \in Seq(Byte) /\ y + Len(bytes) <= Len(b)
    /\ \A j \in 1 .. Len(bytes) : bytes[j] = b[y + j]

Over(op, n) == IF op = "D" THEN n ELSE 0

LEMMA CopiedPart ==
    ASSUME NEW b \in Seq(Byte), NEW y \in Nat, NEW n \in Nat, y + n <= Len(b)
    PROVE  /\ Copied(b, y, SubSeq(b, y + 1, y + n))
           /\ Len(SubSeq(b, y + 1, y + n)) = n
  <1> DEFINE i == y + 1
             k == y + n
             bs == SubSeq(b, i, k)
  <1>1. \A t \in i .. k : b[t] \in Byte
    <2>1. \A t \in i .. k : t \in 1 .. Len(b)
      BY LenProperties
    <2> QED
      BY <2>1, ElementOfSeq
  <1>2. i \in Int /\ k \in Int /\ k - i + 1 = n /\ (i <= k => k - i + 1 = n) /\ (~(i <= k) => n = 0)
    OBVIOUS
  <1>3. \A t \in 1 .. n : i + t - 1 = y + t
    OBVIOUS
  <1> HIDE DEF i, k
  <1>4. /\ SubSeq(b, i, k) \in Seq(Byte)
        /\ Len(SubSeq(b, i, k)) = IF i <= k THEN k - i + 1 ELSE 0
        /\ \A t \in 1 .. k - i + 1 : SubSeq(b, i, k)[t] = b[i + t - 1]
    BY <1>1, <1>2, SubSeqProperties
  <1>5. bs \in Seq(Byte) /\ Len(bs) = n /\ \A t \in 1 .. n : bs[t] = b[y + t]
    BY <1>2, <1>3, <1>4
  <1> HIDE DEF bs
  <1>6. Copied(b, y, bs)
    BY <1>5 DEF Copied
  <1> QED
    BY <1>5, <1>6 DEF bs, i, k

LEMMA InlineOne ==
    ASSUME NEW a \in Seq(Byte), NEW b \in Seq(Byte), NEW op \in {"D", "I"},
           NEW x \in Nat, NEW y \in Nat, NEW bs, Copied(b, y, bs),
           bs # <<>>, Len(bs) <= MaxCount, x + Over(op, Len(bs)) <= Len(a)
    PROVE  <<Opcode(op, y, bs, 0), <<x, y>>, <<x + Over(op, Len(bs)), y + Len(bs)>>>>
           \in OpSteps(a, b)
  <1> DEFINE o == Opcode(op, y, bs, 0)
             n == Len(bs)
             p == <<x, y>>
             q == <<x + Over(op, n), y + n>>
  <1>1. /\ n \in Nat /\ bs \in Seq(Byte) /\ y + n <= Len(b)
        /\ \A j \in 1 .. n : bs[j] = b[y + j]
    BY LenProperties DEF Copied
  <1>2. Over(op, n) \in Nat
    BY <1>1 DEF Over
  <1>3. /\ o.op = op /\ o.pos = y /\ o.bytes = bs /\ o.del = 0
        /\ o = [op |-> op, pos |-> y, bytes |-> bs, del |-> 0]
    BY DEF Opcode
  <1> HIDE DEF o
  <1>4. o \in Op
    <2>1. o \in [op : {"D", "I", "X"}, pos : Nat, bytes : Seq(Byte), del : Nat]
      BY <1>1, <1>3
    <2>2. o.op # "X" /\ ~(o.del > 0)
      BY <1>3
    <2> QED
      BY <1>3, <2>1, <2>2 DEF Op
  <1>5. Consumes(o) = Over(op, n)
    BY <1>3 DEF Consumes, Over
  <1>6. p \in Point /\ q \in Point
    BY <1>1, <1>2 DEF Point
  <1>7. Same(a, b, p, 0)
    <2>1. x + 0 <= Len(a) /\ y + 0 <= Len(b)
      BY <1>1, <1>2, LenProperties
    <2> QED
      BY <2>1 DEF Same
  <1>8. o.pos = p[2] + 0 /\ q = <<p[1] + 0 + Consumes(o), o.pos + Len(o.bytes)>>
    BY <1>3, <1>5
  <1>9. q[1] <= Len(a) /\ q[2] <= Len(b)
    BY <1>1
  <1>10. \A j \in 1 .. Len(o.bytes) : o.bytes[j] = b[o.pos + j]
    BY <1>1, <1>3
  <1> HIDE DEF p, q
  <1>11. \E m \in Nat : /\ o.pos = p[2] + m /\ Same(a, b, p, m)
                        /\ q = <<p[1] + m + Consumes(o), o.pos + Len(o.bytes)>>
    BY <1>7, <1>8
  <1>12. Leads(a, b, o, p, q)
    BY <1>9, <1>10, <1>11 DEF Leads
  <1>13. <<o, p, q>> \in OpSteps(a, b)
    BY <1>4, <1>6, <1>12, OpStep
  <1> QED
    BY <1>13 DEF o, p, q, n

LEMMA InlineLinked ==
    ASSUME NEW a \in Seq(Byte), NEW b \in Seq(Byte), NEW op \in {"D", "I"},
           NEW x \in Nat, NEW y \in Nat, NEW bytes, Copied(b, y, bytes),
           x + Over(op, Len(bytes)) <= Len(a)
    PROVE  /\ Inline(op, y, bytes) \in Seq(Op)
           /\ Linked(OpSteps(a, b), Inline(op, y, bytes), <<x, y>>,
                     <<x + Over(op, Len(bytes)), y + Len(bytes)>>)
  <1> DEFINE n == Len(bytes)
             c == MaxCount
             q == (n + c - 1) \div c
             os == Inline(op, y, bytes)
  <1>1. /\ n \in Nat /\ bytes \in Seq(Byte) /\ y + n <= Len(b)
        /\ \A j \in 1 .. n : bytes[j] = b[y + j]
    BY LenProperties DEF Copied
  <1>2. c \in Nat \ {0}
    BY DiffAssumption
  <1>3. PICK off : Ends(off, n, c, q)
    BY <1>1, <1>2, Parts
  <1>4. /\ q \in Nat /\ off \in [0 .. q -> Nat] /\ off[0] = 0 /\ off[q] = n
        /\ \A j \in 1 .. q : /\ off[j - 1] = (j - 1) * c
                             /\ off[j] = Min({(j - 1) * c + c, n})
                             /\ off[j - 1] < off[j] /\ off[j] <= off[j - 1] + c /\ off[j] <= n
    BY <1>3 DEF Ends
  <1>5. os = [j \in 1 .. q |-> Opcode(op, y + (j - 1) * c,
                 SubSeq(bytes, (j - 1) * c + 1, Min({(j - 1) * c + c, n})), 0)]
    BY DEF Inline
  <1> HIDE DEF os, q, n, c
  <1> DEFINE part(j) == SubSeq(bytes, off[j - 1] + 1, off[j])
             w(k) == Over(op, k)
             ps == [j \in 0 .. q |-> <<x + w(off[j]), y + off[j]>>]
  <1>6. \A j \in 1 .. q : os[j] = Opcode(op, y + off[j - 1], part(j), 0)
    BY <1>4, <1>5
  <1>7. \A j \in 0 .. q : off[j] \in Nat /\ off[j] <= n
    <2>1. SUFFICES ASSUME NEW j \in 0 .. q PROVE off[j] \in Nat /\ off[j] <= n
      OBVIOUS
    <2>2. CASE j = 0
      BY <1>1, <1>4, <2>2
    <2>3. CASE j # 0
      <3>1. j \in 1 .. q
        BY <1>4, <2>3
      <3> QED
        BY <1>4, <3>1
    <2> QED
      BY <2>2, <2>3
  <1>8. \A k \in Nat : w(k) \in Nat /\ w(k) <= k
    BY DEF Over
  <1>9. ps \in [0 .. q -> Point] /\ ps[0] = <<x, y>> /\ ps[q] = <<x + w(n), y + n>>
    <2>1. \A j \in 0 .. q : <<x + w(off[j]), y + off[j]>> \in Point
      <3>1. SUFFICES ASSUME NEW j \in 0 .. q
                     PROVE  x + w(off[j]) \in Nat /\ y + off[j] \in Nat
        BY DEF Point
      <3>2. off[j] \in Nat /\ w(off[j]) \in Nat
        BY <1>7, <1>8
      <3> HIDE DEF w
      <3> QED
        BY <3>2
    <2>2. w(0) = 0
      BY DEF Over
    <2>3. x + w(off[0]) = x /\ y + off[0] = y /\ 0 \in 0 .. q /\ q \in 0 .. q
      BY <1>4, <2>2
    <2> QED
      BY <1>4, <2>1, <2>3
  <1>10. \A j \in 0 .. q : ps[j] = <<x + w(off[j]), y + off[j]>>
    OBVIOUS
  <1> HIDE DEF ps
  <1>11. ASSUME NEW j \in 1 .. q PROVE <<os[j], ps[j - 1], ps[j]>> \in OpSteps(a, b)
    <2> DEFINE i == off[j - 1]
               k == off[j]
               o == os[j]
    <2>1. j - 1 \in 0 .. q /\ j \in 0 .. q
      BY <1>4
    <2>2. i \in Nat /\ k \in Nat /\ i < k /\ k <= i + c /\ k <= n
      BY <1>4, <1>7, <2>1
    <2>3. o = Opcode(op, y + i, part(j), 0)
      BY <1>6
    <2> DEFINE bs == SubSeq(bytes, i + 1, k)
    <2>4. ps[j - 1] = <<x + w(i), y + i>> /\ ps[j] = <<x + w(k), y + k>>
      BY <1>10, <2>1
    <2> HIDE DEF i, k
    <2>5. Copied(b, y + i, bs) /\ Len(bs) = k - i
      <3> DEFINE m == k - i
      <3>1. i \in Nat /\ m \in Nat /\ i + m = k /\ i + m <= Len(bytes)
        BY <2>2 DEF n
      <3> HIDE DEF m
      <3>2. Copied(bytes, i, SubSeq(bytes, i + 1, i + m)) /\ Len(SubSeq(bytes, i + 1, i + m)) = m
        BY <1>1, <3>1, CopiedPart
      <3>3. Copied(bytes, i, bs) /\ Len(bs) = m
        BY <3>1, <3>2
      <3> HIDE DEF bs
      <3>4. bs \in Seq(Byte) /\ \A t \in 1 .. m : bs[t] = bytes[i + t]
        BY <3>3 DEF Copied
      <3>5. ASSUME NEW t \in 1 .. m PROVE bs[t] = b[(y + i) + t]
        <4>1. i + t \in 1 .. n /\ y + (i + t) = (y + i) + t
          BY <1>1, <2>2, <3>1
        <4> QED
          BY <1>1, <3>4, <4>1
      <3>6. (y + i) + m <= Len(b)
        BY <1>1, <2>2, <3>1, LenProperties
      <3>7. Copied(b, y + i, bs)
        BY <3>3, <3>4, <3>5, <3>6 DEF Copied
      <3> QED
        BY <3>3, <3>7 DEF m
    <2>6. o = Opcode(op, y + i, bs, 0)
      BY <2>3 DEF i, k
    <2> HIDE DEF o, bs
    <2>7. bs # <<>> /\ Len(bs) <= MaxCount
      <3>1. Len(bs) > 0
        BY <2>2, <2>5
      <3>2. Len(bs) <= MaxCount
        BY <1>2, <2>2, <2>5 DEF c
      <3> QED
        BY <3>1, <3>2, EmptySeq
    <2>8. /\ w(i) \in Nat /\ w(k) \in Nat /\ w(n) \in Nat /\ Over(op, k - i) \in Nat
          /\ w(i) + Over(op, k - i) = w(k) /\ w(k) <= w(n)
      BY <1>1, <2>2 DEF Over
    <2> DEFINE u == x + w(i)
               v == y + i
               d == Over(op, k - i)
    <2>9. u \in Nat /\ v \in Nat /\ u + d = x + w(k) /\ v + (k - i) = y + k /\ x + w(k) <= Len(a)
      <3>1. x + w(n) <= Len(a)
        BY DEF n
      <3> DEFINE wi == w(i)
                 wk == w(k)
                 wn == w(n)
      <3>2. wi \in Nat /\ wk \in Nat /\ wn \in Nat /\ d \in Nat /\ wi + d = wk /\ wk <= wn
        BY <2>8
      <3>3. x + wn <= Len(a) /\ u = x + wi /\ Len(a) \in Nat
        BY <3>1, LenProperties
      <3> HIDE DEF u, d, w, wi, wk, wn
      <3>4. u \in Nat /\ u + d = x + wk /\ x + wk <= Len(a)
        BY <3>2, <3>3
      <3>5. v \in Nat /\ v + (k - i) = y + k
        BY <2>2
      <3> QED
        BY <3>4, <3>5 DEF wk
    <2>10. Copied(b, v, bs) /\ d = Over(op, Len(bs))
      BY <2>5
    <2> HIDE DEF u, v, d, w
    <2>11. u + Over(op, Len(bs)) <= Len(a)
      BY <2>9, <2>10
    <2>12. <<Opcode(op, v, bs, 0), <<u, v>>, <<u + Over(op, Len(bs)), v + Len(bs)>>>>
           \in OpSteps(a, b)
      BY <2>7, <2>9, <2>10, <2>11, InlineOne
    <2>13. /\ <<u, v>> = ps[j - 1] /\ o = Opcode(op, v, bs, 0)
           /\ <<u + Over(op, Len(bs)), v + Len(bs)>> = ps[j]
      <3>1. u + Over(op, Len(bs)) = x + w(k) /\ v + Len(bs) = y + k
        BY <2>5, <2>9, <2>10
      <3> QED
        BY <2>4, <2>6, <3>1 DEF u, v
    <2>14. <<o, ps[j - 1], ps[j]>> \in OpSteps(a, b)
      BY <2>12, <2>13
    <2> QED
      BY <2>14 DEF o
  <1>12. os \in Seq(Op) /\ Len(os) = q
    <2>1. \A j \in 1 .. q : os[j] \in Op
      BY <1>11, OpStep
    <2>2. os = [j \in 1 .. q |-> os[j]]
      BY <1>5
    <2>3. os \in [1 .. q -> Op]
      BY <2>1, <2>2
    <2> QED
      BY <1>4, <2>3, IsASeq, LenProperties
  <1>13. Along(OpSteps(a, b), os, ps, <<x, y>>, <<x + w(n), y + n>>)
    BY <1>9, <1>11, <1>12 DEF Along
  <1>14. Linked(OpSteps(a, b), os, <<x, y>>, <<x + w(n), y + n>>)
    BY <1>9, <1>12, <1>13 DEF Linked
  <1> QED
    BY <1>12, <1>14 DEF os, n

LEMMA CutLinked ==
    ASSUME NEW a \in Seq(Byte), NEW b \in Seq(Byte), NEW x \in Nat, NEW y \in Nat,
           NEW d \in Nat \ {0}, x + d <= Len(a), y <= Len(b)
    PROVE  /\ <<Opcode("X", y, <<>>, d)>> \in Seq(Op)
           /\ Linked(OpSteps(a, b), <<Opcode("X", y, <<>>, d)>>, <<x, y>>, <<x + d, y>>)
  <1> DEFINE o == Opcode("X", y, <<>>, d)
             p == <<x, y>>
             q == <<x + d, y>>
  <1>1. /\ o = [op |-> "X", pos |-> y, bytes |-> <<>>, del |-> d]
        /\ o.op = "X" /\ o.pos = y /\ o.bytes = <<>> /\ o.del = d
    BY DEF Opcode
  <1>2. <<>> \in Seq(Byte) /\ Len(<<>>) = 0 /\ 0 <= MaxCount
    BY EmptySeq, DiffAssumption
  <1>3. o \in Op
    <2>1. o \in [op : {"D", "I", "X"}, pos : Nat, bytes : Seq(Byte), del : Nat]
      BY <1>1, <1>2
    <2>2. o.del > 0
      BY <1>1
    <2> HIDE DEF o
    <2> QED
      BY <1>1, <1>2, <2>1, <2>2 DEF Op
  <1>4. p \in Point /\ q \in Point
    BY DEF Point
  <1> HIDE DEF o
  <1>5. Consumes(o) = d
    BY <1>1 DEF Consumes
  <1>6. Same(a, b, p, 0)
    BY LenProperties DEF Same
  <1>7. o.pos = p[2] + 0 /\ q = <<p[1] + 0 + Consumes(o), o.pos + Len(o.bytes)>>
    BY <1>1, <1>2, <1>5
  <1>8. q[1] <= Len(a) /\ q[2] <= Len(b)
    OBVIOUS
  <1>9. \A j \in 1 .. Len(o.bytes) : o.bytes[j] = b[o.pos + j]
    <2>1. 1 .. Len(o.bytes) = {}
      BY <1>1, <1>2
    <2> QED
      BY <2>1
  <1> HIDE DEF p, q
  <1>10. \E m \in Nat : /\ o.pos = p[2] + m /\ Same(a, b, p, m)
                        /\ q = <<p[1] + m + Consumes(o), o.pos + Len(o.bytes)>>
    BY <1>6, <1>7
  <1>11. Leads(a, b, o, p, q)
    BY <1>8, <1>9, <1>10 DEF Leads
  <1>12. <<o, p, q>> \in OpSteps(a, b)
    BY <1>3, <1>4, <1>11, OpStep
  <1>13. Linked(OpSteps(a, b), <<o>>, p, q)
    BY <1>4, <1>12, LinkedOne
  <1>14. <<o>> \in Seq(Op)
    BY <1>3
  <1> QED
    BY <1>13, <1>14 DEF o, p, q

(* d deletions and some insertions, at the point <<x, y>>.                 *)
LEMMA BlockLinked ==
    ASSUME NEW a \in Seq(Byte), NEW b \in Seq(Byte), NEW x \in Nat, NEW y \in Nat,
           NEW d \in Nat, NEW ins, Copied(b, y, ins), x + d <= Len(a)
    PROVE  /\ Block(y, d, ins) \in Seq(Op)
           /\ Linked(OpSteps(a, b), Block(y, d, ins), <<x, y>>, <<x + d, y + Len(ins)>>)
  <1> DEFINE n == Len(ins)
             R == OpSteps(a, b)
  <1>1. n \in Nat /\ y + n <= Len(b) /\ Len(b) \in Nat
    BY LenProperties DEF Copied
  <1> HIDE DEF n
  <1>2. CASE d > 0 /\ d = n
    <2>1. Block(y, d, ins) = Inline("D", y, ins)
      BY <1>2 DEF Block, n
    <2>2. Over("D", Len(ins)) = d
      BY <1>2 DEF Over, n
    <2>3. x + Over("D", Len(ins)) <= Len(a)
      BY <2>2
    <2> QED
      BY <2>1, <2>2, <2>3, InlineLinked
  <1>3. CASE ~(d > 0 /\ d = n)
    <2> DEFINE cut == IF d > 0 THEN <<Opcode("X", y, <<>>, d)>> ELSE <<>>
               adds == Inline("I", y, ins)
    <2>1. Block(y, d, ins) = cut \o adds
      BY <1>3 DEF Block, n
    <2>2. cut \in Seq(Op) /\ Linked(R, cut, <<x, y>>, <<x + d, y>>)
      <3>1. CASE d > 0
        <4>1. d \in Nat \ {0} /\ y <= Len(b)
          BY <1>1, <3>1
        <4> QED
          BY <3>1, <4>1, CutLinked
      <3>2. CASE ~(d > 0)
        <4>1. d = 0
          BY <3>2
        <4>2. <<x, y>> \in Point /\ <<x + d, y>> = <<x, y>>
          BY <4>1 DEF Point
        <4>3. Linked(R, <<>>, <<x, y>>, <<x, y>>)
          BY <4>2, LinkedEmpty
        <4> QED
          BY <3>2, <4>2, <4>3, EmptySeq
      <3> QED
        BY <3>1, <3>2
    <2>3. /\ adds \in Seq(Op)
          /\ Linked(R, adds, <<x + d, y>>, <<x + d, y + Len(ins)>>)
      <3> DEFINE z == x + d
      <3>1. z \in Nat /\ Over("I", Len(ins)) = 0 /\ z + 0 = z /\ z <= Len(a)
        BY DEF Over
      <3> HIDE DEF z, adds
      <3>2. z + Over("I", Len(ins)) <= Len(a)
        BY <3>1
      <3>3. /\ Inline("I", y, ins) \in Seq(Op)
            /\ Linked(R, Inline("I", y, ins), <<z, y>>,
                      <<z + Over("I", Len(ins)), y + Len(ins)>>)
        BY <3>1, <3>2, InlineLinked
      <3>4. z + Over("I", Len(ins)) = z
        BY <3>1
      <3> QED
        BY <3>3, <3>4 DEF z, adds
    <2> HIDE DEF cut, adds
    <2>4. cut \o adds \in Seq(Op)
      BY <2>2, <2>3, ConcatProperties
    <2>5. Linked(R, cut \o adds, <<x, y>>, <<x + d, y + Len(ins)>>)
      BY <2>2, <2>3, LinkedJoin, Zenon
    <2> QED
      BY <2>1, <2>4, <2>5
  <1> QED
    BY <1>2, <1>3

-----------------------------------------------------------------------------
(* From an edit script to the opcodes.                                     *)

NothingYet == [y |-> 0, del |-> 0, ins |-> <<>>, ops |-> <<>>]

(* What FoldLeft iterates over the first n edits.                          *)
Emits(it, b, ses, n) ==
    it = [s \in SUBSET (1 .. n) |->
             IF s = {} THEN NothingYet
             ELSE Emit(b, it[s \ {Max(s)}], ses[Max(s)])]

LEMMA EmitsExist ==
    ASSUME NEW b, NEW ses, NEW n \in Nat
    PROVE  \E it : Emits(it, b, ses, n)
  <1> DEFINE P(k) == \E it : Emits(it, b, ses, k)
             S == {k \in Nat : P(k)}
  <1>1. P(0)
    <2> DEFINE it == [s \in SUBSET (1 .. 0) |-> NothingYet]
    <2>1. SUBSET (1 .. 0) = {{}}
      OBVIOUS
    <2>2. Emits(it, b, ses, 0)
      BY <2>1 DEF Emits
    <2> QED
      BY <2>2
  <1>2. ASSUME NEW k \in Nat, P(k) PROVE P(k + 1)
    <2>1. PICK it : Emits(it, b, ses, k)
      BY <1>2
    <2> DEFINE nx == [s \in SUBSET (1 .. k) |-> Emit(b, it[s], ses[k + 1])]
               jt == OneMore(it, nx, k)
    <2>2. Prolonged(jt, it, nx, k)
      BY GrowsByOne
    <2>3. jt = [s \in SUBSET (1 .. k + 1) |-> jt[s]] /\ jt[{}] = it[{}]
      BY DEF OneMore
    <2>4. it[{}] = NothingYet
      BY <2>1 DEF Emits
    <2>5. \A s \in SUBSET (1 .. k) : nx[s] = Emit(b, it[s], ses[k + 1])
      OBVIOUS
    <2> HIDE DEF jt, nx
    <2>6. ASSUME NEW s \in SUBSET (1 .. k + 1)
          PROVE  jt[s] = IF s = {} THEN NothingYet
                         ELSE Emit(b, jt[s \ {Max(s)}], ses[Max(s)])
      <3>1. CASE s = {}
        BY <2>3, <2>4, <3>1
      <3>2. CASE s # {}
        <4>1. \/ /\ Max(s) = k + 1 /\ s \ {Max(s)} \in SUBSET (1 .. k)
                 /\ jt[s \ {Max(s)}] = it[s \ {Max(s)}] /\ jt[s] = nx[s \ {Max(s)}]
              \/ /\ s \in SUBSET (1 .. k) /\ Max(s) \in 1 .. k
                 /\ jt[s \ {Max(s)}] = it[s \ {Max(s)}] /\ jt[s] = it[s]
          BY <2>2, <3>2 DEF Prolonged
        <4>2. CASE /\ Max(s) = k + 1 /\ s \ {Max(s)} \in SUBSET (1 .. k)
                   /\ jt[s \ {Max(s)}] = it[s \ {Max(s)}] /\ jt[s] = nx[s \ {Max(s)}]
          BY <2>5, <3>2, <4>2
        <4>3. CASE /\ s \in SUBSET (1 .. k) /\ Max(s) \in 1 .. k
                   /\ jt[s \ {Max(s)}] = it[s \ {Max(s)}] /\ jt[s] = it[s]
          <5>1. it[s] = Emit(b, it[s \ {Max(s)}], ses[Max(s)])
            BY <2>1, <3>2, <4>3 DEF Emits
          <5> QED
            BY <3>2, <4>3, <5>1
        <4> QED
          BY <4>1, <4>2, <4>3, Zenon
      <3> QED
        BY <3>1, <3>2
    <2>7. Emits(jt, b, ses, k + 1)
      BY <2>3, <2>6 DEF Emits
    <2> QED
      BY <2>7
  <1> HIDE DEF P
  <1>3. 0 \in S /\ \A k \in Nat : k \in S => k + 1 \in S
    BY <1>1, <1>2
  <1> HIDE DEF S
  <1>4. n \in S
    BY <1>3, SetInduction
  <1> QED
    BY <1>4 DEF S, P

LEMMA EmitsChosen ==
    ASSUME NEW b, NEW ses, NEW n, DOMAIN ses = 1 .. n, NEW it, Emits(it, b, ses, n)
    PROVE  \E jt : Emits(jt, b, ses, n) /\ Opcodes(b, ses) = Flush(jt[1 .. n]).ops
  BY ZenonT(60) DEF Opcodes, FoldLeft, MapThenFoldSet, Emits, NothingYet

(* The values of the fold: what has been written after the first edits.    *)
EmitSteps(acc, b, ses, n) ==
    /\ acc[0] = NothingYet
    /\ \A k \in 1 .. n : acc[k] = Emit(b, acc[k - 1], ses[k])

LEMMA OpcodesFold ==
    ASSUME NEW b, NEW E, NEW ses \in Seq(E)
    PROVE  \E acc : /\ EmitSteps(acc, b, ses, Len(ses))
                    /\ Opcodes(b, ses) = Flush(acc[Len(ses)]).ops
  <1> DEFINE n == Len(ses)
  <1>1. n \in Nat /\ DOMAIN ses = 1 .. n
    BY LenProperties
  <1> HIDE DEF n
  <1>2. PICK it : Emits(it, b, ses, n) /\ Opcodes(b, ses) = Flush(it[1 .. n]).ops
    BY <1>1, EmitsExist, EmitsChosen
  <1> DEFINE acc == [k \in 0 .. n |-> it[1 .. k]]
  <1>3. acc[0] = NothingYet
    <2>1. 1 .. 0 = {} /\ 0 \in 0 .. n
      BY <1>1
    <2>2. it[{}] = NothingYet
      BY <1>2 DEF Emits
    <2> QED
      BY <2>1, <2>2
  <1>4. ASSUME NEW k \in 1 .. n PROVE acc[k] = Emit(b, acc[k - 1], ses[k])
    <2>1. /\ 1 .. k \in SUBSET (1 .. n) /\ 1 .. k # {}
          /\ Max(1 .. k) = k /\ (1 .. k) \ {Max(1 .. k)} = 1 .. k - 1
      BY <1>1, FoldPositions
    <2>2. it[1 .. k] = Emit(b, it[(1 .. k) \ {Max(1 .. k)}], ses[Max(1 .. k)])
      BY <1>2, <2>1 DEF Emits
    <2>3. acc[k] = it[1 .. k] /\ acc[k - 1] = it[1 .. k - 1]
      BY <1>1
    <2> HIDE DEF acc
    <2> QED
      BY <2>1, <2>2, <2>3
  <1>5. acc[n] = it[1 .. n]
    BY <1>1
  <1> HIDE DEF acc
  <1>6. EmitSteps(acc, b, ses, n)
    BY <1>3, <1>4 DEF EmitSteps
  <1> QED
    BY <1>2, <1>5, <1>6 DEF n

(* What an edit of a script does: 0 passes over equal bytes, -1 over a     *)
(* byte of the old chunk, 1 over one of the new.                           *)
Edits == {-1, 0, 1}

Passes(a, b, e, p, q) ==
    /\ q[1] = p[1] + (IF e = 1 THEN 0 ELSE 1)
    /\ q[2] = p[2] + (IF e = -1 THEN 0 ELSE 1)
    /\ q[1] <= Len(a) /\ q[2] <= Len(b)
    /\ e = 0 => a[q[1]] = b[q[2]]

EditSteps(a, b) == {t \in Edits \X Point \X Point : Passes(a, b, t[1], t[2], t[3])}

LEMMA EditStep ==
    ASSUME NEW a, NEW b, NEW e, NEW p, NEW q
    PROVE  <<e, p, q>> \in EditSteps(a, b)
           <=> e \in Edits /\ p \in Point /\ q \in Point /\ Passes(a, b, e, p, q)
  BY DEF EditSteps

(* A script that makes the new chunk of the old one.                       *)
Edited(a, b, ses) ==
    ses \in Seq(Edits) /\ Linked(EditSteps(a, b), ses, <<0, 0>>, <<Len(a), Len(b)>>)

(* What has been written when the edits have led to r: opcodes that reach  *)
(* the start of the block that is not written yet.                         *)
Emitted(a, b, s, r) ==
    /\ s \in [y : Nat, del : Nat, ins : Seq(Byte), ops : Seq(Op)]
    /\ r \in Point /\ r[1] <= Len(a) /\ r[2] <= Len(b)
    /\ s.y = r[2] /\ s.del <= r[1] /\ Len(s.ins) <= r[2]
    /\ Copied(b, r[2] - Len(s.ins), s.ins)
    /\ Reached(a, b, s.ops, <<r[1] - s.del, r[2] - Len(s.ins)>>)

LEMMA EmittedFlush ==
    ASSUME NEW a \in Seq(Byte), NEW b \in Seq(Byte), NEW s, NEW r, Emitted(a, b, s, r)
    PROVE  Emitted(a, b, Flush(s), r) /\ Flush(s).del = 0 /\ Flush(s).ins = <<>>
  <1> DEFINE n == Len(s.ins)
             x == r[1] - s.del
             y == r[2] - n
             es == Block(y, s.del, s.ins)
             t == Flush(s)
  <1>1. /\ s \in [y : Nat, del : Nat, ins : Seq(Byte), ops : Seq(Op)]
        /\ r \in Point /\ r[1] <= Len(a) /\ r[2] <= Len(b)
        /\ s.y = r[2] /\ s.del <= r[1] /\ n <= r[2]
        /\ Copied(b, y, s.ins) /\ Reached(a, b, s.ops, <<x, y>>)
    BY DEF Emitted
  <1>2. /\ n \in Nat /\ s.del \in Nat /\ r[1] \in Nat /\ r[2] \in Nat
        /\ Len(a) \in Nat /\ Len(b) \in Nat
    BY <1>1, LenProperties DEF Point
  <1>3. x \in Nat /\ y \in Nat /\ x + s.del = r[1] /\ y + n = r[2] /\ x <= Len(a) /\ y <= Len(b)
    BY SMTT(60), <1>1, <1>2
  <1>4. t = [y |-> s.y, del |-> 0, ins |-> <<>>, ops |-> s.ops \o es]
    <2>1. Block(s.y - Len(s.ins), s.del, s.ins) = es
      BY <1>1
    <2>2. s = [y |-> s.y, del |-> s.del, ins |-> s.ins, ops |-> s.ops]
      BY <1>1
    <2>3. t = [s EXCEPT !.ops = s.ops \o es, !.del = 0, !.ins = <<>>]
      BY <2>1 DEF Flush
    <2> HIDE DEF es, t
    <2> QED
      BY <2>2, <2>3
  <1>5. r = <<r[1], r[2]>>
    BY <1>1 DEF Point
  <1> HIDE DEF x, y, n, t
  <1>6. es \in Seq(Op) /\ Linked(OpSteps(a, b), es, <<x, y>>, r)
    <2>1. /\ Block(y, s.del, s.ins) \in Seq(Op)
          /\ Linked(OpSteps(a, b), Block(y, s.del, s.ins), <<x, y>>,
                    <<x + s.del, y + Len(s.ins)>>)
      BY <1>1, <1>2, <1>3, BlockLinked
    <2>2. <<x + s.del, y + Len(s.ins)>> = r
      BY <1>3, <1>5 DEF n
    <2> QED
      BY <2>1, <2>2
  <1> HIDE DEF es
  <1>7. Reached(a, b, s.ops \o es, r)
    <2> DEFINE p == <<x, y>>
    <2>1. p[1] <= Len(a) /\ p[2] <= Len(b)
      BY <1>3
    <2> HIDE DEF p
    <2>2. Reached(a, b, s.ops, p) /\ Linked(OpSteps(a, b), es, p, r)
      BY <1>1, <1>6 DEF p
    <2> QED
      BY <1>6, <2>1, <2>2, ReachedOps
  <1>8. <<>> \in Seq(Byte) /\ Len(<<>>) = 0
    BY EmptySeq
  <1>9. s.ops \o es \in Seq(Op)
    BY <1>7 DEF Reached
  <1>10. /\ t.y = r[2] /\ t.del = 0 /\ t.ins = <<>> /\ t.ops = s.ops \o es
         /\ t \in [y : Nat, del : Nat, ins : Seq(Byte), ops : Seq(Op)]
    BY <1>1, <1>2, <1>4, <1>8, <1>9
  <1>11. <<r[1] - t.del, r[2] - Len(t.ins)>> = r
    BY <1>2, <1>5, <1>8, <1>10
  <1>12. t.del <= r[1] /\ Len(t.ins) <= r[2]
    BY <1>2, <1>8, <1>10
  <1>13. Copied(b, r[2] - Len(t.ins), t.ins)
    <2>1. r[2] - Len(t.ins) = r[2] /\ Len(t.ins) = 0 /\ 1 .. Len(t.ins) = {}
      BY <1>2, <1>8, <1>10
    <2> QED
      BY <1>1, <1>2, <1>8, <1>10, <2>1 DEF Copied
  <1>14. Emitted(a, b, t, r)
    BY <1>1, <1>7, <1>10, <1>11, <1>12, <1>13 DEF Emitted
  <1> QED
    BY <1>10, <1>14 DEF t

LEMMA EmittedStep ==
    ASSUME NEW a \in Seq(Byte), NEW b \in Seq(Byte), NEW s, NEW r, Emitted(a, b, s, r),
           NEW e, NEW q, <<e, r, q>> \in EditSteps(a, b)
    PROVE  Emitted(a, b, Emit(b, s, e), q)
  <1>1. e \in Edits /\ r \in Point /\ q \in Point /\ Passes(a, b, e, r, q)
    BY EditStep
  <1>2. /\ q[1] = r[1] + (IF e = 1 THEN 0 ELSE 1)
        /\ q[2] = r[2] + (IF e = -1 THEN 0 ELSE 1)
        /\ q[1] <= Len(a) /\ q[2] <= Len(b)
        /\ e = 0 => a[q[1]] = b[q[2]]
    BY <1>1 DEF Passes
  <1>3. r[1] \in Nat /\ r[2] \in Nat /\ q[1] \in Nat /\ q[2] \in Nat
    BY <1>1 DEF Point
  <1>4. r = <<r[1], r[2]>> /\ q = <<q[1], q[2]>>
    BY <1>1 DEF Point
  <1>5. CASE e = 0
    <2> DEFINE f == Flush(s)
               t == Emit(b, s, e)
    <2>1. Emitted(a, b, f, r) /\ f.del = 0 /\ f.ins = <<>>
      BY EmittedFlush
    <2>2. t = [f EXCEPT !.y = @ + 1]
      BY <1>5 DEF Emit
    <2> HIDE DEF f, t
    <2>3. /\ f \in [y : Nat, del : Nat, ins : Seq(Byte), ops : Seq(Op)]
          /\ r[1] <= Len(a) /\ r[2] <= Len(b)
          /\ f.y = r[2]
          /\ Copied(b, r[2] - Len(f.ins), f.ins)
          /\ Reached(a, b, f.ops, <<r[1] - f.del, r[2] - Len(f.ins)>>)
      BY <2>1 DEF Emitted
    <2>4. /\ t \in [y : Nat, del : Nat, ins : Seq(Byte), ops : Seq(Op)]
          /\ t.y = r[2] + 1 /\ t.del = 0 /\ t.ins = <<>> /\ t.ops = f.ops
      BY SMTT(60), <2>1, <2>2, <2>3
    <2>5. Len(<<>>) = 0 /\ q[1] = r[1] + 1 /\ q[2] = r[2] + 1
      BY <1>2, <1>5
    <2>6. <<r[1] - f.del, r[2] - Len(f.ins)>> = r
      BY <1>3, <1>4, <2>1, <2>5
    <2>7. Reached(a, b, f.ops, r)
      BY <2>3, <2>6
    <2>8. Matched(a, b, r, q)
      <3>1. q = <<r[1] + 1, r[2] + 1>>
        BY <1>4, <2>5
      <3>2. \A j \in 1 .. 1 : a[r[1] + j] = b[r[2] + j]
        <4>1. a[r[1] + 1] = b[r[2] + 1]
          BY <1>2, <1>5, <2>5
        <4>2. \A j \in 1 .. 1 : j = 1
          OBVIOUS
        <4> QED
          BY <4>1, <4>2
      <3>3. Same(a, b, r, 1)
        BY <1>2, <2>5, <3>2 DEF Same
      <3> QED
        BY <3>1, <3>3 DEF Matched
    <2>9. Reached(a, b, f.ops, q)
      BY <2>7, <2>8, ReachedMatch
    <2>10. <<q[1] - t.del, q[2] - Len(t.ins)>> = q
      BY <1>3, <1>4, <2>4, <2>5
    <2>11. Copied(b, q[2] - Len(t.ins), t.ins)
      <3>1. q[2] - Len(t.ins) = q[2] /\ Len(t.ins) = 0 /\ 1 .. Len(t.ins) = {}
        BY <1>3, <2>4, <2>5
      <3>2. t.ins \in Seq(Byte)
        BY <2>4
      <3> QED
        BY <1>2, <1>3, <3>1, <3>2 DEF Copied
    <2>12. t.del <= q[1] /\ Len(t.ins) <= q[2] /\ t.y = q[2]
      BY <1>3, <2>4, <2>5
    <2>13. Emitted(a, b, t, q)
      BY <1>1, <1>2, <2>4, <2>9, <2>10, <2>11, <2>12 DEF Emitted
    <2> QED
      BY <2>13 DEF t
  <1>6. CASE e = -1
    <2> DEFINE t == Emit(b, s, e)
    <2>1. /\ s \in [y : Nat, del : Nat, ins : Seq(Byte), ops : Seq(Op)]
          /\ s.y = r[2] /\ s.del <= r[1] /\ Len(s.ins) <= r[2]
          /\ Copied(b, r[2] - Len(s.ins), s.ins)
          /\ Reached(a, b, s.ops, <<r[1] - s.del, r[2] - Len(s.ins)>>)
      BY DEF Emitted
    <2>2. t = [s EXCEPT !.del = @ + 1]
      BY <1>6 DEF Emit
    <2> HIDE DEF t
    <2>3. /\ t \in [y : Nat, del : Nat, ins : Seq(Byte), ops : Seq(Op)]
          /\ t.y = r[2] /\ t.del = s.del + 1 /\ t.ins = s.ins /\ t.ops = s.ops
          /\ s.del \in Nat
      <3>1. s.del \in Nat /\ s.del + 1 \in Nat /\ s.y = r[2]
        BY <2>1
      <3>2. t = [s EXCEPT !.del = s.del + 1]
        BY <2>2
      <3> DEFINE d == s.del + 1
      <3>3. d \in Nat /\ t = [s EXCEPT !.del = d]
        BY <3>1, <3>2
      <3> HIDE DEF d
      <3>4. /\ t \in [y : Nat, del : Nat, ins : Seq(Byte), ops : Seq(Op)]
            /\ t.y = s.y /\ t.del = d /\ t.ins = s.ins /\ t.ops = s.ops
        BY <2>1, <3>3
      <3> QED
        BY <3>1, <3>4 DEF d
    <2>4. q[1] = r[1] + 1 /\ q[2] = r[2]
      BY <1>2, <1>3, <1>6
    <2>5. q[1] - t.del = r[1] - s.del /\ q[2] - Len(t.ins) = r[2] - Len(s.ins)
          /\ t.del <= q[1] /\ Len(t.ins) <= q[2]
      BY SMTT(60), <1>3, <2>1, <2>3, <2>4
    <2>6. Emitted(a, b, t, q)
      BY <1>1, <1>2, <2>1, <2>3, <2>4, <2>5 DEF Emitted
    <2> QED
      BY <2>6 DEF t
  <1>7. CASE e = 1
    <2> DEFINE t == Emit(b, s, e)
               n == Len(s.ins)
    <2>1. /\ s \in [y : Nat, del : Nat, ins : Seq(Byte), ops : Seq(Op)]
          /\ s.y = r[2] /\ s.del <= r[1] /\ n <= r[2]
          /\ Copied(b, r[2] - n, s.ins)
          /\ Reached(a, b, s.ops, <<r[1] - s.del, r[2] - n>>)
      BY DEF Emitted
    <2>2. t = [s EXCEPT !.ins = Append(@, b[s.y + 1]), !.y = @ + 1]
      BY <1>7 DEF Emit
    <2>3. q[1] = r[1] /\ q[2] = r[2] + 1
      BY <1>2, <1>3, <1>7
    <2>4. b[q[2]] \in Byte
      <3>1. q[2] \in 1 .. Len(b)
        BY <1>2, <1>3, <2>3, LenProperties
      <3> QED
        BY <3>1, ElementOfSeq
    <2>5. n \in Nat /\ s.ins \in Seq(Byte)
      BY <2>1, LenProperties
    <2> DEFINE js == Append(s.ins, b[q[2]])
    <2>6. /\ js \in Seq(Byte) /\ Len(js) = n + 1
          /\ \A i \in 1 .. n : js[i] = s.ins[i]
          /\ js[n + 1] = b[q[2]]
      BY <2>4, <2>5, AppendProperties
    <2> HIDE DEF t, n, js
    <2>7. /\ t \in [y : Nat, del : Nat, ins : Seq(Byte), ops : Seq(Op)]
          /\ t.y = q[2] /\ t.del = s.del /\ t.ins = js /\ t.ops = s.ops
      <3>1. t = [s EXCEPT !.ins = js, !.y = q[2]]
        BY <2>1, <2>2, <2>3 DEF js
      <3> QED
        BY <1>3, <2>1, <2>6, <3>1
    <2>8. q[2] - Len(t.ins) = r[2] - n /\ Len(t.ins) <= q[2] /\ Len(t.ins) = n + 1
      BY SMTT(60), <1>3, <2>1, <2>3, <2>5, <2>6, <2>7
    <2>9. Copied(b, r[2] - n, js)
      <3> DEFINE y == r[2] - n
      <3>1. y \in Nat /\ y + (n + 1) = q[2]
        BY SMTT(60), <1>3, <2>1, <2>3, <2>5
      <3>2. \A i \in 1 .. n : s.ins[i] = b[y + i]
        BY <2>1 DEF Copied, n
      <3> HIDE DEF y
      <3>3. ASSUME NEW i \in 1 .. n + 1 PROVE js[i] = b[y + i]
        <4>1. CASE i = n + 1
          BY <2>6, <3>1, <4>1
        <4>2. CASE i # n + 1
          <5>1. i \in 1 .. n
            BY <2>5, <4>2
          <5> QED
            BY <2>6, <3>2, <5>1
        <4> QED
          BY <4>1, <4>2
      <3>4. y + Len(js) <= Len(b)
        BY <1>2, <2>6, <3>1
      <3>5. Copied(b, y, js)
        BY <2>6, <3>3, <3>4 DEF Copied
      <3> QED
        BY <3>5 DEF y
    <2>10. t.del <= q[1] /\ q[1] - t.del = r[1] - s.del
      BY <2>1, <2>3, <2>7
    <2>11. Emitted(a, b, t, q)
      BY <1>1, <1>2, <2>1, <2>7, <2>8, <2>9, <2>10 DEF Emitted
    <2> QED
      BY <2>11 DEF t
  <1> QED
    BY <1>1, <1>5, <1>6, <1>7 DEF Edits

(* The opcodes of a script that makes the new chunk of the old one reach   *)
(* the end of both.                                                        *)
LEMMA OpcodesReach ==
    ASSUME NEW a \in Seq(Byte), NEW b \in Seq(Byte), NEW ses, Edited(a, b, ses)
    PROVE  Reached(a, b, Opcodes(b, ses), <<Len(a), Len(b)>>)
  <1> DEFINE n == Len(ses)
             R == EditSteps(a, b)
             end == <<Len(a), Len(b)>>
  <1>1. n \in Nat /\ ses \in Seq(Edits) /\ Len(a) \in Nat /\ Len(b) \in Nat
    BY LenProperties DEF Edited
  <1>2. PICK ps \in [0 .. n -> Point] : Along(R, ses, ps, <<0, 0>>, end)
    BY DEF Edited, Linked
  <1>3. /\ ps[0] = <<0, 0>> /\ ps[n] = end
        /\ \A j \in 1 .. n : <<ses[j], ps[j - 1], ps[j]>> \in R
    BY <1>2 DEF Along
  <1>4. PICK acc : EmitSteps(acc, b, ses, n) /\ Opcodes(b, ses) = Flush(acc[n]).ops
    BY <1>1, OpcodesFold
  <1>5. acc[0] = NothingYet /\ \A k \in 1 .. n : acc[k] = Emit(b, acc[k - 1], ses[k])
    BY <1>4 DEF EmitSteps
  <1> DEFINE S == {k \in 0 .. n : Emitted(a, b, acc[k], ps[k])}
  <1> HIDE DEF n, R
  <1>6. Emitted(a, b, NothingYet, <<0, 0>>)
    <2> DEFINE s == NothingYet
               r == <<0, 0>>
    <2>1. /\ s.y = 0 /\ s.del = 0 /\ s.ins = <<>> /\ s.ops = <<>>
          /\ s = [y |-> 0, del |-> 0, ins |-> <<>>, ops |-> <<>>]
      BY DEF NothingYet
    <2>2. <<>> \in Seq(Byte) /\ <<>> \in Seq(Op) /\ Len(<<>>) = 0 /\ 1 .. 0 = {}
      BY EmptySeq
    <2>3. s \in [y : Nat, del : Nat, ins : Seq(Byte), ops : Seq(Op)]
      BY <2>1, <2>2
    <2>4. r \in Point /\ r[1] = 0 /\ r[2] = 0
      BY DEF Point
    <2> HIDE DEF s, r
    <2>5. <<r[1] - s.del, r[2] - Len(s.ins)>> = <<0, 0>> /\ r[2] - Len(s.ins) = 0
      <3>1. Len(s.ins) = 0
        BY <2>1, <2>2
      <3>2. r[1] - s.del = 0
        BY <2>1, <2>4
      <3>3. r[2] - Len(s.ins) = 0
        BY <2>4, <3>1
      <3> QED
        BY <3>2, <3>3
    <2>6. Reached(a, b, <<>>, <<0, 0>>)
      <3>1. Linked(OpSteps(a, b), <<>>, r, r)
        BY <2>4, LinkedEmpty
      <3>2. Matched(a, b, r, r)
        BY <1>1, <2>4, MatchedNothing
      <3> QED
        BY <2>2, <2>4, <3>1, <3>2 DEF Reached, r
    <2>7. Copied(b, 0, <<>>)
      BY <1>1, <2>2 DEF Copied
    <2>8. Emitted(a, b, s, r)
      BY <1>1, <2>1, <2>2, <2>3, <2>4, <2>5, <2>6, <2>7 DEF Emitted
    <2> QED
      BY <2>8 DEF s, r
  <1>7. 0 \in S
    <2>1. 0 \in 0 .. n
      BY <1>1
    <2>2. Emitted(a, b, acc[0], ps[0])
      BY <1>3, <1>5, <1>6, Zenon
    <2> QED
      BY <2>1, <2>2
  <1>8. ASSUME NEW k \in 1 .. n, k - 1 \in S PROVE k \in S
    <2>1. Emitted(a, b, acc[k - 1], ps[k - 1])
      BY <1>8
    <2>2. <<ses[k], ps[k - 1], ps[k]>> \in R
      BY <1>3
    <2>3. Emitted(a, b, Emit(b, acc[k - 1], ses[k]), ps[k])
      BY <2>1, <2>2, EmittedStep DEF R
    <2>4. acc[k] = Emit(b, acc[k - 1], ses[k])
      BY <1>5
    <2>5. k \in 0 .. n
      BY <1>1
    <2> QED
      BY <2>3, <2>4, <2>5
  <1> HIDE DEF S
  <1>9. n \in S
    <2>1. 0 .. n \subseteq S
      BY <1>1, <1>7, <1>8, UpToInduction
    <2> QED
      BY <1>1, <2>1
  <1>10. Emitted(a, b, acc[n], end)
    BY <1>3, <1>9 DEF S
  <1> DEFINE f == Flush(acc[n])
  <1>11. Emitted(a, b, f, end) /\ f.del = 0 /\ f.ins = <<>>
    BY <1>10, EmittedFlush
  <1> HIDE DEF f, end
  <1>12. Reached(a, b, f.ops, <<end[1] - f.del, end[2] - Len(f.ins)>>)
    BY <1>11 DEF Emitted
  <1>13. <<end[1] - f.del, end[2] - Len(f.ins)>> = end
    <2>1. end[1] = Len(a) /\ end[2] = Len(b) /\ Len(<<>>) = 0
      BY DEF end
    <2> QED
      BY <1>1, <1>11, <2>1 DEF end
  <1> QED
    BY <1>4, <1>12, <1>13 DEF f, end

-----------------------------------------------------------------------------
(* The greedy fallback.                                                    *)

(* n pairs of bytes from i on that are all equal, or all different.        *)
Alike(a, b, i, n, same) == \A j \in 1 .. n : (a[i + j] = b[i + j]) = same

LEMMA RunFacts ==
    ASSUME NEW a, NEW b, NEW both \in Nat, NEW i \in 0 .. both, NEW same \in BOOLEAN
    PROVE  /\ Run(a, b, both, i, same) \in 0 .. both - i
           /\ Alike(a, b, i, Run(a, b, both, i, same), same)
           /\ i < both /\ (a[i + 1] = b[i + 1]) = same => Run(a, b, both, i, same) >= 1
  <1> DEFINE P(n) == \A j \in 1 .. n : (a[i + j] = b[i + j]) = same
             s == {0} \cup {n \in 1 .. both - i : P(n)}
             k == both - i
             r == Max(s)
  <1>1. Run(a, b, both, i, same) = r
    BY DEF Run
  <1>2. k \in Nat
    OBVIOUS
  <1>3. P(0)
    OBVIOUS
  <1>4. i < both /\ (a[i + 1] = b[i + 1]) = same => 1 \in 1 .. k /\ P(1)
    <2>1. SUFFICES ASSUME i < both, (a[i + 1] = b[i + 1]) = same PROVE 1 \in 1 .. k /\ P(1)
      OBVIOUS
    <2>2. \A j \in 1 .. 1 : j = 1
      OBVIOUS
    <2>3. P(1)
      BY <2>1, <2>2
    <2> QED
      BY <2>1, <2>3
  <1> HIDE DEF P, k
  <1>5. s \in SUBSET (0 .. k) /\ s # {}
    BY <1>2 DEF k
  <1>6. \A n \in s : P(n)
    BY <1>3
  <1>7. i < both /\ (a[i + 1] = b[i + 1]) = same => 1 \in s
    BY <1>4 DEF k
  <1> HIDE DEF s
  <1>8. r \in s /\ \A n \in s : r >= n
    BY <1>2, <1>5, MaxBounded
  <1>9. r \in 0 .. k /\ P(r)
    BY <1>5, <1>6, <1>8
  <1>10. i < both /\ (a[i + 1] = b[i + 1]) = same => r >= 1
    BY <1>7, <1>8
  <1> HIDE DEF r
  <1> QED
    BY <1>1, <1>9, <1>10 DEF P, k, Alike

(* A recursive function whose values only take up later ones exists.       *)
Downward(f, first, n, pre, nx) ==
    f = [i \in first .. n |-> IF i = n THEN <<>> ELSE pre[i] \o f[nx[i]]]

LEMMA DownwardExists ==
    ASSUME NEW n \in Nat, NEW pre, NEW nx, \A i \in 0 .. n - 1 : nx[i] \in i + 1 .. n
    PROVE  \E f : Downward(f, 0, n, pre, nx)
  <1> DEFINE P(k) == k <= n => \E f : Downward(f, n - k, n, pre, nx)
             S == {k \in Nat : P(k)}
  <1>1. P(0)
    <2> DEFINE f == [i \in n - 0 .. n |-> <<>>]
    <2>1. \A i \in n - 0 .. n : i = n
      OBVIOUS
    <2>2. f = [i \in n - 0 .. n |-> IF i = n THEN <<>> ELSE pre[i] \o f[nx[i]]]
      BY <2>1
    <2> QED
      BY <2>2 DEF Downward
  <1>2. ASSUME NEW k \in Nat, P(k) PROVE P(k + 1)
    <2>1. SUFFICES ASSUME k + 1 <= n
                   PROVE  \E f : Downward(f, n - (k + 1), n, pre, nx)
      OBVIOUS
    <2>2. PICK f : Downward(f, n - k, n, pre, nx)
      <3>1. k <= n
        BY <2>1
      <3> QED
        BY <1>2, <3>1
    <2> DEFINE m == n - (k + 1)
               g == [i \in m .. n |-> IF i = m THEN pre[i] \o f[nx[i]] ELSE f[i]]
    <2>3. m \in 0 .. n - 1 /\ n - k = m + 1
      BY <2>1
    <2> HIDE DEF m
    <2>4. f = [i \in m + 1 .. n |-> IF i = n THEN <<>> ELSE pre[i] \o f[nx[i]]]
      BY <2>2, <2>3 DEF Downward
    <2>5. \A i \in m + 1 .. n : i \in m .. n /\ i # m
      BY <2>3
    <2>6. \A i \in m + 1 .. n : g[i] = f[i]
      BY <2>5
    <2>7. g[m] = pre[m] \o f[nx[m]]
      <3>1. m \in m .. n
        BY <2>3
      <3> QED
        BY <3>1
    <2>8. ASSUME NEW i \in m .. n
          PROVE  g[i] = IF i = n THEN <<>> ELSE pre[i] \o g[nx[i]]
      <3>1. CASE i = m
        <4>1. nx[m] \in m + 1 .. n /\ m # n
          BY <2>3
        <4> HIDE DEF g
        <4>2. g[nx[m]] = f[nx[m]]
          BY <2>6, <4>1
        <4> QED
          BY <2>7, <3>1, <4>1, <4>2
      <3>2. CASE i # m
        <4>1. i \in m + 1 .. n
          BY <2>3, <3>2
        <4>2. g[i] = IF i = n THEN <<>> ELSE pre[i] \o f[nx[i]]
          <5> HIDE DEF g
          <5> QED
            BY <2>4, <2>6, <4>1
        <4>3. CASE i = n
          BY <4>2, <4>3
        <4>4. CASE i # n
          <5>1. i \in 0 .. n - 1
            BY <2>3, <4>1, <4>4
          <5>2. nx[i] \in i + 1 .. n
            BY <5>1
          <5>3. nx[i] \in m + 1 .. n
            BY <2>3, <4>1, <5>2
          <5> HIDE DEF g
          <5>4. g[nx[i]] = f[nx[i]]
            BY <2>6, <5>3
          <5> QED
            BY <4>2, <4>4, <5>4
        <4> HIDE DEF g
        <4> QED
          BY <4>3, <4>4
      <3> QED
        BY <3>1, <3>2
    <2>9. g = [i \in m .. n |-> g[i]]
      OBVIOUS
    <2> HIDE DEF g
    <2>10. g = [i \in m .. n |-> IF i = n THEN <<>> ELSE pre[i] \o g[nx[i]]]
      BY <2>8, <2>9
    <2>11. Downward(g, n - (k + 1), n, pre, nx)
      BY <2>10 DEF Downward, m
    <2> QED
      BY <2>11
  <1> HIDE DEF P
  <1>3. 0 \in S /\ \A k \in Nat : k \in S => k + 1 \in S
    BY <1>1, <1>2
  <1> HIDE DEF S
  <1>4. n \in S
    BY <1>3, SetInduction
  <1>5. P(n)
    BY <1>4 DEF S
  <1>6. n <= n /\ n - n = 0
    OBVIOUS
  <1> QED
    BY <1>5, <1>6 DEF P

(* What the recursive function of the model gives for position i: first    *)
(* what is equal, then the opcode of what differs, then the rest.          *)
RunStart(a, b, both, i) == i + Run(a, b, both, i, TRUE)

RunLength(a, b, both, i) == Min({Run(a, b, both, RunStart(a, b, both, i), FALSE), MaxCount})

Replaced(a, b, both, i) ==
    LET start == RunStart(a, b, both, i)
        n     == RunLength(a, b, both, i)
    IN  IF n = 0 THEN <<>> ELSE <<Opcode("D", start, SubSeq(b, start + 1, start + n), 0)>>

RunsFrom(f, a, b, both) ==
    f = [i \in 0 .. both |->
            IF i = both THEN <<>>
            ELSE Replaced(a, b, both, i)
                 \o f[RunStart(a, b, both, i) + RunLength(a, b, both, i)]]

LEMMA GreedyChosen ==
    ASSUME NEW a, NEW b, NEW f, RunsFrom(f, a, b, Min({Len(a), Len(b)}))
    PROVE  \E g : LET both == Min({Len(a), Len(b)})
                  IN  /\ RunsFrom(g, a, b, both)
                      /\ Greedy(a, b) =
                           g[0]
                           \o (IF Len(a) > both
                               THEN <<Opcode("X", both, <<>>, Len(a) - both)>> ELSE <<>>)
                           \o Inline("I", both, SubSeq(b, both + 1, Len(b)))
  BY Zenon DEF Greedy, RunsFrom, Replaced, RunStart, RunLength

(* A round goes forward, past equal bytes and then past the bytes that its *)
(* opcode, if it has one, replaces.                                        *)
LEMMA RoundFacts ==
    ASSUME NEW a, NEW b, NEW both \in Nat, NEW i \in 0 .. both - 1
    PROVE  /\ RunStart(a, b, both, i) \in i .. both
           /\ RunLength(a, b, both, i) \in 0 .. both - RunStart(a, b, both, i)
           /\ RunLength(a, b, both, i) <= MaxCount
           /\ RunStart(a, b, both, i) + RunLength(a, b, both, i) \in i + 1 .. both
           /\ \A j \in 1 .. RunStart(a, b, both, i) - i : a[i + j] = b[i + j]
  <1> DEFINE r == Run(a, b, both, i, TRUE)
             s == RunStart(a, b, both, i)
             d == Run(a, b, both, s, FALSE)
             n == RunLength(a, b, both, i)
  <1>1. i \in 0 .. both /\ i < both
    OBVIOUS
  <1>2. /\ r \in 0 .. both - i
        /\ \A j \in 1 .. r : (a[i + j] = b[i + j]) = TRUE
        /\ (a[i + 1] = b[i + 1]) = TRUE => r >= 1
    <2>1. /\ r \in 0 .. both - i
          /\ Alike(a, b, i, r, TRUE)
          /\ (a[i + 1] = b[i + 1]) = TRUE => r >= 1
      BY <1>1, RunFacts
    <2> HIDE DEF r
    <2> QED
      BY <2>1 DEF Alike
  <1>3. s = i + r
    BY DEF RunStart
  <1>4. n = Min({d, MaxCount})
    BY DEF RunLength
  <1> HIDE DEF r, s, n
  <1>5. s \in i .. both /\ s \in 0 .. both
    BY <1>1, <1>2, <1>3
  <1>6. /\ d \in 0 .. both - s
        /\ s < both /\ (a[s + 1] = b[s + 1]) = FALSE => d >= 1
    BY <1>5, RunFacts
  <1> HIDE DEF d
  <1>7. d \in Int /\ MaxCount \in Int /\ MaxCount >= 1
    BY <1>6, DiffAssumption
  <1>8. n = IF d <= MaxCount THEN d ELSE MaxCount
    BY <1>4, <1>7, MinOfTwo
  <1>9. n \in 0 .. both - s /\ n <= MaxCount /\ (d >= 1 => n >= 1)
    BY <1>5, <1>6, <1>7, <1>8
  <1>10. r >= 1 \/ d >= 1
    <2>1. CASE a[i + 1] = b[i + 1]
      BY <1>2, <2>1
    <2>2. CASE a[i + 1] # b[i + 1]
      <3>1. CASE r >= 1
        BY <3>1
      <3>2. CASE ~(r >= 1)
        <4>1. s = i
          BY <1>1, <1>2, <1>3, <3>2
        <4> QED
          BY <1>1, <1>6, <2>2, <4>1
      <3> QED
        BY <3>1, <3>2
    <2> QED
      BY <2>1, <2>2
  <1>11. s + n \in i + 1 .. both
    BY <1>1, <1>2, <1>3, <1>5, <1>9, <1>10
  <1>12. \A j \in 1 .. s - i : a[i + j] = b[i + j]
    <2>1. s - i = r
      BY <1>1, <1>2, <1>3
    <2> QED
      BY <1>2, <2>1
  <1> QED
    BY <1>5, <1>9, <1>11, <1>12 DEF s, n

(* A round of the fallback takes the opcodes written so far from <<i, i>>  *)
(* to where the round ends.                                                *)
LEMMA RoundReach ==
    ASSUME NEW a \in Seq(Byte), NEW b \in Seq(Byte), NEW both \in Nat,
           both <= Len(a), both <= Len(b), NEW i \in 0 .. both - 1,
           NEW os, Reached(a, b, os, <<i, i>>)
    PROVE  LET next == RunStart(a, b, both, i) + RunLength(a, b, both, i)
           IN  /\ Replaced(a, b, both, i) \in Seq(Op)
               /\ Reached(a, b, os \o Replaced(a, b, both, i), <<next, next>>)
  <1> DEFINE s == RunStart(a, b, both, i)
             n == RunLength(a, b, both, i)
             es == Replaced(a, b, both, i)
             bs == SubSeq(b, s + 1, s + n)
             p == <<s, s>>
             q == <<s + n, s + n>>
  <1>1. /\ s \in i .. both /\ n \in 0 .. both - s /\ n <= MaxCount
        /\ s + n \in i + 1 .. both
        /\ \A j \in 1 .. s - i : a[i + j] = b[i + j]
    BY RoundFacts
  <1>2. es = IF n = 0 THEN <<>> ELSE <<Opcode("D", s, bs, 0)>>
    BY DEF Replaced
  <1>3. Len(a) \in Nat /\ Len(b) \in Nat
    BY LenProperties
  <1> HIDE DEF s, n, es
  <1>4. /\ s \in Nat /\ n \in Nat /\ s + n \in Nat /\ i \in Nat
        /\ s <= Len(a) /\ s <= Len(b) /\ s + n <= Len(a) /\ s + n <= Len(b)
    BY <1>1, <1>3
  <1>5. p \in Point /\ q \in Point
    BY <1>4 DEF Point
  <1>6. Matched(a, b, <<i, i>>, p)
    <2> DEFINE m == s - i
               z == <<i, i>>
    <2>1. m \in Nat /\ i + m = s
      BY <1>1, <1>4
    <2> HIDE DEF m
    <2>2. z[1] = i /\ z[2] = i /\ p = <<z[1] + m, z[2] + m>>
      BY <2>1
    <2>3. Same(a, b, z, m)
      BY <1>1, <1>4, <2>1, <2>2 DEF Same, m
    <2> HIDE DEF z, p
    <2>4. Matched(a, b, z, p)
      BY <2>1, <2>2, <2>3 DEF Matched
    <2> QED
      BY <2>4 DEF z
  <1>7. Reached(a, b, os, p)
    BY <1>6, ReachedMatch
  <1>8. os \in Seq(Op)
    BY DEF Reached
  <1>9. CASE n = 0
    <2>1. es = <<>> /\ q = p
      BY <1>2, <1>4, <1>9
    <2>2. os \o es = os
      BY <1>8, <2>1, ConcatEmptySeq
    <2>3. es \in Seq(Op)
      BY <2>1, EmptySeq
    <2> HIDE DEF p, q
    <2> QED
      BY <1>7, <2>1, <2>2, <2>3 DEF q, s, n, es
  <1>10. CASE n # 0
    <2>1. Copied(b, s, bs) /\ Len(bs) = n
      BY <1>4, CopiedPart
    <2>2. bs # <<>> /\ Len(bs) <= MaxCount
      <3>1. Len(bs) # 0
        BY <1>10, <2>1
      <3> QED
        BY <1>1, <2>1, <3>1, EmptySeq
    <2>3. Over("D", Len(bs)) = n
      BY <2>1 DEF Over
    <2>4. s + Over("D", Len(bs)) <= Len(a)
      BY <1>4, <2>3
    <2> HIDE DEF bs
    <2>5. <<Opcode("D", s, bs, 0), <<s, s>>, <<s + Over("D", Len(bs)), s + Len(bs)>>>>
          \in OpSteps(a, b)
      BY <1>4, <2>1, <2>2, <2>4, InlineOne
    <2> DEFINE o == Opcode("D", s, bs, 0)
    <2>6. <<o, p, q>> \in OpSteps(a, b)
      BY <2>1, <2>3, <2>5
    <2>7. es = <<o>>
      BY <1>2, <1>10 DEF bs
    <2> HIDE DEF o
    <2>8. p[1] <= Len(a) /\ p[2] <= Len(b)
      BY <1>4
    <2> HIDE DEF p, q
    <2>9. o \in Op
      BY <2>6, OpStep
    <2>10. es \in Seq(Op) /\ Linked(OpSteps(a, b), es, p, q)
      <3>1. Linked(OpSteps(a, b), <<o>>, p, q)
        BY <1>5, <2>6, LinkedOne
      <3> QED
        BY <2>7, <2>9, <3>1
    <2>11. Reached(a, b, os \o es, q)
      BY <1>7, <2>8, <2>10, ReachedOps
    <2> QED
      BY <2>10, <2>11 DEF q, s, n, es
  <1> QED
    BY <1>9, <1>10

(* From <<i, i>>, the rounds that are left lead on to the end of the       *)
(* shorter chunk.                                                          *)
LEMMA RoundsReach ==
    ASSUME NEW a \in Seq(Byte), NEW b \in Seq(Byte), NEW both \in Nat,
           both <= Len(a), both <= Len(b), NEW f, RunsFrom(f, a, b, both),
           NEW os, Reached(a, b, os, <<0, 0>>)
    PROVE  f[0] \in Seq(Op) /\ Reached(a, b, os \o f[0], <<both, both>>)
  <1> DEFINE next(i) == RunStart(a, b, both, i) + RunLength(a, b, both, i)
             Q(i) == \A ws : Reached(a, b, ws, <<i, i>>)
                             => f[i] \in Seq(Op) /\ Reached(a, b, ws \o f[i], <<both, both>>)
             P(k) == \A i \in 0 .. both : both - k <= i => Q(i)
             S == {k \in Nat : P(k)}
  <1>1. f[both] = <<>>
    BY DEF RunsFrom
  <1>2. ASSUME NEW i \in 0 .. both - 1
        PROVE  f[i] = Replaced(a, b, both, i) \o f[next(i)]
    <2>1. i \in 0 .. both /\ i # both
      OBVIOUS
    <2> QED
      BY <2>1 DEF RunsFrom
  <1>3. Q(both)
    <2>1. SUFFICES ASSUME NEW ws, Reached(a, b, ws, <<both, both>>)
                   PROVE  f[both] \in Seq(Op) /\ Reached(a, b, ws \o f[both], <<both, both>>)
      OBVIOUS
    <2>2. ws \in Seq(Op)
      BY <2>1 DEF Reached
    <2>3. ws \o f[both] = ws
      BY <1>1, <2>2, ConcatEmptySeq
    <2> QED
      BY <1>1, <2>1, <2>3, EmptySeq
  <1>4. P(0)
    <2>1. ASSUME NEW i \in 0 .. both, both - 0 <= i PROVE i = both
      BY <2>1
    <2> HIDE DEF Q
    <2> QED
      BY <1>3, <2>1
  <1>5. ASSUME NEW k \in Nat, P(k) PROVE P(k + 1)
    <2>1. SUFFICES ASSUME NEW i \in 0 .. both, both - (k + 1) <= i PROVE Q(i)
      BY Zenon
    <2>2. CASE i = both
      <3> HIDE DEF Q
      <3> QED
        BY <1>3, <2>2
    <2>3. CASE i # both
      <3> DEFINE j == next(i)
                 es == Replaced(a, b, both, i)
      <3>1. i \in 0 .. both - 1
        BY <2>3
      <3>2. j \in i + 1 .. both
        BY <3>1, RoundFacts
      <3>3. f[i] = es \o f[j]
        BY <1>2, <3>1
      <3>4. \A ws : Reached(a, b, ws, <<i, i>>)
                    => es \in Seq(Op) /\ Reached(a, b, ws \o es, <<j, j>>)
        BY <3>1, RoundReach
      <3> HIDE DEF j, es, next
      <3>5. Q(j)
        <4>1. j \in 0 .. both /\ both - k <= j
          BY <2>1, <3>2
        <4> HIDE DEF Q
        <4> QED
          BY <1>5, <4>1, Zenon
      <3>6. SUFFICES ASSUME NEW ws, Reached(a, b, ws, <<i, i>>)
                     PROVE  f[i] \in Seq(Op) /\ Reached(a, b, ws \o f[i], <<both, both>>)
        OBVIOUS
      <3>7. es \in Seq(Op) /\ Reached(a, b, ws \o es, <<j, j>>)
        BY <3>4, <3>6
      <3>8. f[j] \in Seq(Op) /\ Reached(a, b, (ws \o es) \o f[j], <<both, both>>)
        BY <3>5, <3>7, Zenon
      <3>9. ws \in Seq(Op)
        BY <3>6 DEF Reached
      <3>10. (ws \o es) \o f[j] = ws \o f[i]
        <4> DEFINE fj == f[j]
        <4>1. fj \in Seq(Op)
          BY <3>8
        <4> HIDE DEF fj
        <4>2. (ws \o es) \o fj = ws \o (es \o fj)
          BY SMTT(60), <3>7, <3>9, <4>1, ConcatAssociative
        <4> QED
          BY <3>3, <4>2 DEF fj
      <3>11. f[i] \in Seq(Op)
        BY <3>3, <3>7, <3>8, ConcatProperties
      <3> QED
        BY <3>8, <3>10, <3>11
    <2> QED
      BY <2>2, <2>3
  <1> HIDE DEF P
  <1>6. 0 \in S /\ \A k \in Nat : k \in S => k + 1 \in S
    BY <1>4, <1>5
  <1> HIDE DEF S
  <1>7. both \in S
    BY <1>6, SetInduction
  <1>8. P(both)
    BY <1>7 DEF S
  <1>9. 0 \in 0 .. both /\ both - both <= 0
    OBVIOUS
  <1> HIDE DEF Q
  <1>10. Q(0)
    BY <1>8, <1>9 DEF P
  <1> QED
    BY <1>10 DEF Q

(* The fallback always reaches the end of both chunks.                     *)
LEMMA GreedyReach ==
    ASSUME NEW a \in Seq(Byte), NEW b \in Seq(Byte)
    PROVE  Reached(a, b, Greedy(a, b), <<Len(a), Len(b)>>)
  <1> DEFINE both == Min({Len(a), Len(b)})
             R == OpSteps(a, b)
             origin == <<0, 0>>
             corner == <<both, both>>
             end == <<Len(a), Len(b)>>
             side == <<Len(a), both>>
             cut == IF Len(a) > both
                    THEN <<Opcode("X", both, <<>>, Len(a) - both)>> ELSE <<>>
             bs == SubSeq(b, both + 1, Len(b))
             more == Inline("I", both, bs)
             pre == [i \in 0 .. both - 1 |-> Replaced(a, b, both, i)]
             nx == [i \in 0 .. both - 1 |-> RunStart(a, b, both, i) + RunLength(a, b, both, i)]
  <1>1. Len(a) \in Nat /\ Len(b) \in Nat
    BY LenProperties
  <1>2. both = IF Len(a) <= Len(b) THEN Len(a) ELSE Len(b)
    BY <1>1, MinOfTwo
  <1> HIDE DEF both
  <1>3. both \in Nat /\ both <= Len(a) /\ both <= Len(b)
    BY <1>1, <1>2
  <1>4. \A i \in 0 .. both - 1 : nx[i] \in i + 1 .. both
    BY <1>3, RoundFacts
  <1>5. PICK f : Downward(f, 0, both, pre, nx)
    <2> HIDE DEF pre, nx
    <2> QED
      BY <1>3, <1>4, DownwardExists
  <1>6. RunsFrom(f, a, b, both)
    <2>1. f = [i \in 0 .. both |-> IF i = both THEN <<>> ELSE pre[i] \o f[nx[i]]]
      BY <1>5 DEF Downward
    <2>2. ASSUME NEW i \in 0 .. both, i # both
          PROVE  /\ pre[i] = Replaced(a, b, both, i)
                 /\ nx[i] = RunStart(a, b, both, i) + RunLength(a, b, both, i)
      <3>1. i \in 0 .. both - 1
        BY <1>3, <2>2
      <3> QED
        BY <3>1
    <2> HIDE DEF pre, nx
    <2> QED
      BY <2>1, <2>2 DEF RunsFrom
  <1> HIDE DEF pre, nx
  <1>7. PICK g : RunsFrom(g, a, b, both) /\ Greedy(a, b) = g[0] \o cut \o more
    BY <1>6, GreedyChosen DEF both
  <1>8. /\ origin \in Point /\ origin[1] = 0 /\ origin[2] = 0
        /\ corner \in Point /\ corner[1] = both /\ corner[2] = both
        /\ side \in Point /\ side[1] = Len(a) /\ side[2] = both
    BY <1>1, <1>3 DEF Point
  <1> HIDE DEF cut, more, bs
  <1>9. Reached(a, b, <<>>, origin)
    <2> HIDE DEF origin, corner, side
    <2>1. Linked(R, <<>>, origin, origin)
      BY <1>8, LinkedEmpty
    <2>2. Matched(a, b, origin, origin)
      BY <1>1, <1>8, MatchedNothing
    <2> QED
      BY <1>8, <2>1, <2>2, EmptySeq DEF Reached, origin
  <1>10. g[0] \in Seq(Op) /\ Reached(a, b, g[0], corner)
    <2>1. g[0] \in Seq(Op) /\ Reached(a, b, <<>> \o g[0], corner)
      BY <1>3, <1>7, <1>9, RoundsReach
    <2>2. <<>> \o g[0] = g[0]
      BY <2>1, ConcatEmptySeq
    <2> QED
      BY <2>1, <2>2
  <1>11. cut \in Seq(Op) /\ Linked(R, cut, corner, side)
    <2>1. CASE Len(a) > both
      <3> DEFINE d == Len(a) - both
      <3>1. d \in Nat \ {0} /\ both + d = Len(a) /\ both + d <= Len(a)
        BY <1>1, <1>3, <2>1
      <3> HIDE DEF d
      <3>2. /\ <<Opcode("X", both, <<>>, d)>> \in Seq(Op)
            /\ Linked(R, <<Opcode("X", both, <<>>, d)>>, <<both, both>>, <<both + d, both>>)
        BY <1>3, <3>1, CutLinked
      <3> QED
        BY <2>1, <3>1, <3>2 DEF cut, d
    <2>2. CASE ~(Len(a) > both)
      <3>1. corner = side
        BY <1>1, <1>3, <2>2
      <3> HIDE DEF corner, side
      <3>2. Linked(R, <<>>, corner, side)
        BY <1>8, <3>1, LinkedEmpty
      <3> QED
        BY <2>2, <3>2, EmptySeq DEF cut
    <2> QED
      BY <2>1, <2>2
  <1>12. more \in Seq(Op) /\ Linked(R, more, side, end)
    <2> DEFINE m == Len(b) - both
    <2>1. m \in Nat /\ both + m = Len(b) /\ both + m <= Len(b)
      BY <1>1, <1>3
    <2> HIDE DEF m
    <2>2. Copied(b, both, bs) /\ Len(bs) = m
      <3>1. /\ Copied(b, both, SubSeq(b, both + 1, both + m))
            /\ Len(SubSeq(b, both + 1, both + m)) = m
        BY <1>3, <2>1, CopiedPart
      <3> QED
        BY <2>1, <3>1 DEF bs
    <2>3. Over("I", Len(bs)) = 0 /\ Len(a) + 0 = Len(a)
      BY <1>1 DEF Over
    <2>4. Len(a) + Over("I", Len(bs)) <= Len(a)
      BY <1>1, <2>3
    <2>5. /\ Inline("I", both, bs) \in Seq(Op)
          /\ Linked(R, Inline("I", both, bs), <<Len(a), both>>,
                    <<Len(a) + Over("I", Len(bs)), both + Len(bs)>>)
      BY <1>1, <1>3, <2>2, <2>4, InlineLinked
    <2>6. <<Len(a) + Over("I", Len(bs)), both + Len(bs)>> = end
      BY <2>1, <2>2, <2>3
    <2> QED
      BY <2>5, <2>6 DEF more
  <1> HIDE DEF corner, side
  <1>13. Reached(a, b, g[0] \o cut, side)
    BY <1>3, <1>8, <1>10, <1>11, ReachedOps
  <1>14. Reached(a, b, (g[0] \o cut) \o more, end)
    BY <1>1, <1>3, <1>8, <1>12, <1>13, ReachedOps
  <1> QED
    BY <1>7, <1>14

-----------------------------------------------------------------------------
(* The search: diagonals, snakes, and one step of the frontier.            *)

LEMMA SnakeFacts ==
    ASSUME NEW a \in Seq(Byte), NEW b, NEW x, NEW y
    PROVE  LET n == Snake(a, b, x, y)
           IN  /\ n \in 0 .. Len(a)
               /\ n # 0 => x + n <= Len(a) /\ y + n <= Len(b)
               /\ \A j \in 1 .. n : a[x + j] = b[y + j]
  <1> DEFINE P(n) == \A j \in 1 .. n : a[x + j] = b[y + j]
             s == {0} \cup {n \in 1 .. Len(a) : x + n <= Len(a) /\ y + n <= Len(b) /\ P(n)}
             m == Max(s)
  <1>1. Snake(a, b, x, y) = m
    <2>1. {n \in 1 .. Len(a) : x + n <= Len(a) /\ y + n <= Len(b) /\ P(n)}
          = {n \in 1 .. Len(a) : /\ x + n <= Len(a) /\ y + n <= Len(b)
                                 /\ \A j \in 1 .. n : a[x + j] = b[y + j]}
      OBVIOUS
    <2> QED
      BY <2>1 DEF Snake
  <1>2. Len(a) \in Nat
    BY LenProperties
  <1>3. P(0)
    OBVIOUS
  <1> HIDE DEF P
  <1>4. s \in SUBSET (0 .. Len(a)) /\ s # {}
    BY <1>2
  <1>5. \A n \in s : P(n) /\ (n # 0 => x + n <= Len(a) /\ y + n <= Len(b))
    BY <1>3
  <1> HIDE DEF s
  <1>6. m \in s
    BY <1>2, <1>4, MaxBounded
  <1>7. m \in 0 .. Len(a)
    BY <1>4, <1>6
  <1>8. P(m) /\ (m # 0 => x + m <= Len(a) /\ y + m <= Len(b))
    BY <1>5, <1>6
  <1> HIDE DEF m
  <1> QED
    BY <1>1, <1>7, <1>8 DEF P

(* Where the frontier v is left to reach diagonal k at distance d.         *)
Start(v, d, k) == IF FromAbove(v, d, k) THEN v[k + 1] ELSE v[k - 1] + 1

LEMMA FurthestIs ==
    ASSUME NEW a, NEW b, NEW v, NEW d, NEW k
    PROVE  Furthest(a, b, v, d, k)
           = Start(v, d, k) + Snake(a, b, Start(v, d, k), Start(v, d, k) - k)
  BY DEF Furthest, Start

(* The diagonals at the distance before.                                   *)
LEMMA Neighbours ==
    ASSUME NEW d \in Nat \ {0}, NEW k \in Diagonals(d)
    PROVE  /\ k \in Int /\ d - 1 \in Nat
           /\ k # d => k + 1 \in Diagonals(d - 1)
           /\ k # -d => k - 1 \in Diagonals(d - 1)
  <1>1. k \in -d .. d /\ (k + d) % 2 = 0
    BY DEF Diagonals
  <1>2. k \in Int /\ d \in Int
    BY <1>1
  <1>3. k # d => k < d - 1
    BY <1>1, <1>2
  <1>4. k # -d => k > -d + 1
    BY <1>1, <1>2
  <1>5. (k + 1) + (d - 1) = k + d /\ ((k - 1) + (d - 1)) % 2 = 0
    BY <1>1, <1>2
  <1>6. k # d => k + 1 \in -(d - 1) .. d - 1
    BY <1>1, <1>2, <1>3
  <1>7. k # -d => k - 1 \in -(d - 1) .. d - 1
    BY <1>1, <1>2, <1>4
  <1> QED
    BY <1>1, <1>2, <1>5, <1>6, <1>7 DEF Diagonals

LEMMA DiagonalZero == Diagonals(0) = {0}
  BY DEF Diagonals

(* Frontiers of a search up to distance D.                                 *)
Frontier(D) == [-D .. D -> Nat]

LEMMA StartFacts ==
    ASSUME NEW D \in Nat \ {0}, NEW v \in Frontier(D), NEW d \in 0 .. D,
           NEW k \in Diagonals(d)
    PROVE  /\ Start(v, d, k) \in Nat /\ k \in -D .. D
           /\ FromAbove(v, d, k) => k + 1 \in -D .. D
           /\ ~FromAbove(v, d, k) => k - 1 \in -D .. D
  <1>1. k \in -d .. d /\ d \in Nat /\ d <= D
    BY DEF Diagonals
  <1>2. k \in -D .. D
    BY <1>1
  <1>3. FromAbove(v, d, k) => k + 1 \in -D .. D
    <2>1. CASE d = 0
      BY <1>1, <2>1
    <2>2. CASE d # 0
      <3>1. FromAbove(v, d, k) => k # d
        BY <1>1, <2>2 DEF FromAbove
      <3> QED
        BY <1>1, <3>1
    <2> QED
      BY <2>1, <2>2
  <1>4. ~FromAbove(v, d, k) => k - 1 \in -D .. D
    <2>1. ~FromAbove(v, d, k) => k # -d
      BY DEF FromAbove
    <2> QED
      BY <1>1, <2>1
  <1>5. Start(v, d, k) \in Nat
    BY <1>3, <1>4 DEF Start, Frontier
  <1> QED
    BY <1>2, <1>3, <1>4, <1>5

LEMMA FurthestFacts ==
    ASSUME NEW a \in Seq(Byte), NEW b, NEW D \in Nat \ {0}, NEW v \in Frontier(D),
           NEW d \in 0 .. D, NEW k \in Diagonals(d)
    PROVE  /\ Furthest(a, b, v, d, k) \in Nat
           /\ Furthest(a, b, v, d, k) >= Start(v, d, k)
  <1> DEFINE x == Start(v, d, k)
             n == Snake(a, b, x, x - k)
  <1>1. x \in Nat
    BY StartFacts
  <1>2. n \in Nat
    <2>1. n \in 0 .. Len(a)
      BY SnakeFacts
    <2> QED
      BY <2>1, LenProperties
  <1>3. Furthest(a, b, v, d, k) = x + n
    BY FurthestIs
  <1> HIDE DEF x, n
  <1>4. x + n \in Nat /\ x + n >= x
    BY <1>1, <1>2
  <1> QED
    BY <1>3, <1>4 DEF x

(* Where no diagonal reaches the end, all are advanced; where one does,    *)
(* the first that does is.                                                 *)
LEMMA AdvanceFacts ==
    ASSUME NEW a \in Seq(Byte), NEW b, NEW D \in Nat \ {0}, NEW v \in Frontier(D),
           NEW d \in 0 .. D
    PROVE  /\ Advance(a, b, v, d) \in Frontier(D)
           /\ ~Reaches(a, b, Advance(a, b, v, d), d)
              => \A k \in Diagonals(d) : Advance(a, b, v, d)[k] = Furthest(a, b, v, d, k)
           /\ Reaches(a, b, Advance(a, b, v, d), d)
              => \E k \in Diagonals(d) : /\ Advance(a, b, v, d)[k] = Furthest(a, b, v, d, k)
                                         /\ AtEnd(a, b, Furthest(a, b, v, d, k), k)
  <1> DEFINE K == Diagonals(d)
             x == [k \in K |-> Furthest(a, b, v, d, k)]
             ends == {k \in K : AtEnd(a, b, x[k], k)}
             w == Advance(a, b, v, d)
  <1>1. /\ w = [k \in DOMAIN v |->
                  IF k \in K /\ \A e \in ends : k <= e THEN x[k] ELSE v[k]]
        /\ DOMAIN v = -D .. D
    BY DEF Advance, Frontier
  <1>2. \A k \in K : x[k] \in Nat /\ k \in -D .. D
    BY FurthestFacts, StartFacts
  <1>3. \A k \in K : x[k] = Furthest(a, b, v, d, k)
    OBVIOUS
  <1>4. \A k \in K : k + d \in Nat /\ k \in Int
    BY DEF Diagonals
  <1>5. \A k \in ends : k \in K /\ AtEnd(a, b, x[k], k)
    OBVIOUS
  <1>6. \A k \in K : AtEnd(a, b, x[k], k) => k \in ends
    OBVIOUS
  <1> HIDE DEF K, x, ends, w
  <1>7. w \in Frontier(D)
    BY <1>1, <1>2 DEF Frontier
  <1>8. \A k \in K : (\A e \in ends : k <= e) => w[k] = x[k]
    BY <1>1, <1>2
  <1>9. CASE ends = {}
    <2>1. \A k \in K : w[k] = x[k]
      BY <1>8, <1>9
    <2>2. ~Reaches(a, b, w, d)
      BY <1>6, <1>9, <2>1 DEF Reaches, K
    <2> QED
      BY <1>3, <1>7, <2>1, <2>2 DEF w, K
  <1>10. CASE ends # {}
    <2>1. PICK m \in ends : \A e \in ends : m <= e
      <3> DEFINE s == {k + d : k \in ends}
      <3>1. s \in SUBSET Nat
        BY <1>4, <1>5
      <3>2. s # {}
        BY <1>10
      <3>3. \A k \in ends : k + d \in s
        OBVIOUS
      <3>4. \A z \in s : \E k \in ends : z = k + d
        OBVIOUS
      <3> HIDE DEF s
      <3>5. PICK z \in s : \A y \in s : z <= y
        BY <3>1, <3>2, Least
      <3>6. PICK m \in ends : z = m + d
        BY <3>4
      <3>7. ASSUME NEW e \in ends PROVE m <= e
        <4>1. m + d <= e + d
          BY <3>3, <3>5, <3>6
        <4>2. m \in Int /\ e \in Int
          BY <1>4, <1>5
        <4> QED
          BY <4>1, <4>2
      <3> QED
        BY <3>7
    <2>2. m \in K /\ AtEnd(a, b, x[m], m)
      BY <1>5
    <2>3. w[m] = x[m]
      BY <1>8, <2>1, <2>2
    <2>4. Reaches(a, b, w, d)
      BY <2>2, <2>3 DEF Reaches, K
    <2>5. x[m] = Furthest(a, b, v, d, m)
      BY <1>3, <2>2
    <2> QED
      BY <1>7, <2>2, <2>3, <2>4, <2>5 DEF w, K
  <1> QED
    BY <1>9, <1>10

-----------------------------------------------------------------------------
(* The frontiers of a search, one after the other.                         *)

Origin(a, b) == [k \in -DMax(a, b) .. DMax(a, b) |-> 0]

Distances(a, b) == [j \in 1 .. DMax(a, b) + 1 |-> j - 1]

(* What FoldLeft iterates over the first n distances of ds.                *)
Extends(it, a, b, ds, n) ==
    it = [s \in SUBSET (1 .. n) |->
             IF s = {} THEN <<Origin(a, b)>>
             ELSE Extend(a, b, it[s \ {Max(s)}], ds[Max(s)])]

LEMMA ExtendsExist ==
    ASSUME NEW a, NEW b, NEW ds, NEW n \in Nat
    PROVE  \E it : Extends(it, a, b, ds, n)
  <1> DEFINE P(k) == \E it : Extends(it, a, b, ds, k)
             S == {k \in Nat : P(k)}
  <1>1. P(0)
    <2> DEFINE it == [s \in SUBSET (1 .. 0) |-> <<Origin(a, b)>>]
    <2>1. SUBSET (1 .. 0) = {{}}
      OBVIOUS
    <2>2. Extends(it, a, b, ds, 0)
      BY <2>1 DEF Extends
    <2> QED
      BY <2>2
  <1>2. ASSUME NEW k \in Nat, P(k) PROVE P(k + 1)
    <2>1. PICK it : Extends(it, a, b, ds, k)
      BY <1>2
    <2> DEFINE nx == [s \in SUBSET (1 .. k) |-> Extend(a, b, it[s], ds[k + 1])]
               jt == OneMore(it, nx, k)
    <2>2. Prolonged(jt, it, nx, k)
      BY GrowsByOne
    <2>3. jt = [s \in SUBSET (1 .. k + 1) |-> jt[s]] /\ jt[{}] = it[{}]
      BY DEF OneMore
    <2>4. it[{}] = <<Origin(a, b)>>
      BY <2>1 DEF Extends
    <2>5. \A s \in SUBSET (1 .. k) : nx[s] = Extend(a, b, it[s], ds[k + 1])
      OBVIOUS
    <2> HIDE DEF jt, nx
    <2>6. ASSUME NEW s \in SUBSET (1 .. k + 1)
          PROVE  jt[s] = IF s = {} THEN <<Origin(a, b)>>
                         ELSE Extend(a, b, jt[s \ {Max(s)}], ds[Max(s)])
      <3>1. CASE s = {}
        BY <2>3, <2>4, <3>1
      <3>2. CASE s # {}
        <4>1. \/ /\ Max(s) = k + 1 /\ s \ {Max(s)} \in SUBSET (1 .. k)
                 /\ jt[s \ {Max(s)}] = it[s \ {Max(s)}] /\ jt[s] = nx[s \ {Max(s)}]
              \/ /\ s \in SUBSET (1 .. k) /\ Max(s) \in 1 .. k
                 /\ jt[s \ {Max(s)}] = it[s \ {Max(s)}] /\ jt[s] = it[s]
          BY <2>2, <3>2 DEF Prolonged
        <4>2. CASE /\ Max(s) = k + 1 /\ s \ {Max(s)} \in SUBSET (1 .. k)
                   /\ jt[s \ {Max(s)}] = it[s \ {Max(s)}] /\ jt[s] = nx[s \ {Max(s)}]
          BY <2>5, <3>2, <4>2
        <4>3. CASE /\ s \in SUBSET (1 .. k) /\ Max(s) \in 1 .. k
                   /\ jt[s \ {Max(s)}] = it[s \ {Max(s)}] /\ jt[s] = it[s]
          <5>1. it[s] = Extend(a, b, it[s \ {Max(s)}], ds[Max(s)])
            BY <2>1, <3>2, <4>3 DEF Extends
          <5> QED
            BY <3>2, <4>3, <5>1
        <4> QED
          BY <4>1, <4>2, <4>3, Zenon
      <3> QED
        BY <3>1, <3>2
    <2>7. Extends(jt, a, b, ds, k + 1)
      BY <2>3, <2>6 DEF Extends
    <2> QED
      BY <2>7
  <1> HIDE DEF P
  <1>3. 0 \in S /\ \A k \in Nat : k \in S => k + 1 \in S
    BY <1>1, <1>2
  <1> HIDE DEF S
  <1>4. n \in S
    BY <1>3, SetInduction
  <1> QED
    BY <1>4 DEF S, P

LEMMA ExtendsChosen ==
    ASSUME NEW a, NEW b, NEW n, DOMAIN Distances(a, b) = 1 .. n,
           NEW it, Extends(it, a, b, Distances(a, b), n)
    PROVE  \E jt : Extends(jt, a, b, Distances(a, b), n) /\ Frontiers(a, b) = jt[1 .. n]
  BY ZenonT(60) DEF Frontiers, FoldLeft, MapThenFoldSet, Extends, Distances, Origin

(* The values of the fold.                                                 *)
ExtendSteps(acc, a, b, n) ==
    /\ acc[0] = <<Origin(a, b)>>
    /\ \A k \in 1 .. n : acc[k] = Extend(a, b, acc[k - 1], k - 1)

LEMMA DMaxFacts ==
    ASSUME NEW a \in Seq(Byte), NEW b \in Seq(Byte), a # <<>>
    PROVE  DMax(a, b) \in Nat \ {0}
  <1>1. Len(a) \in Nat \ {0} /\ Len(b) \in Nat /\ DLimit \in Nat \ {0}
    BY LenProperties, EmptySeq, DiffAssumption
  <1>2. Len(a) + Len(b) \in Nat \ {0}
    BY <1>1
  <1>3. DMax(a, b) = IF Len(a) + Len(b) <= DLimit THEN Len(a) + Len(b) ELSE DLimit
    BY <1>1, <1>2, MinOfTwo DEF DMax
  <1> QED
    BY <1>1, <1>2, <1>3

LEMMA FrontiersFold ==
    ASSUME NEW a \in Seq(Byte), NEW b \in Seq(Byte), a # <<>>
    PROVE  \E acc : /\ ExtendSteps(acc, a, b, DMax(a, b) + 1)
                    /\ Frontiers(a, b) = acc[DMax(a, b) + 1]
  <1> DEFINE n == DMax(a, b) + 1
             ds == Distances(a, b)
  <1>1. n \in Nat
    BY DMaxFacts
  <1>2. DOMAIN ds = 1 .. n /\ \A k \in 1 .. n : ds[k] = k - 1
    BY DEF Distances
  <1> HIDE DEF n, ds
  <1>3. PICK it : Extends(it, a, b, ds, n) /\ Frontiers(a, b) = it[1 .. n]
    <2>1. PICK jt : Extends(jt, a, b, ds, n)
      BY <1>1, ExtendsExist
    <2>2. DOMAIN Distances(a, b) = 1 .. n
      BY <1>2 DEF ds
    <2>3. Extends(jt, a, b, Distances(a, b), n)
      BY <2>1 DEF ds
    <2>4. \E it : Extends(it, a, b, Distances(a, b), n) /\ Frontiers(a, b) = it[1 .. n]
      BY <2>2, <2>3, ExtendsChosen
    <2> QED
      BY <2>4 DEF ds
  <1> DEFINE acc == [k \in 0 .. n |-> it[1 .. k]]
  <1>4. acc[0] = <<Origin(a, b)>>
    <2>1. 1 .. 0 = {} /\ 0 \in 0 .. n
      BY <1>1
    <2>2. it[{}] = <<Origin(a, b)>>
      BY <1>3 DEF Extends
    <2> QED
      BY <2>1, <2>2
  <1>5. ASSUME NEW k \in 1 .. n PROVE acc[k] = Extend(a, b, acc[k - 1], k - 1)
    <2>1. /\ 1 .. k \in SUBSET (1 .. n) /\ 1 .. k # {}
          /\ Max(1 .. k) = k /\ (1 .. k) \ {Max(1 .. k)} = 1 .. k - 1
      BY <1>1, FoldPositions
    <2>2. it[1 .. k] = Extend(a, b, it[(1 .. k) \ {Max(1 .. k)}], ds[Max(1 .. k)])
      BY <1>3, <2>1 DEF Extends
    <2>3. acc[k] = it[1 .. k] /\ acc[k - 1] = it[1 .. k - 1]
      BY <1>1
    <2> HIDE DEF acc
    <2> QED
      BY <1>2, <2>1, <2>2, <2>3
  <1>6. acc[n] = it[1 .. n]
    BY <1>1
  <1> HIDE DEF acc
  <1>7. ExtendSteps(acc, a, b, n)
    BY <1>4, <1>5 DEF ExtendSteps
  <1> QED
    BY <1>3, <1>6, <1>7 DEF n

(* Every frontier is one step further than the one before it, until one    *)
(* has reached the end.                                                    *)
Growing(a, b, v, n) ==
    /\ v \in Seq(Frontier(DMax(a, b))) /\ Len(v) = n + 1
    /\ v[1] = Origin(a, b)
    /\ \A d \in 0 .. n - 1 :
          v[d + 2] = IF Ended(a, b, v, d) THEN v[d + 1] ELSE Advance(a, b, v[d + 1], d)

LEMMA GrowingStep ==
    ASSUME NEW a \in Seq(Byte), NEW b \in Seq(Byte), a # <<>>,
           NEW n \in 0 .. DMax(a, b), NEW v, Growing(a, b, v, n)
    PROVE  Growing(a, b, Extend(a, b, v, n), n + 1)
  <1> DEFINE D == DMax(a, b)
             F == Frontier(D)
             added == IF Ended(a, b, v, n) THEN v[n + 1] ELSE Advance(a, b, v[n + 1], n)
             w == Extend(a, b, v, n)
  <1>1. /\ v \in Seq(F) /\ Len(v) = n + 1 /\ v[1] = Origin(a, b)
        /\ \A d \in 0 .. n - 1 :
              v[d + 2] = IF Ended(a, b, v, d) THEN v[d + 1] ELSE Advance(a, b, v[d + 1], d)
    BY DEF Growing
  <1>2. D \in Nat \ {0} /\ n \in Nat
    BY DMaxFacts
  <1>3. w = Append(v, added)
    BY DEF Extend
  <1>4. added \in F
    <2>1. n + 1 \in 1 .. Len(v)
      BY <1>1, <1>2
    <2>2. v[n + 1] \in F
      BY <1>1, <2>1, ElementOfSeq
    <2> HIDE DEF D, F
    <2>3. Advance(a, b, v[n + 1], n) \in F
      BY <1>2, <2>2, AdvanceFacts DEF F, D
    <2> QED
      BY <2>2, <2>3
  <1> HIDE DEF D, F, added, w
  <1>5. /\ w \in Seq(F) /\ Len(w) = (n + 1) + 1
        /\ \A i \in 1 .. n + 1 : w[i] = v[i]
        /\ w[(n + 1) + 1] = added
    BY <1>1, <1>3, <1>4, AppendProperties
  <1>6. w[1] = Origin(a, b)
    BY <1>1, <1>2, <1>5
  <1>7. ASSUME NEW d \in 0 .. n PROVE Ended(a, b, w, d) = Ended(a, b, v, d)
    <2>1. \A e \in 0 .. d - 1 : w[e + 2] = v[e + 2]
      BY <1>2, <1>5
    <2> QED
      BY <2>1 DEF Ended
  <1>8. ASSUME NEW d \in 0 .. (n + 1) - 1
        PROVE  w[d + 2] = IF Ended(a, b, w, d) THEN w[d + 1] ELSE Advance(a, b, w[d + 1], d)
    <2>1. d \in 0 .. n /\ d + 1 \in 1 .. n + 1
      BY <1>2
    <2>2. w[d + 1] = v[d + 1] /\ Ended(a, b, w, d) = Ended(a, b, v, d)
      BY <1>5, <1>7, <2>1
    <2>3. CASE d = n
      <3>1. w[d + 2] = added
        BY <1>2, <1>5, <2>3
      <3> QED
        BY <2>2, <2>3, <3>1 DEF added
    <2>4. CASE d # n
      <3>1. d \in 0 .. n - 1 /\ d + 2 \in 1 .. n + 1
        BY <1>2, <2>1, <2>4
      <3> QED
        BY <1>1, <1>5, <2>2, <3>1
    <2> QED
      BY <2>3, <2>4
  <1>9. Growing(a, b, w, n + 1)
    BY <1>5, <1>6, <1>8 DEF Growing, F, D
  <1> QED
    BY <1>9 DEF w

LEMMA FrontiersGrow ==
    ASSUME NEW a \in Seq(Byte), NEW b \in Seq(Byte), a # <<>>
    PROVE  Growing(a, b, Frontiers(a, b), DMax(a, b) + 1)
  <1> DEFINE D == DMax(a, b)
             n == D + 1
  <1>1. D \in Nat \ {0} /\ n \in Nat
    BY DMaxFacts
  <1>2. PICK acc : ExtendSteps(acc, a, b, n) /\ Frontiers(a, b) = acc[n]
    BY FrontiersFold
  <1>3. /\ acc[0] = <<Origin(a, b)>>
        /\ \A k \in 1 .. n : acc[k] = Extend(a, b, acc[k - 1], k - 1)
    BY <1>2 DEF ExtendSteps
  <1> DEFINE S == {k \in 0 .. n : Growing(a, b, acc[k], k)}
  <1>4. Growing(a, b, <<Origin(a, b)>>, 0)
    <2> DEFINE v == <<Origin(a, b)>>
    <2>1. Origin(a, b) \in Frontier(D)
      BY DEF Origin, Frontier
    <2>2. v \in Seq(Frontier(D)) /\ Len(v) = 0 + 1 /\ v[1] = Origin(a, b)
      BY <2>1
    <2>3. 0 .. 0 - 1 = {}
      OBVIOUS
    <2> HIDE DEF v
    <2> QED
      BY <2>2, <2>3 DEF Growing, v
  <1>5. 0 \in S
    BY SMTT(60), <1>1, <1>3, <1>4
  <1>6. ASSUME NEW k \in 1 .. n, k - 1 \in S PROVE k \in S
    <2>1. k - 1 \in 0 .. D /\ (k - 1) + 1 = k /\ k \in 0 .. n
      BY <1>1
    <2>2. Growing(a, b, acc[k - 1], k - 1)
      BY <1>6
    <2>3. Growing(a, b, Extend(a, b, acc[k - 1], k - 1), (k - 1) + 1)
      BY <2>1, <2>2, GrowingStep
    <2>4. acc[k] = Extend(a, b, acc[k - 1], k - 1)
      BY <1>3
    <2> QED
      BY <2>1, <2>3, <2>4
  <1> HIDE DEF S, n, D
  <1>7. 0 .. n \subseteq S
    BY <1>1, <1>5, <1>6, UpToInduction
  <1>8. n \in S
    BY <1>1, <1>7
  <1> QED
    BY <1>2, <1>8 DEF S, n, D

-----------------------------------------------------------------------------
(* A search that succeeds ends in the corner <<Len(a), Len(b)>>.           *)

(* How far diagonal k is followed at distance d.                           *)
At(v, d, k) == v[d + 2][k]

(* Diagonal k was advanced at distance d.                                  *)
Advanced(a, b, v, d, k) ==
    k \in Diagonals(d) /\ At(v, d, k) = Furthest(a, b, v[d + 1], d, k)

(* The frontiers v of a search that reaches the end at distance final.     *)
Searched(a, b, v, final) ==
    /\ final \in 0 .. DMax(a, b) /\ v[1] = Origin(a, b)
    /\ \A i \in 1 .. final + 2 : v[i] \in Frontier(DMax(a, b))
    /\ \A d \in 0 .. final - 1 : \A k \in Diagonals(d) :
          Advanced(a, b, v, d, k) /\ ~AtEnd(a, b, At(v, d, k), k)
    /\ \E k \in Diagonals(final) :
          Advanced(a, b, v, final, k) /\ AtEnd(a, b, At(v, final, k), k)

LEMMA SearchedFinal ==
    ASSUME NEW a \in Seq(Byte), NEW b \in Seq(Byte), a # <<>>,
           NEW final \in FinalDistance(a, b)
    PROVE  Searched(a, b, Frontiers(a, b), final)
  <1> DEFINE D == DMax(a, b)
             v == Frontiers(a, b)
             n == D + 1
  <1>1. D \in Nat \ {0} /\ n \in Nat
    BY DMaxFacts
  <1>2. /\ final \in 0 .. D /\ Reaches(a, b, v[final + 2], final)
        /\ \A e \in 0 .. final : e < final => ~Reaches(a, b, v[e + 2], e)
    BY DEF FinalDistance
  <1>3. Growing(a, b, v, n)
    BY FrontiersGrow
  <1>4. /\ v \in Seq(Frontier(D)) /\ Len(v) = n + 1 /\ v[1] = Origin(a, b)
        /\ \A d \in 0 .. n - 1 :
              v[d + 2] = IF Ended(a, b, v, d) THEN v[d + 1] ELSE Advance(a, b, v[d + 1], d)
    BY <1>3 DEF Growing
  <1> HIDE DEF D, v
  <1>5. \A i \in 1 .. final + 2 : v[i] \in Frontier(D)
    <2>1. \A i \in 1 .. final + 2 : i \in 1 .. Len(v)
      BY <1>1, <1>2, <1>4
    <2> QED
      BY <1>4, <2>1, ElementOfSeq
  <1>6. ASSUME NEW d \in 0 .. final
        PROVE  v[d + 2] = Advance(a, b, v[d + 1], d) /\ v[d + 1] \in Frontier(D) /\ d \in 0 .. D
    <2>1. d \in 0 .. n - 1 /\ d + 1 \in 1 .. final + 2 /\ d \in 0 .. D
      BY <1>1, <1>2
    <2>2. \A e \in 0 .. d - 1 : e \in 0 .. final /\ e < final
      BY <1>2
    <2>3. ~Ended(a, b, v, d)
      BY <1>2, <2>2 DEF Ended
    <2> QED
      BY <1>4, <1>5, <2>1, <2>3
  <1>7. ASSUME NEW d \in 0 .. final - 1, NEW k \in Diagonals(d)
        PROVE  Advanced(a, b, v, d, k) /\ ~AtEnd(a, b, At(v, d, k), k)
    <2>1. d \in 0 .. final /\ d < final
      BY <1>2
    <2>2. ~Reaches(a, b, v[d + 2], d)
      BY <1>2, <2>1
    <2>3. v[d + 2] = Advance(a, b, v[d + 1], d) /\ v[d + 1] \in Frontier(D) /\ d \in 0 .. D
      BY <1>6, <2>1
    <2>4. v[d + 2][k] = Furthest(a, b, v[d + 1], d, k)
      <3>1. ~Reaches(a, b, Advance(a, b, v[d + 1], d), d)
        BY <2>2, <2>3
      <3>2. \A i \in Diagonals(d) :
               Advance(a, b, v[d + 1], d)[i] = Furthest(a, b, v[d + 1], d, i)
        <4> DEFINE u == v[d + 1]
        <4>1. /\ D \in Nat \ {0} /\ u \in Frontier(D) /\ d \in 0 .. D
              /\ ~Reaches(a, b, Advance(a, b, u, d), d)
          BY <1>1, <2>3, <3>1
        <4> HIDE DEF u
        <4>2. \A i \in Diagonals(d) : Advance(a, b, u, d)[i] = Furthest(a, b, u, d, i)
          BY <4>1, AdvanceFacts
        <4> QED
          BY <4>2 DEF u
      <3> QED
        BY <2>3, <3>2
    <2> QED
      BY <2>2, <2>4 DEF Advanced, At, Reaches
  <1>8. \E k \in Diagonals(final) :
            Advanced(a, b, v, final, k) /\ AtEnd(a, b, At(v, final, k), k)
    <2>1. final \in 0 .. final
      BY <1>2
    <2>2. /\ v[final + 2] = Advance(a, b, v[final + 1], final)
          /\ v[final + 1] \in Frontier(D) /\ final \in 0 .. D
      BY <1>6, <2>1
    <2>3. Reaches(a, b, Advance(a, b, v[final + 1], final), final)
      BY <1>2, <2>2
    <2>4. PICK k \in Diagonals(final) :
              /\ Advance(a, b, v[final + 1], final)[k] = Furthest(a, b, v[final + 1], final, k)
              /\ AtEnd(a, b, Furthest(a, b, v[final + 1], final, k), k)
      BY <1>1, <2>2, <2>3, AdvanceFacts
    <2>5. v[final + 2][k] = Furthest(a, b, v[final + 1], final, k)
      BY <2>2, <2>4
    <2> QED
      BY <2>4, <2>5 DEF Advanced, At
  <1>9. Searched(a, b, v, final)
    BY <1>2, <1>4, <1>5, <1>7, <1>8 DEF Searched, D
  <1> QED
    BY <1>9 DEF v

(* What is known of a search, with the numbers typed.                      *)
LEMMA SearchFacts ==
    ASSUME NEW a \in Seq(Byte), NEW b \in Seq(Byte), a # <<>>,
           NEW v, NEW final, Searched(a, b, v, final)
    PROVE  /\ final \in Nat /\ Len(a) \in Nat \ {0} /\ Len(b) \in Nat
           /\ \A d \in 0 .. final : \A k \in Diagonals(d) : At(v, d, k) \in Nat
           /\ \A d \in 0 .. final - 1 : \A k \in Diagonals(d) :
                 Advanced(a, b, v, d, k) /\ ~AtEnd(a, b, At(v, d, k), k)
  <1>1. final \in Nat /\ final <= DMax(a, b) /\ DMax(a, b) \in Nat
    BY DMaxFacts DEF Searched
  <1>2. Len(a) \in Nat \ {0} /\ Len(b) \in Nat
    BY LenProperties, EmptySeq
  <1>3. ASSUME NEW d \in 0 .. final, NEW k \in Diagonals(d) PROVE At(v, d, k) \in Nat
    <2>1. d + 2 \in 1 .. final + 2
      BY <1>1
    <2>2. v[d + 2] \in Frontier(DMax(a, b))
      BY <2>1 DEF Searched
    <2>3. k \in -DMax(a, b) .. DMax(a, b)
      BY <1>1 DEF Diagonals
    <2> QED
      BY <2>2, <2>3 DEF Frontier, At
  <1> QED
    BY <1>1, <1>2, <1>3 DEF Searched

(* One step of the search, backwards.                                      *)
CameFrom(a, b, v, d, k) ==
    LET s == Start(v[d + 1], d, k)
        n == Snake(a, b, s, s - k)
    IN  /\ At(v, d, k) = s + n /\ n \in Nat /\ s \in Nat
        /\ n # 0 => s + n <= Len(a) /\ (s - k) + n <= Len(b)
        /\ \A j \in 1 .. n : a[s + j] = b[(s - k) + j]
        /\ \/ /\ FromAbove(v[d + 1], d, k) /\ k + 1 \in Diagonals(d - 1)
              /\ s = At(v, d - 1, k + 1)
           \/ /\ ~FromAbove(v[d + 1], d, k) /\ k - 1 \in Diagonals(d - 1)
              /\ s = At(v, d - 1, k - 1) + 1

LEMMA StepBack ==
    ASSUME NEW a \in Seq(Byte), NEW b \in Seq(Byte), a # <<>>,
           NEW v, NEW final, Searched(a, b, v, final),
           NEW d \in 1 .. final, NEW k, Advanced(a, b, v, d, k)
    PROVE  CameFrom(a, b, v, d, k)
  <1> DEFINE s == Start(v[d + 1], d, k)
             n == Snake(a, b, s, s - k)
             D == DMax(a, b)
  <1>1. final \in Nat /\ D \in Nat \ {0} /\ final <= D
    BY DMaxFacts, SearchFacts DEF Searched
  <1>2. d \in Nat \ {0} /\ d \in 0 .. D /\ d + 1 \in 1 .. final + 2 /\ k \in Diagonals(d)
    BY <1>1 DEF Advanced
  <1>3. v[d + 1] \in Frontier(D)
    BY <1>2 DEF Searched
  <1>4. s \in Nat
    BY <1>1, <1>2, <1>3, StartFacts
  <1>5. At(v, d, k) = s + n
    BY FurthestIs DEF Advanced
  <1>6. /\ n \in 0 .. Len(a)
        /\ n # 0 => s + n <= Len(a) /\ (s - k) + n <= Len(b)
        /\ \A j \in 1 .. n : a[s + j] = b[(s - k) + j]
    BY SnakeFacts
  <1>7. n \in Nat
    BY <1>6, LenProperties
  <1>8. /\ k # d => k + 1 \in Diagonals(d - 1)
        /\ k # -d => k - 1 \in Diagonals(d - 1)
    BY <1>2, Neighbours
  <1>9. (d - 1) + 2 = d + 1
    BY <1>2
  <1>10. \/ /\ FromAbove(v[d + 1], d, k) /\ k + 1 \in Diagonals(d - 1)
            /\ s = At(v, d - 1, k + 1)
         \/ /\ ~FromAbove(v[d + 1], d, k) /\ k - 1 \in Diagonals(d - 1)
            /\ s = At(v, d - 1, k - 1) + 1
    <2>1. CASE FromAbove(v[d + 1], d, k)
      <3>1. k # d
        BY <1>2, <2>1 DEF FromAbove
      <3>2. s = v[d + 1][k + 1]
        BY <2>1 DEF Start
      <3> QED
        BY <1>8, <1>9, <2>1, <3>1, <3>2 DEF At
    <2>2. CASE ~FromAbove(v[d + 1], d, k)
      <3>1. k # -d
        BY <2>2 DEF FromAbove
      <3>2. s = v[d + 1][k - 1] + 1
        BY <2>2 DEF Start
      <3> QED
        BY <1>8, <1>9, <2>2, <3>1, <3>2 DEF At
    <2> QED
      BY <2>1, <2>2
  <1> HIDE DEF s, n
  <1> QED
    BY <1>4, <1>5, <1>6, <1>7, <1>10 DEF CameFrom, s, n

(* A diagonal is followed at least as far as from either neighbour.        *)
LEMMA StepForward ==
    ASSUME NEW a \in Seq(Byte), NEW b \in Seq(Byte), a # <<>>,
           NEW v, NEW final, Searched(a, b, v, final),
           NEW d \in 1 .. final, NEW k, Advanced(a, b, v, d, k)
    PROVE  /\ k + 1 \in Diagonals(d - 1) => At(v, d, k) >= At(v, d - 1, k + 1)
           /\ k - 1 \in Diagonals(d - 1) => At(v, d, k) >= At(v, d - 1, k - 1) + 1
  <1>1. final \in Nat /\ d \in Nat \ {0} /\ d - 1 \in 0 .. final /\ k \in Int
        /\ (d - 1) + 2 = d + 1
    BY SearchFacts DEF Advanced, Diagonals
  <1> DEFINE up == At(v, d - 1, k + 1)
             down == At(v, d - 1, k - 1)
             s == Start(v[d + 1], d, k)
             x == At(v, d, k)
  <1>2. /\ k + 1 \in Diagonals(d - 1) => up \in Nat
        /\ k - 1 \in Diagonals(d - 1) => down \in Nat
    BY <1>1, SearchFacts
  <1>3. x \in Nat /\ s \in Nat /\ x >= s
    <2> DEFINE n == Snake(a, b, s, s - k)
    <2>1. x = s + n /\ n \in Nat /\ s \in Nat
      BY StepBack DEF CameFrom
    <2> HIDE DEF s, n, x
    <2> QED
      BY <2>1
  <1>4. s = IF FromAbove(v[d + 1], d, k) THEN up ELSE down + 1
    BY <1>1 DEF Start, At
  <1>5. FromAbove(v[d + 1], d, k) <=> (k = -d \/ (k # d /\ down < up))
    BY <1>1 DEF FromAbove, At
  <1>6. k + 1 \in Diagonals(d - 1) => k # d
    BY <1>1 DEF Diagonals
  <1>7. k - 1 \in Diagonals(d - 1) => k # -d
    BY <1>1 DEF Diagonals
  <1> HIDE DEF up, down, s, x
  <1>8. ASSUME k + 1 \in Diagonals(d - 1) PROVE x >= up
    <2>1. CASE FromAbove(v[d + 1], d, k)
      BY <1>3, <1>4, <2>1
    <2>2. CASE ~FromAbove(v[d + 1], d, k)
      <3>1. s = down + 1 /\ ~(down < up) /\ k # -d
        BY <1>4, <1>5, <1>6, <1>8, <2>2
      <3>2. k \in Diagonals(d)
        BY DEF Advanced
      <3>3. k - 1 \in Diagonals(d - 1)
        BY <1>1, <3>1, <3>2, Neighbours
      <3> QED
        BY <1>2, <1>3, <1>8, <3>1, <3>3
    <2> QED
      BY <2>1, <2>2
  <1>9. ASSUME k - 1 \in Diagonals(d - 1) PROVE x >= down + 1
    <2>1. CASE FromAbove(v[d + 1], d, k)
      <3>1. s = up /\ down < up /\ k # d
        BY <1>4, <1>5, <1>7, <1>9, <2>1
      <3>2. k \in Diagonals(d)
        BY DEF Advanced
      <3>3. k + 1 \in Diagonals(d - 1)
        BY <1>1, <3>1, <3>2, Neighbours
      <3> QED
        BY <1>2, <1>3, <1>9, <3>1, <3>3
    <2>2. CASE ~FromAbove(v[d + 1], d, k)
      BY <1>3, <1>4, <2>2
    <2> QED
      BY <2>1, <2>2
  <1> QED
    BY <1>8, <1>9 DEF up, down, x

LEMMA Spread ==
    ASSUME NEW d \in Nat, NEW k \in Diagonals(d)
    PROVE  k \in Int /\ k - 1 \in Diagonals(d + 1) /\ k + 1 \in Diagonals(d + 1)
  <1>1. k \in -d .. d /\ (k + d) % 2 = 0 /\ k \in Int
    BY DEF Diagonals
  <1>2. (k - 1) + (d + 1) = k + d /\ ((k + 1) + (d + 1)) % 2 = 0
    BY <1>1
  <1>3. k - 1 \in -(d + 1) .. d + 1 /\ k + 1 \in -(d + 1) .. d + 1
    BY <1>1
  <1> QED
    BY <1>1, <1>2, <1>3 DEF Diagonals

(* StepForward, seen from the diagonal that is left.                       *)
LEMMA Onward ==
    ASSUME NEW a \in Seq(Byte), NEW b \in Seq(Byte), a # <<>>,
           NEW v, NEW final, Searched(a, b, v, final),
           NEW d \in 0 .. final - 1, NEW k \in Diagonals(d)
    PROVE  /\ Advanced(a, b, v, d + 1, k - 1) => At(v, d + 1, k - 1) >= At(v, d, k)
           /\ Advanced(a, b, v, d + 1, k + 1) => At(v, d + 1, k + 1) >= At(v, d, k) + 1
  <1>1. final \in Nat
    BY SearchFacts
  <1>2. d \in Nat /\ d + 1 \in 1 .. final /\ (d + 1) - 1 = d
    BY <1>1
  <1>3. k \in Int /\ (k - 1) + 1 = k /\ (k + 1) - 1 = k
    BY <1>2, Spread
  <1>4. ASSUME Advanced(a, b, v, d + 1, k - 1)
        PROVE  At(v, d + 1, k - 1) >= At(v, d, k)
    <2>1. (k - 1) + 1 \in Diagonals((d + 1) - 1)
      BY <1>2, <1>3
    <2>2. At(v, d + 1, k - 1) >= At(v, (d + 1) - 1, (k - 1) + 1)
      BY <1>2, <1>4, <2>1, StepForward
    <2> QED
      BY <1>2, <1>3, <2>2
  <1>5. ASSUME Advanced(a, b, v, d + 1, k + 1)
        PROVE  At(v, d + 1, k + 1) >= At(v, d, k) + 1
    <2>1. (k + 1) - 1 \in Diagonals((d + 1) - 1)
      BY <1>2, <1>3
    <2>2. At(v, d + 1, k + 1) >= At(v, (d + 1) - 1, (k + 1) - 1) + 1
      BY <1>2, <1>5, <2>1, StepForward
    <2> QED
      BY <1>2, <1>3, <2>2
  <1> QED
    BY <1>4, <1>5

(* Distance 0 follows the equal bytes from the start.                      *)
LEMMA FirstSnake ==
    ASSUME NEW a \in Seq(Byte), NEW b \in Seq(Byte), a # <<>>,
           NEW v, NEW final, Searched(a, b, v, final), NEW k, Advanced(a, b, v, 0, k)
    PROVE  /\ k = 0 /\ At(v, 0, k) = Snake(a, b, 0, 0) /\ At(v, 0, k) \in Nat
           /\ At(v, 0, k) <= Len(a) /\ At(v, 0, k) <= Len(b)
  <1> DEFINE n == Snake(a, b, 0, 0)
  <1>1. k = 0
    BY DiagonalZero DEF Advanced
  <1>2. DMax(a, b) \in Nat \ {0} /\ 0 + 1 = 1 /\ -0 = 0 /\ 0 - 0 = 0
    <2>1. DMax(a, b) \in Nat \ {0}
      BY DMaxFacts
    <2>2. 0 + 1 = 1 /\ 0 - 0 = 0
      OBVIOUS
    <2>3. -0 = 0
      <3>1. \A z \in Int : -z = 0 - z
        OBVIOUS
      <3>2. 0 \in Int
        OBVIOUS
      <3> QED
        BY <2>2, <3>1, <3>2, Zenon
    <2> QED
      BY <2>1, <2>2, <2>3
  <1>3. v[0 + 1][0 + 1] = 0
    <2>1. 1 \in -DMax(a, b) .. DMax(a, b)
      BY <1>2
    <2> QED
      BY <1>2, <2>1 DEF Searched, Origin
  <1>4. Start(v[0 + 1], 0, 0) = 0
    BY <1>2, <1>3 DEF Start, FromAbove
  <1>5. Furthest(a, b, v[0 + 1], 0, 0) = 0 + Snake(a, b, 0, 0 - 0)
    BY <1>4, FurthestIs
  <1>6. /\ n \in 0 .. Len(a)
        /\ n # 0 => 0 + n <= Len(a) /\ 0 + n <= Len(b)
    BY SnakeFacts
  <1>7. Len(a) \in Nat /\ Len(b) \in Nat
    BY LenProperties
  <1>8. At(v, 0, k) = 0 + n
    BY <1>1, <1>2, <1>5 DEF Advanced
  <1> HIDE DEF n
  <1> QED
    BY <1>1, <1>6, <1>7, <1>8 DEF n

(* No search leaves the chunks on the left or above.                       *)
LEMMA Within ==
    ASSUME NEW a \in Seq(Byte), NEW b \in Seq(Byte), a # <<>>,
           NEW v, NEW final, Searched(a, b, v, final)
    PROVE  \A d \in 0 .. final : \A k : Advanced(a, b, v, d, k) => At(v, d, k) >= k
  <1> DEFINE S == {d \in 0 .. final : \A k : Advanced(a, b, v, d, k) => At(v, d, k) >= k}
  <1>1. final \in Nat
    BY SearchFacts
  <1>2. 0 \in S
    BY <1>1, FirstSnake
  <1>3. ASSUME NEW d \in 1 .. final, d - 1 \in S PROVE d \in S
    <2>1. ASSUME NEW k, Advanced(a, b, v, d, k) PROVE At(v, d, k) >= k
      <3> DEFINE x == At(v, d, k)
                 up == At(v, d - 1, k + 1)
                 down == At(v, d - 1, k - 1)
                 s == Start(v[d + 1], d, k)
                 n == Snake(a, b, s, s - k)
      <3>1. /\ x = s + n /\ n \in Nat /\ s \in Nat
            /\ (k + 1 \in Diagonals(d - 1) /\ s = up) \/ (k - 1 \in Diagonals(d - 1) /\ s = down + 1)
        BY <2>1, StepBack DEF CameFrom
      <3>2. d - 1 \in 0 .. final - 1 /\ d - 1 \in 0 .. final /\ d \in Nat
        BY <1>1
      <3>3. \A i \in Diagonals(d - 1) : At(v, d - 1, i) >= i /\ At(v, d - 1, i) \in Nat
        BY <1>3, <3>2, SearchFacts
      <3>4. k \in Int
        BY <2>1, <3>2 DEF Advanced, Diagonals
      <3> HIDE DEF S
      <3>5. CASE k + 1 \in Diagonals(d - 1) /\ s = up
        <4>1. up >= k + 1 /\ up \in Nat
          BY <3>3, <3>5
        <4> HIDE DEF x, up, down, s, n
        <4>2. x >= k
          BY <3>1, <3>4, <3>5, <4>1
        <4> QED
          BY <4>2 DEF x
      <3>6. CASE k - 1 \in Diagonals(d - 1) /\ s = down + 1
        <4>1. down >= k - 1 /\ down \in Nat
          BY <3>3, <3>6
        <4> HIDE DEF x, up, down, s, n
        <4>2. x >= k
          BY <3>1, <3>4, <3>6, <4>1
        <4> QED
          BY <4>2 DEF x
      <3> QED
        BY <3>1, <3>5, <3>6
    <2> QED
      BY <1>1, <2>1
  <1> HIDE DEF S
  <1>4. 0 .. final \subseteq S
    BY <1>1, <1>2, <1>3, UpToInduction
  <1> QED
    BY <1>4 DEF S

(* Where a diagonal has gone past the end of a chunk, another one, earlier *)
(* by as much as it has gone too far, had reached that end no later.       *)
PastOld(a, b, v, d, k) ==
    \E j \in 1 .. d : /\ j = At(v, d, k) - Len(a)
                      /\ k - j \in Diagonals(d - j) /\ At(v, d - j, k - j) >= Len(a)

PastNew(a, b, v, d, k) ==
    \E j \in 1 .. d : /\ j = At(v, d, k) - k - Len(b)
                      /\ k + j \in Diagonals(d - j) /\ At(v, d - j, k + j) >= At(v, d, k)

(* A snake never leaves the chunks: past an end there was none.            *)
LEMMA NoSnakePast ==
    ASSUME NEW a \in Seq(Byte), NEW b \in Seq(Byte), a # <<>>,
           NEW v, NEW final, Searched(a, b, v, final),
           NEW d \in 1 .. final, NEW k, Advanced(a, b, v, d, k),
           At(v, d, k) > Len(a) \/ At(v, d, k) - k > Len(b)
    PROVE  /\ k \in Int /\ At(v, d, k) \in Nat
           /\ \/ /\ k + 1 \in Diagonals(d - 1) /\ Advanced(a, b, v, d - 1, k + 1)
                 /\ At(v, d - 1, k + 1) = At(v, d, k)
              \/ /\ k - 1 \in Diagonals(d - 1) /\ Advanced(a, b, v, d - 1, k - 1)
                 /\ At(v, d - 1, k - 1) \in Nat /\ At(v, d, k) = At(v, d - 1, k - 1) + 1
  <1> DEFINE x == At(v, d, k)
             up == At(v, d - 1, k + 1)
             down == At(v, d - 1, k - 1)
             s == Start(v[d + 1], d, k)
             n == Snake(a, b, s, s - k)
  <1>1. /\ x = s + n /\ n \in Nat /\ s \in Nat
        /\ n # 0 => s + n <= Len(a) /\ (s - k) + n <= Len(b)
        /\ (k + 1 \in Diagonals(d - 1) /\ s = up) \/ (k - 1 \in Diagonals(d - 1) /\ s = down + 1)
    BY StepBack DEF CameFrom
  <1>2. /\ d - 1 \in 0 .. final - 1 /\ d - 1 \in 0 .. final /\ d \in Nat
        /\ Len(a) \in Nat /\ Len(b) \in Nat
    BY SearchFacts
  <1>3. \A i \in Diagonals(d - 1) : Advanced(a, b, v, d - 1, i) /\ At(v, d - 1, i) \in Nat
    BY <1>2, SearchFacts
  <1>4. k \in Int
    BY <1>2 DEF Advanced, Diagonals
  <1>5. x > Len(a) \/ x - k > Len(b)
    OBVIOUS
  <1> HIDE DEF x, up, down, s, n
  <1>6. x = s /\ x \in Nat
    BY <1>1, <1>2, <1>4, <1>5
  <1>7. \/ k + 1 \in Diagonals(d - 1) /\ Advanced(a, b, v, d - 1, k + 1) /\ up = x
        \/ /\ k - 1 \in Diagonals(d - 1) /\ Advanced(a, b, v, d - 1, k - 1)
           /\ down \in Nat /\ x = down + 1
    BY <1>1, <1>3, <1>6 DEF up, down
  <1> QED
    BY <1>4, <1>6, <1>7 DEF x, up, down

LEMMA EarlierBy ==
    ASSUME NEW final \in Nat, NEW d \in Nat \ {0}, d - 1 < final, NEW k \in Int,
           NEW i \in 1 .. d - 1
    PROVE  /\ (d - 1) - i \in Nat /\ (d - 1) - i < final /\ (d - 1) - i \in 0 .. final - 1
           /\ ((d - 1) - i) + 1 = d - i /\ d - i \in Nat /\ d - i < final
           /\ i \in 1 .. d /\ i + 1 \in 1 .. d /\ (d - 1) - i = d - (i + 1)
           /\ ((k + 1) - i) - 1 = k - i /\ ((k - 1) + i) + 1 = k + i
           /\ (k - 1) - i = k - (i + 1) /\ (k + 1) + i = k + (i + 1)
  <1>1. i \in Nat /\ 1 <= i /\ i <= d - 1
    OBVIOUS
  <1> DEFINE e == (d - 1) - i
  <1>2. e \in Nat /\ d = (e + i) + 1 /\ e < final
    BY <1>1
  <1>3. d - i = e + 1 /\ e + 1 < final /\ d - (i + 1) = e
    BY <1>1, <1>2
  <1>4. i + 1 <= d /\ i <= d
    BY <1>1
  <1> HIDE DEF e
  <1>5. e \in 0 .. final - 1 /\ e + 1 \in Nat
    BY <1>2
  <1>6. i \in 1 .. d /\ i + 1 \in 1 .. d
    BY <1>1, <1>4
  <1>7. /\ ((k + 1) - i) - 1 = k - i /\ ((k - 1) + i) + 1 = k + i
        /\ (k - 1) - i = k - (i + 1) /\ (k + 1) + i = k + (i + 1)
    BY <1>1
  <1> QED
    BY <1>2, <1>3, <1>5, <1>6, <1>7 DEF e

LEMMA Overshoot ==
    ASSUME NEW a \in Seq(Byte), NEW b \in Seq(Byte), a # <<>>,
           NEW v, NEW final, Searched(a, b, v, final)
    PROVE  \A d \in 0 .. final : \A k : Advanced(a, b, v, d, k) =>
              /\ At(v, d, k) > Len(a) => PastOld(a, b, v, d, k)
              /\ At(v, d, k) - k > Len(b) => PastNew(a, b, v, d, k)
  <1> DEFINE P(d, k) == /\ At(v, d, k) > Len(a) => PastOld(a, b, v, d, k)
                        /\ At(v, d, k) - k > Len(b) => PastNew(a, b, v, d, k)
             S == {d \in 0 .. final : \A k : Advanced(a, b, v, d, k) => P(d, k)}
             N == Len(a)
             M == Len(b)
  <1>1. final \in Nat /\ N \in Nat /\ M \in Nat
    BY SearchFacts
  <1>2. 0 \in S
    <2>1. ASSUME NEW k, Advanced(a, b, v, 0, k) PROVE P(0, k)
      <3> DEFINE x == At(v, 0, k)
      <3>1. k = 0 /\ x \in Nat /\ x <= N /\ x <= M
        BY <2>1, FirstSnake
      <3> HIDE DEF x
      <3>2. ~(x > N) /\ ~(x - k > M)
        BY <1>1, <3>1
      <3> QED
        BY <3>2 DEF x
    <2> QED
      BY <1>1, <2>1
  <1>3. ASSUME NEW d \in 1 .. final, d - 1 \in S PROVE d \in S
    <2>1. d \in Nat \ {0} /\ d - 1 \in Nat /\ d - 1 < final /\ d \in 0 .. final
      BY <1>1
    <2>2. \A i : Advanced(a, b, v, d - 1, i) => P(d - 1, i)
      BY <1>3
    <2> HIDE DEF S
    <2>3. ASSUME NEW k, Advanced(a, b, v, d, k), At(v, d, k) > N
          PROVE  PastOld(a, b, v, d, k)
      <3> DEFINE x == At(v, d, k)
                 up == At(v, d - 1, k + 1)
                 down == At(v, d - 1, k - 1)
                 j == x - N
      <3>1. /\ k \in Int /\ x \in Nat
            /\ \/ k + 1 \in Diagonals(d - 1) /\ Advanced(a, b, v, d - 1, k + 1) /\ up = x
               \/ /\ k - 1 \in Diagonals(d - 1) /\ Advanced(a, b, v, d - 1, k - 1)
                  /\ down \in Nat /\ x = down + 1
        BY <2>3, NoSnakePast
      <3>2. x > N
        BY <2>3
      <3>3. j \in Nat \ {0} /\ x = N + j
        BY <1>1, <3>1, <3>2
      <3>4. SUFFICES j \in 1 .. d /\ k - j \in Diagonals(d - j) /\ At(v, d - j, k - j) >= N
        BY DEF PastOld
      <3>5. CASE k + 1 \in Diagonals(d - 1) /\ Advanced(a, b, v, d - 1, k + 1) /\ up = x
        <4>1. PastOld(a, b, v, d - 1, k + 1)
          BY <2>2, <3>2, <3>5
        <4>2. PICK i \in 1 .. d - 1 : /\ i = up - N
                                      /\ (k + 1) - i \in Diagonals((d - 1) - i)
                                      /\ At(v, (d - 1) - i, (k + 1) - i) >= N
          BY <4>1 DEF PastOld
        <4>3. i = j
          BY <3>5, <4>2
        <4> HIDE DEF x, up, down, j
        <4> DEFINE e == (d - 1) - i
                   m == (k + 1) - i
        <4>4. /\ e \in Nat /\ e < final /\ e + 1 = d - i /\ m - 1 = k - i
              /\ e \in 0 .. final - 1 /\ i \in 1 .. d
              /\ d - i \in Nat /\ d - i < final
          <5>1. k \in Int /\ i \in 1 .. d - 1
            BY <3>1, <4>2
          <5> HIDE DEF P
          <5> QED
            BY <1>1, <2>1, <5>1, EarlierBy
        <4>5. m \in Diagonals(e) /\ At(v, e, m) >= N
          BY <4>2
        <4> HIDE DEF e, m
        <4>6. m - 1 \in Diagonals(e + 1)
          BY <4>4, <4>5, Spread
        <4>7. e + 1 \in 0 .. final - 1 /\ e + 1 \in 0 .. final /\ e \in 0 .. final
          BY <1>1, <4>4
        <4>8. Advanced(a, b, v, e + 1, m - 1)
          BY <4>6, <4>7, SearchFacts
        <4>9. At(v, e + 1, m - 1) >= At(v, e, m)
          BY <4>4, <4>5, <4>8, Onward
        <4>10. At(v, e + 1, m - 1) \in Nat /\ At(v, e, m) \in Nat
          BY <4>5, <4>6, <4>7, SearchFacts
        <4>11. At(v, e + 1, m - 1) >= N
          BY <1>1, <4>5, <4>9, <4>10
        <4> QED
          BY <4>3, <4>4, <4>6, <4>11
      <3>6. CASE /\ k - 1 \in Diagonals(d - 1) /\ Advanced(a, b, v, d - 1, k - 1)
                 /\ down \in Nat /\ x = down + 1
        <4>1. CASE j = 1
          <5>1. down >= N
            <6> HIDE DEF x, down, j
            <6> QED
              BY <1>1, <3>3, <3>6, <4>1
          <5> HIDE DEF j
          <5> QED
            BY <2>1, <3>6, <4>1, <5>1
        <4>2. CASE j # 1
          <5>1. down > N /\ (j - 1) + 1 = j /\ j - 1 = down - N
            <6> HIDE DEF x, down, j
            <6> QED
              BY <1>1, <3>3, <3>6, <4>2
          <5>2. PastOld(a, b, v, d - 1, k - 1)
            BY <2>2, <3>6, <5>1
          <5>3. PICK i \in 1 .. d - 1 : /\ i = down - N
                                        /\ (k - 1) - i \in Diagonals((d - 1) - i)
                                        /\ At(v, (d - 1) - i, (k - 1) - i) >= N
            BY <5>2 DEF PastOld
          <5>4. i + 1 = j
            BY <5>1, <5>3
          <5>5. k \in Int
            BY <3>1
          <5> HIDE DEF x, down, j, P
          <5>6. i + 1 \in 1 .. d /\ (d - 1) - i = d - (i + 1) /\ (k - 1) - i = k - (i + 1)
            BY SMTT(60), <1>1, <2>1, <5>3, <5>5, EarlierBy
          <5> QED
            BY <5>3, <5>4, <5>6
        <4> QED
          BY <4>1, <4>2
      <3> QED
        BY <3>1, <3>5, <3>6
    <2>4. ASSUME NEW k, Advanced(a, b, v, d, k), At(v, d, k) - k > M
          PROVE  PastNew(a, b, v, d, k)
      <3> DEFINE x == At(v, d, k)
                 up == At(v, d - 1, k + 1)
                 down == At(v, d - 1, k - 1)
                 j == x - k - M
      <3>1. /\ k \in Int /\ x \in Nat
            /\ \/ k + 1 \in Diagonals(d - 1) /\ Advanced(a, b, v, d - 1, k + 1) /\ up = x
               \/ /\ k - 1 \in Diagonals(d - 1) /\ Advanced(a, b, v, d - 1, k - 1)
                  /\ down \in Nat /\ x = down + 1
        BY <2>4, NoSnakePast
      <3>2. x - k > M
        BY <2>4
      <3>3. j \in Nat \ {0} /\ x = (M + k) + j
        BY SMTT(60), <1>1, <3>1, <3>2
      <3>4. SUFFICES j \in 1 .. d /\ k + j \in Diagonals(d - j) /\ At(v, d - j, k + j) >= x
        BY DEF PastNew
      <3>5. CASE k + 1 \in Diagonals(d - 1) /\ Advanced(a, b, v, d - 1, k + 1) /\ up = x
        <4>1. CASE j = 1
          <5>1. up >= x
            BY <3>1, <3>5
          <5> HIDE DEF j
          <5> QED
            BY <2>1, <3>5, <4>1, <5>1
        <4>2. CASE j # 1
          <5>1. up - (k + 1) > M /\ (j - 1) + 1 = j /\ j - 1 = up - (k + 1) - M
            <6> HIDE DEF x, up, j
            <6> QED
              BY <1>1, <3>1, <3>3, <3>5, <4>2
          <5>2. PastNew(a, b, v, d - 1, k + 1)
            BY <2>2, <3>5, <5>1
          <5>3. PICK i \in 1 .. d - 1 : /\ i = up - (k + 1) - M
                                        /\ (k + 1) + i \in Diagonals((d - 1) - i)
                                        /\ At(v, (d - 1) - i, (k + 1) + i) >= up
            BY <5>2 DEF PastNew
          <5>4. i + 1 = j
            BY <5>1, <5>3
          <5>5. k \in Int
            BY <3>1
          <5> HIDE DEF x, up, j, P
          <5>6. i + 1 \in 1 .. d /\ (d - 1) - i = d - (i + 1) /\ (k + 1) + i = k + (i + 1)
            BY SMTT(60), <1>1, <2>1, <5>3, <5>5, EarlierBy
          <5> QED
            BY <3>5, <5>3, <5>4, <5>6
        <4> QED
          BY <4>1, <4>2
      <3>6. CASE /\ k - 1 \in Diagonals(d - 1) /\ Advanced(a, b, v, d - 1, k - 1)
                 /\ down \in Nat /\ x = down + 1
        <4>1. down - (k - 1) > M
          <5> HIDE DEF x, down, j
          <5> QED
            BY <1>1, <3>1, <3>2, <3>6
        <4>2. PastNew(a, b, v, d - 1, k - 1)
          BY <2>2, <3>6, <4>1
        <4>3. PICK i \in 1 .. d - 1 : /\ i = down - (k - 1) - M
                                      /\ (k - 1) + i \in Diagonals((d - 1) - i)
                                      /\ At(v, (d - 1) - i, (k - 1) + i) >= down
          BY <4>2 DEF PastNew
        <4> HIDE DEF x, up, down
        <4>4. i = j
          BY <1>1, <3>1, <3>6, <4>3
        <4> HIDE DEF j
        <4> DEFINE e == (d - 1) - i
                   m == (k - 1) + i
        <4>5. /\ e \in Nat /\ e < final /\ e + 1 = d - i /\ m + 1 = k + i
              /\ e \in 0 .. final - 1 /\ i \in 1 .. d
              /\ d - i \in Nat /\ d - i < final
          <5>1. k \in Int /\ i \in 1 .. d - 1
            BY <3>1, <4>3
          <5> HIDE DEF P
          <5> QED
            BY <1>1, <2>1, <5>1, EarlierBy
        <4>6. m \in Diagonals(e) /\ At(v, e, m) >= down
          BY <4>3
        <4> HIDE DEF e, m
        <4>7. m + 1 \in Diagonals(e + 1)
          BY <4>5, <4>6, Spread
        <4>8. e + 1 \in 0 .. final - 1 /\ e + 1 \in 0 .. final /\ e \in 0 .. final
          BY <1>1, <4>5
        <4>9. Advanced(a, b, v, e + 1, m + 1)
          BY <4>7, <4>8, SearchFacts
        <4>10. At(v, e + 1, m + 1) >= At(v, e, m) + 1
          BY <4>5, <4>6, <4>9, Onward
        <4>11. At(v, e + 1, m + 1) \in Nat /\ At(v, e, m) \in Nat
          BY <4>6, <4>7, <4>8, SearchFacts
        <4>12. At(v, e + 1, m + 1) >= x
          BY <3>6, <4>6, <4>10, <4>11
        <4> QED
          BY <4>4, <4>5, <4>7, <4>12
      <3> QED
        BY <3>1, <3>5, <3>6
    <2>5. \A k : Advanced(a, b, v, d, k) => P(d, k)
      BY <2>3, <2>4
    <2> QED
      BY <2>1, <2>5 DEF S
  <1> HIDE DEF S
  <1>4. 0 .. final \subseteq S
    BY <1>1, <1>2, <1>3, UpToInduction
  <1> QED
    BY <1>4 DEF S

(* The search ends in the corner: had it gone past an end, an earlier      *)
(* distance would have reached both ends.                                  *)
LEMMA EndsInCorner ==
    ASSUME NEW a \in Seq(Byte), NEW b \in Seq(Byte), a # <<>>,
           NEW v, NEW final, Searched(a, b, v, final),
           NEW k, Advanced(a, b, v, final, k), AtEnd(a, b, At(v, final, k), k)
    PROVE  At(v, final, k) = Len(a) /\ k = Len(a) - Len(b)
  <1> DEFINE x == At(v, final, k)
             N == Len(a)
             M == Len(b)
  <1>1. final \in Nat /\ N \in Nat /\ M \in Nat
    BY SearchFacts
  <1>2. final \in 0 .. final
    BY <1>1
  <1>3. x \in Nat /\ k \in Int
    BY <1>1, <1>2, SearchFacts DEF Advanced, Diagonals
  <1>4. x >= N /\ x - k >= M
    BY DEF AtEnd
  <1>5. /\ x > N => PastOld(a, b, v, final, k)
        /\ x - k > M => PastNew(a, b, v, final, k)
    BY <1>2, Overshoot
  <1>6. \A d \in 0 .. final - 1 : \A i \in Diagonals(d) :
           /\ At(v, d, i) \in Nat /\ i \in Int
           /\ ~(At(v, d, i) >= N /\ At(v, d, i) - i >= M)
    <2>1. ASSUME NEW d \in 0 .. final - 1, NEW i \in Diagonals(d)
          PROVE  /\ At(v, d, i) \in Nat /\ i \in Int
                 /\ ~(At(v, d, i) >= N /\ At(v, d, i) - i >= M)
      <3>1. d \in 0 .. final /\ d \in Nat
        BY <1>1
      <3>2. ~AtEnd(a, b, At(v, d, i), i)
        BY SearchFacts
      <3> QED
        BY <3>1, <3>2, SearchFacts, Spread DEF AtEnd
    <2> QED
      BY <2>1
  <1> HIDE DEF x, N, M
  <1>7. ASSUME x > N PROVE FALSE
    <2>1. PICK j \in 1 .. final : /\ j = x - N /\ k - j \in Diagonals(final - j)
                                  /\ At(v, final - j, k - j) >= N
      BY <1>5, <1>7 DEF PastOld, x, N
    <2> DEFINE z == At(v, final - j, k - j)
    <2>2. final - j \in 0 .. final - 1
      BY <1>1
    <2>3. z \in Nat /\ ~(z >= N /\ z - (k - j) >= M)
      BY <1>6, <2>1, <2>2
    <2> HIDE DEF z
    <2>4. z >= N
      BY <2>1 DEF z
    <2> QED
      BY <1>1, <1>3, <1>4, <2>1, <2>3, <2>4
  <1>8. ASSUME x - k > M PROVE FALSE
    <2>1. PICK j \in 1 .. final : /\ j = x - k - M /\ k + j \in Diagonals(final - j)
                                  /\ At(v, final - j, k + j) >= x
      BY <1>5, <1>8 DEF PastNew, x, M
    <2> DEFINE z == At(v, final - j, k + j)
    <2>2. final - j \in 0 .. final - 1
      BY <1>1
    <2>3. z \in Nat /\ ~(z >= N /\ z - (k + j) >= M)
      BY <1>6, <2>1, <2>2
    <2> HIDE DEF z
    <2>4. z >= x
      BY <2>1 DEF z
    <2> QED
      BY <1>1, <1>3, <1>4, <2>1, <2>3, <2>4
  <1>9. x = N /\ k = N - M
    BY <1>1, <1>3, <1>4, <1>7, <1>8
  <1> QED
    BY <1>9 DEF x, N, M

-----------------------------------------------------------------------------
(* The same edit over and over again.                                      *)

Ahead(e, p, m) == <<p[1] + (IF e = 1 THEN 0 ELSE m), p[2] + (IF e = -1 THEN 0 ELSE m)>>

LEMMA Repeated ==
    ASSUME NEW a \in Seq(Byte), NEW b \in Seq(Byte), NEW e \in Edits, NEW p \in Point,
           NEW m \in Nat, Ahead(e, p, m)[1] <= Len(a), Ahead(e, p, m)[2] <= Len(b),
           e = 0 => Same(a, b, p, m), NEW es, es = [j \in 1 .. m |-> e]
    PROVE  es \in Seq(Edits) /\ Linked(EditSteps(a, b), es, p, Ahead(e, p, m))
  <1> DEFINE x == p[1]
             y == p[2]
             ps == [j \in 0 .. m |-> Ahead(e, p, j)]
             N == Len(a)
             M == Len(b)
  <1>1. x \in Nat /\ y \in Nat /\ p = <<x, y>> /\ N \in Nat /\ M \in Nat
    BY LenProperties DEF Point
  <1>2. es \in Seq(Edits) /\ Len(es) = m
    BY IsASeq
  <1>3. /\ x + (IF e = 1 THEN 0 ELSE m) <= N
        /\ y + (IF e = -1 THEN 0 ELSE m) <= M
        /\ e = 0 => \A j \in 1 .. m : a[x + j] = b[y + j]
    BY DEF Ahead, Same
  <1>4. \A j \in 0 .. m : /\ Ahead(e, p, j) \in Point
                          /\ Ahead(e, p, j)[1] = x + (IF e = 1 THEN 0 ELSE j)
                          /\ Ahead(e, p, j)[2] = y + (IF e = -1 THEN 0 ELSE j)
    BY <1>1 DEF Ahead, Point
  <1>5. ps \in [0 .. m -> Point] /\ \A j \in 0 .. m : ps[j] = Ahead(e, p, j)
    BY <1>4
  <1>6. ps[0] = p /\ ps[m] = Ahead(e, p, m)
    <2>1. Ahead(e, p, 0) = p
      BY <1>1 DEF Ahead
    <2> QED
      BY <1>5, <2>1
  <1>7. \A j \in 1 .. m : es[j] = e
    OBVIOUS
  <1> HIDE DEF x, y, ps, N, M
  <1>8. ASSUME NEW j \in 1 .. m PROVE <<es[j], ps[j - 1], ps[j]>> \in EditSteps(a, b)
    <2>1. j \in 0 .. m /\ j - 1 \in 0 .. m /\ j \in Nat /\ j <= m
      OBVIOUS
    <2> DEFINE q == ps[j - 1]
               r == ps[j]
    <2>2. /\ q \in Point /\ q[1] = x + (IF e = 1 THEN 0 ELSE j - 1)
          /\ q[2] = y + (IF e = -1 THEN 0 ELSE j - 1)
          /\ r \in Point /\ r[1] = x + (IF e = 1 THEN 0 ELSE j)
          /\ r[2] = y + (IF e = -1 THEN 0 ELSE j)
      BY <1>4, <1>5, <2>1
    <2> HIDE DEF q, r
    <2>3. r[1] = q[1] + (IF e = 1 THEN 0 ELSE 1) /\ r[1] <= N
      BY <1>1, <1>3, <2>1, <2>2
    <2>4. r[2] = q[2] + (IF e = -1 THEN 0 ELSE 1) /\ r[2] <= M
      BY <1>1, <1>3, <2>1, <2>2
    <2>5. e = 0 => a[r[1]] = b[r[2]]
      BY <1>3, <2>2
    <2>6. Passes(a, b, e, q, r)
      BY <2>3, <2>4, <2>5 DEF Passes, N, M
    <2> QED
      BY <1>7, <2>2, <2>6, EditStep DEF q, r
  <1>9. Along(EditSteps(a, b), es, ps, p, Ahead(e, p, m))
    BY <1>2, <1>5, <1>6, <1>8 DEF Along
  <1> QED
    BY <1>2, <1>5, <1>9 DEF Linked

LEMMA ZerosLinked ==
    ASSUME NEW a \in Seq(Byte), NEW b \in Seq(Byte), NEW p \in Point,
           NEW m \in Nat, Same(a, b, p, m)
    PROVE  /\ Zeros(m) \in Seq(Edits)
           /\ Linked(EditSteps(a, b), Zeros(m), p, <<p[1] + m, p[2] + m>>)
  <1>1. Ahead(0, p, m) = <<p[1] + m, p[2] + m>>
    BY DEF Ahead
  <1>2. p[1] + m <= Len(a) /\ p[2] + m <= Len(b)
    BY DEF Same
  <1>3. Zeros(m) = [j \in 1 .. m |-> 0] /\ 0 \in Edits
    BY DEF Zeros, Edits
  <1>4. Ahead(0, p, m)[1] <= Len(a) /\ Ahead(0, p, m)[2] <= Len(b)
    BY <1>1, <1>2
  <1>5. Zeros(m) \in Seq(Edits) /\ Linked(EditSteps(a, b), Zeros(m), p, Ahead(0, p, m))
    BY <1>3, <1>4, Repeated
  <1> QED
    BY <1>1, <1>5

-----------------------------------------------------------------------------
(* The way back from the corner.                                           *)

Corner(a, b) == [x |-> Len(a), y |-> Len(b), ses |-> <<>>]

Descending(final) == [j \in 1 .. final |-> final + 1 - j]

(* What FoldLeft iterates over the first n distances of ds.                *)
Retraces(it, a, b, v, ds, n) ==
    it = [s \in SUBSET (1 .. n) |->
             IF s = {} THEN Corner(a, b)
             ELSE Retrace(v[ds[Max(s)] + 1], it[s \ {Max(s)}], ds[Max(s)])]

LEMMA RetracesExist ==
    ASSUME NEW a, NEW b, NEW v, NEW ds, NEW n \in Nat
    PROVE  \E it : Retraces(it, a, b, v, ds, n)
  <1> DEFINE P(k) == \E it : Retraces(it, a, b, v, ds, k)
             S == {k \in Nat : P(k)}
  <1>1. P(0)
    <2> DEFINE it == [s \in SUBSET (1 .. 0) |-> Corner(a, b)]
    <2>1. SUBSET (1 .. 0) = {{}}
      OBVIOUS
    <2>2. Retraces(it, a, b, v, ds, 0)
      BY <2>1 DEF Retraces
    <2> QED
      BY <2>2
  <1>2. ASSUME NEW k \in Nat, P(k) PROVE P(k + 1)
    <2>1. PICK it : Retraces(it, a, b, v, ds, k)
      BY <1>2
    <2> DEFINE nx == [s \in SUBSET (1 .. k) |-> Retrace(v[ds[k + 1] + 1], it[s], ds[k + 1])]
               jt == OneMore(it, nx, k)
    <2>2. Prolonged(jt, it, nx, k)
      BY GrowsByOne
    <2>3. jt = [s \in SUBSET (1 .. k + 1) |-> jt[s]] /\ jt[{}] = it[{}]
      BY DEF OneMore
    <2>4. it[{}] = Corner(a, b)
      BY <2>1 DEF Retraces
    <2>5. \A s \in SUBSET (1 .. k) : nx[s] = Retrace(v[ds[k + 1] + 1], it[s], ds[k + 1])
      OBVIOUS
    <2> HIDE DEF jt, nx
    <2>6. ASSUME NEW s \in SUBSET (1 .. k + 1)
          PROVE  jt[s] = IF s = {} THEN Corner(a, b)
                         ELSE Retrace(v[ds[Max(s)] + 1], jt[s \ {Max(s)}], ds[Max(s)])
      <3>1. CASE s = {}
        BY <2>3, <2>4, <3>1
      <3>2. CASE s # {}
        <4>1. \/ /\ Max(s) = k + 1 /\ s \ {Max(s)} \in SUBSET (1 .. k)
                 /\ jt[s \ {Max(s)}] = it[s \ {Max(s)}] /\ jt[s] = nx[s \ {Max(s)}]
              \/ /\ s \in SUBSET (1 .. k) /\ Max(s) \in 1 .. k
                 /\ jt[s \ {Max(s)}] = it[s \ {Max(s)}] /\ jt[s] = it[s]
          BY <2>2, <3>2 DEF Prolonged
        <4>2. CASE /\ Max(s) = k + 1 /\ s \ {Max(s)} \in SUBSET (1 .. k)
                   /\ jt[s \ {Max(s)}] = it[s \ {Max(s)}] /\ jt[s] = nx[s \ {Max(s)}]
          BY <2>5, <3>2, <4>2
        <4>3. CASE /\ s \in SUBSET (1 .. k) /\ Max(s) \in 1 .. k
                   /\ jt[s \ {Max(s)}] = it[s \ {Max(s)}] /\ jt[s] = it[s]
          <5>1. it[s] = Retrace(v[ds[Max(s)] + 1], it[s \ {Max(s)}], ds[Max(s)])
            BY <2>1, <3>2, <4>3 DEF Retraces
          <5> QED
            BY <3>2, <4>3, <5>1
        <4> QED
          BY <4>1, <4>2, <4>3, Zenon
      <3> QED
        BY <3>1, <3>2
    <2>7. Retraces(jt, a, b, v, ds, k + 1)
      BY <2>3, <2>6 DEF Retraces
    <2> QED
      BY <2>7, Zenon
  <1> HIDE DEF P
  <1>3. 0 \in S /\ \A k \in Nat : k \in S => k + 1 \in S
    BY <1>1, <1>2
  <1> HIDE DEF S
  <1>4. n \in S
    BY <1>3, SetInduction
  <1> QED
    BY <1>4 DEF S, P

(* The script of a way back that has reached first.                        *)
WholeScript(first) == Zeros(Max({0, Min({first.x, first.y})})) \o first.ses

LEMMA RetracesChosen ==
    ASSUME NEW a, NEW b, NEW final, NEW n, DOMAIN Descending(final) = 1 .. n,
           NEW it, Retraces(it, a, b, Frontiers(a, b), Descending(final), n)
    PROVE  \E jt : /\ Retraces(jt, a, b, Frontiers(a, b), Descending(final), n)
                   /\ Backtrack(a, b, final) = WholeScript(jt[1 .. n])
  BY ZenonT(60) DEF Backtrack, FoldLeft, MapThenFoldSet, Retraces, Descending, Corner, WholeScript

(* The values of the fold: the way back after n distances.                 *)
RetraceSteps(acc, a, b, v, n) ==
    /\ acc[0] = Corner(a, b)
    /\ \A k \in 1 .. n : acc[k] = Retrace(v[(n + 1 - k) + 1], acc[k - 1], n + 1 - k)

LEMMA BacktrackFold ==
    ASSUME NEW a, NEW b, NEW final \in Nat
    PROVE  \E acc : /\ RetraceSteps(acc, a, b, Frontiers(a, b), final)
                    /\ Backtrack(a, b, final) = WholeScript(acc[final])
  <1> DEFINE v == Frontiers(a, b)
             ds == Descending(final)
  <1>1. DOMAIN ds = 1 .. final /\ \A k \in 1 .. final : ds[k] = final + 1 - k
    BY DEF Descending
  <1> HIDE DEF v, ds
  <1>2. PICK it : /\ Retraces(it, a, b, v, ds, final)
                  /\ Backtrack(a, b, final) = WholeScript(it[1 .. final])
    <2>1. PICK jt : Retraces(jt, a, b, v, ds, final)
      BY RetracesExist
    <2>2. DOMAIN Descending(final) = 1 .. final
      BY <1>1 DEF ds
    <2>3. Retraces(jt, a, b, Frontiers(a, b), Descending(final), final)
      BY <2>1 DEF ds, v
    <2>4. \E it : /\ Retraces(it, a, b, Frontiers(a, b), Descending(final), final)
                  /\ Backtrack(a, b, final) = WholeScript(it[1 .. final])
      BY <2>2, <2>3, RetracesChosen
    <2> QED
      BY <2>4 DEF ds, v
  <1> DEFINE acc == [k \in 0 .. final |-> it[1 .. k]]
  <1>3. acc[0] = Corner(a, b)
    <2>1. 1 .. 0 = {} /\ 0 \in 0 .. final
      OBVIOUS
    <2>2. it[{}] = Corner(a, b)
      BY <1>2 DEF Retraces
    <2> QED
      BY <2>1, <2>2
  <1>4. ASSUME NEW k \in 1 .. final
        PROVE  acc[k] = Retrace(v[(final + 1 - k) + 1], acc[k - 1], final + 1 - k)
    <2>1. /\ 1 .. k \in SUBSET (1 .. final) /\ 1 .. k # {}
          /\ Max(1 .. k) = k /\ (1 .. k) \ {Max(1 .. k)} = 1 .. k - 1
      BY FoldPositions
    <2>2. it[1 .. k] = Retrace(v[ds[Max(1 .. k)] + 1], it[(1 .. k) \ {Max(1 .. k)}],
                               ds[Max(1 .. k)])
      BY <1>2, <2>1 DEF Retraces
    <2>3. acc[k] = it[1 .. k] /\ acc[k - 1] = it[1 .. k - 1]
      OBVIOUS
    <2> HIDE DEF acc
    <2> QED
      BY <1>1, <2>1, <2>2, <2>3
  <1>5. acc[final] = it[1 .. final]
    OBVIOUS
  <1> HIDE DEF acc
  <1>6. RetraceSteps(acc, a, b, v, final)
    BY <1>3, <1>4 DEF RetraceSteps
  <1> QED
    BY <1>2, <1>5, <1>6 DEF v

(* Back at distance d, the script leads from there to the corner.          *)
Retraced(a, b, v, d, s) ==
    /\ s \in [x : Nat, y : Nat, ses : Seq(Edits)]
    /\ s.x <= Len(a) /\ s.y <= Len(b)
    /\ Advanced(a, b, v, d, s.x - s.y) /\ At(v, d, s.x - s.y) = s.x
    /\ Linked(EditSteps(a, b), s.ses, <<s.x, s.y>>, <<Len(a), Len(b)>>)

LEMMA SnakeLength ==
    ASSUME NEW n \in Nat, NEW dx \in Nat, NEW dy \in Nat, dx + dy = 1
    PROVE  Max({0, Min({n + dx, n + dy})}) = n
  <1>1. Min({n + dx, n + dy}) = n
    <2>1. Min({n + dx, n + dy}) = IF n + dx <= n + dy THEN n + dx ELSE n + dy
      BY MinOfTwo
    <2> QED
      BY <2>1
  <1>2. Max({0, n}) = n
    <2>1. {0, n} \in SUBSET (0 .. n) /\ {0, n} # {}
      OBVIOUS
    <2>2. Max({0, n}) \in {0, n} /\ \A x \in {0, n} : Max({0, n}) >= x
      BY <2>1, MaxBounded
    <2> QED
      BY <2>2
  <1> QED
    BY <1>1, <1>2

(* One edit and n equal bytes, backwards: dx is 1 for a deletion, dy for   *)
(* an insertion.                                                           *)
LEMMA WayBack ==
    ASSUME NEW x \in Nat, NEW y \in Nat, NEW n \in Nat, NEW px \in Nat, NEW prev \in Int,
           NEW dx \in Nat, NEW dy \in Nat, dx + dy = 1, prev = (x - y) + dy - dx,
           NEW from \in Nat, from = px + dx, x = from + n, px >= prev
    PROVE  /\ x - px = n + dx /\ y - (px - prev) = n + dy
           /\ x - n - dx = px /\ y - n - dy = px - prev
           /\ px - prev \in Nat /\ from - (x - y) \in Nat
           /\ (from - (x - y)) + n = y /\ from - (x - y) = (px - prev) + dy
           /\ px - (px - prev) = prev
  <1>1. x - px = n + dx /\ x - n - dx = px /\ px - prev \in Nat /\ px - (px - prev) = prev
    OBVIOUS
  <1>2. y - (px - prev) = n + dy /\ y - n - dy = px - prev
    OBVIOUS
  <1>3. from - (x - y) = (px - prev) + dy /\ (from - (x - y)) + n = y
    OBVIOUS
  <1>4. from - (x - y) \in Nat
    BY <1>1, <1>3
  <1> QED
    BY <1>1, <1>2, <1>3, <1>4

LEMMA RetracedStep ==
    ASSUME NEW a \in Seq(Byte), NEW b \in Seq(Byte), a # <<>>,
           NEW v, NEW final, Searched(a, b, v, final),
           NEW d \in 1 .. final, NEW s, Retraced(a, b, v, d, s)
    PROVE  Retraced(a, b, v, d - 1, Retrace(v[d + 1], s, d))
  <1> DEFINE x == s.x
             y == s.y
             k == x - y
             above == FromAbove(v[d + 1], d, k)
             prev == IF above THEN k + 1 ELSE k - 1
             px == v[d + 1][prev]
             edit == IF above THEN 1 ELSE -1
             from == Start(v[d + 1], d, k)
             n == Snake(a, b, from, from - k)
             dx == IF above THEN 0 ELSE 1
             dy == IF above THEN 1 ELSE 0
             snake == Max({0, Min({x - px, y - (px - prev)})})
             nx == x - snake - dx
             ny == y - snake - dy
             nses == <<edit>> \o Zeros(snake) \o s.ses
             R == EditSteps(a, b)
             N == Len(a)
             M == Len(b)
  <1>1. /\ final \in Nat /\ N \in Nat /\ M \in Nat /\ d \in Nat
        /\ d - 1 \in 0 .. final - 1 /\ d - 1 \in 0 .. final /\ (d - 1) + 2 = d + 1
    BY SearchFacts
  <1>2. /\ x \in Nat /\ y \in Nat /\ s.ses \in Seq(Edits) /\ x <= N /\ y <= M
        /\ Advanced(a, b, v, d, k) /\ At(v, d, k) = x
        /\ Linked(R, s.ses, <<x, y>>, <<N, M>>)
    BY DEF Retraced
  <1>3. Retrace(v[d + 1], s, d) = [x |-> nx, y |-> ny, ses |-> nses]
    BY DEF Retrace
  <1>4. /\ x = from + n /\ n \in Nat /\ from \in Nat
        /\ \A j \in 1 .. n : a[from + j] = b[(from - k) + j]
        /\ prev \in Diagonals(d - 1) /\ px = At(v, d - 1, prev)
        /\ from = px + dx
    <2>1. CameFrom(a, b, v, d, k)
      BY <1>2, StepBack
    <2>2. /\ x = from + n /\ n \in Nat /\ from \in Nat
          /\ \A j \in 1 .. n : a[from + j] = b[(from - k) + j]
          /\ \/ above /\ k + 1 \in Diagonals(d - 1) /\ from = At(v, d - 1, k + 1)
             \/ ~above /\ k - 1 \in Diagonals(d - 1) /\ from = At(v, d - 1, k - 1) + 1
      BY <1>2, <2>1 DEF CameFrom
    <2>3. px = At(v, d - 1, prev)
      BY <1>1 DEF At
    <2> HIDE DEF from, n, above, px
    <2>4. CASE above
      <3>1. from = px /\ from + 0 = from /\ prev \in Diagonals(d - 1)
        BY <2>2, <2>3, <2>4
      <3> QED
        BY <2>2, <2>3, <2>4, <3>1
    <2>5. CASE ~above
      BY <2>2, <2>3, <2>5
    <2> QED
      BY <2>4, <2>5
  <1>5. /\ px \in Nat /\ px >= prev /\ prev \in Int
        /\ Advanced(a, b, v, d - 1, prev)
    <2> HIDE DEF prev, px
    <2>1. Advanced(a, b, v, d - 1, prev) /\ At(v, d - 1, prev) \in Nat
      BY <1>1, <1>4, SearchFacts
    <2>2. At(v, d - 1, prev) >= prev
      BY <1>1, <2>1, Within
    <2>3. d - 1 \in Nat
      BY <1>1
    <2>4. prev \in Int
      BY <1>4, <2>3, Spread
    <2> QED
      BY <1>4, <2>1, <2>2, <2>4
  <1>6. /\ dx \in Nat /\ dy \in Nat /\ dx + dy = 1 /\ prev = (x - y) + dy - dx
        /\ edit \in Edits /\ (edit = 1 <=> dx = 0) /\ (edit = -1 <=> dy = 0)
    <2> HIDE DEF x, y
    <2>1. CASE above
      <3>1. dx = 0 /\ dy = 1 /\ edit = 1 /\ prev = (x - y) + 1
        BY <2>1
      <3>2. x - y \in Int
        BY <1>2
      <3> HIDE DEF dx, dy, edit, prev
      <3> QED
        BY <3>1, <3>2 DEF Edits
    <2>2. CASE ~above
      <3>1. dx = 1 /\ dy = 0 /\ edit = -1 /\ prev = (x - y) - 1
        BY <2>2
      <3>2. x - y \in Int
        BY <1>2
      <3> HIDE DEF dx, dy, edit, prev
      <3> QED
        BY <3>1, <3>2 DEF Edits
    <2> QED
      BY <2>1, <2>2
  <1> HIDE DEF from, n, px, prev, dx, dy, edit, above, x, y
  <1> DEFINE fy == from - k
  <1>7. /\ x - px = n + dx /\ y - (px - prev) = n + dy
        /\ x - n - dx = px /\ y - n - dy = px - prev
        /\ px - prev \in Nat /\ fy \in Nat /\ fy + n = y /\ fy = (px - prev) + dy
        /\ px - (px - prev) = prev
    <2>1. /\ x \in Nat /\ y \in Nat /\ n \in Nat /\ px \in Nat /\ prev \in Int
          /\ from \in Nat /\ from = px + dx /\ x = from + n /\ px >= prev
      BY <1>2, <1>4, <1>5
    <2>2. /\ x - px = n + dx /\ y - (px - prev) = n + dy
          /\ x - n - dx = px /\ y - n - dy = px - prev
          /\ px - prev \in Nat /\ from - (x - y) \in Nat
          /\ (from - (x - y)) + n = y /\ from - (x - y) = (px - prev) + dy
          /\ px - (px - prev) = prev
      BY <1>6, <2>1, WayBack
    <2> QED
      BY <2>2
  <1>8. snake = n
    <2>1. n \in Nat /\ dx \in Nat /\ dy \in Nat /\ dx + dy = 1
      BY <1>4, <1>6
    <2>2. Max({0, Min({n + dx, n + dy})}) = n
      BY <2>1, SnakeLength
    <2>3. snake = Max({0, Min({n + dx, n + dy})})
      BY <1>7
    <2> QED
      BY <2>2, <2>3
  <1>9. nx = px /\ ny = px - prev
    <2> HIDE DEF snake
    <2> QED
      BY <1>7, <1>8
  <1>10. \A j \in 1 .. n : a[from + j] = b[fy + j]
    BY <1>4
  <1> HIDE DEF fy, k, nx, ny, N, M
  <1>11. nx \in Nat /\ ny \in Nat /\ nx - ny = prev
    BY <1>5, <1>7, <1>9
  <1>12. /\ nx <= N /\ ny <= M /\ from <= N /\ fy <= M
         /\ from = nx + dx /\ fy = ny + dy
    <2>1. from = nx + dx /\ fy = ny + dy
      BY <1>4, <1>7, <1>9
    <2>2. from <= x /\ fy <= y /\ from \in Nat /\ fy \in Nat
      <3>1. x = from + n /\ n \in Nat /\ from \in Nat
        BY <1>4
      <3>2. fy + n = y /\ fy \in Nat
        BY <1>7
      <3> QED
        BY <3>1, <3>2
    <2>3. dx \in Nat /\ dy \in Nat
      BY <1>6
    <2>4. x \in Nat /\ y \in Nat /\ x <= N /\ y <= M
      BY <1>2
    <2>5. from <= N /\ fy <= M
      BY <1>1, <2>2, <2>4
    <2> QED
      BY <1>1, <1>11, <2>1, <2>2, <2>3, <2>5
  <1>13. /\ Zeros(n) \in Seq(Edits)
         /\ Linked(R, Zeros(n), <<from, fy>>, <<x, y>>)
    <2>1. <<from, fy>> \in Point
      BY <1>4, <1>7 DEF Point
    <2>2. Same(a, b, <<from, fy>>, n)
      BY <1>2, <1>4, <1>7, <1>10 DEF Same, N, M
    <2>3. <<from + n, fy + n>> = <<x, y>>
      BY <1>4, <1>7
    <2> HIDE DEF R
    <2> QED
      BY <1>4, <2>1, <2>2, <2>3, ZerosLinked DEF R
  <1>14. Linked(R, <<edit>>, <<nx, ny>>, <<from, fy>>)
    <2>1. <<from, fy>> \in Point /\ <<nx, ny>> \in Point
      BY <1>4, <1>7, <1>11 DEF Point
    <2>2. Passes(a, b, edit, <<nx, ny>>, <<from, fy>>)
      <3> DEFINE p == <<nx, ny>>
                 q == <<from, fy>>
      <3>1. p[1] = nx /\ p[2] = ny /\ q[1] = from /\ q[2] = fy
        OBVIOUS
      <3>2. /\ dx = IF edit = 1 THEN 0 ELSE 1
            /\ dy = IF edit = -1 THEN 0 ELSE 1
            /\ edit # 0
        <4>1. edit = 1 \/ edit = -1
          BY <1>6 DEF Edits
        <4> QED
          BY <1>6, <4>1
      <3> HIDE DEF p, q
      <3>3. Passes(a, b, edit, p, q)
        BY <1>12, <3>1, <3>2 DEF Passes, N, M
      <3> QED
        BY <3>3 DEF p, q
    <2>3. <<edit, <<nx, ny>>, <<from, fy>>>> \in R
      BY <1>6, <2>1, <2>2, EditStep
    <2> HIDE DEF R
    <2> QED
      BY <2>1, <2>3, LinkedOne
  <1> HIDE DEF R
  <1>15. nses \in Seq(Edits) /\ Linked(R, nses, <<nx, ny>>, <<N, M>>)
    <2> DEFINE zs == Zeros(n)
               head == <<edit>> \o zs
    <2>1. <<edit>> \in Seq(Edits)
      BY <1>6
    <2>2. zs \in Seq(Edits)
      BY <1>13
    <2>3. head \in Seq(Edits)
      BY <2>1, <2>2, ConcatProperties
    <2>4. Linked(R, head, <<nx, ny>>, <<x, y>>)
      BY <1>13, <1>14, <2>1, <2>2, LinkedJoin, Zenon
    <2>5. nses = head \o s.ses
      BY <1>8
    <2> HIDE DEF head, nses
    <2>6. head \o s.ses \in Seq(Edits)
      BY <1>2, <2>3, ConcatProperties
    <2>7. Linked(R, head \o s.ses, <<nx, ny>>, <<N, M>>)
      BY <1>2, <2>3, <2>4, LinkedJoin, Zenon
    <2> QED
      BY <2>5, <2>6, <2>7
  <1> HIDE DEF nses
  <1> DEFINE t == [x |-> nx, y |-> ny, ses |-> nses]
  <1>16. /\ t \in [x : Nat, y : Nat, ses : Seq(Edits)]
         /\ t.x = nx /\ t.y = ny /\ t.ses = nses
    BY <1>11, <1>15
  <1> HIDE DEF t
  <1>17. Retraced(a, b, v, d - 1, t)
    BY <1>4, <1>5, <1>9, <1>11, <1>12, <1>15, <1>16 DEF Retraced, R, N, M
  <1> QED
    BY <1>3, <1>17 DEF t

(* The script of a search that succeeds makes the new chunk of the old.    *)
LEMMA BacktrackEdited ==
    ASSUME NEW a \in Seq(Byte), NEW b \in Seq(Byte), a # <<>>,
           NEW final \in FinalDistance(a, b)
    PROVE  Edited(a, b, Backtrack(a, b, final))
  <1> DEFINE v == Frontiers(a, b)
             N == Len(a)
             M == Len(b)
             R == EditSteps(a, b)
  <1>1. Searched(a, b, v, final)
    BY SearchedFinal
  <1> HIDE DEF v
  <1>2. final \in Nat /\ N \in Nat /\ M \in Nat
    BY <1>1, SearchFacts
  <1>3. PICK acc : /\ RetraceSteps(acc, a, b, v, final)
                   /\ Backtrack(a, b, final) = WholeScript(acc[final])
    BY <1>2, BacktrackFold DEF v
  <1>4. /\ acc[0] = Corner(a, b)
        /\ \A j \in 1 .. final :
              acc[j] = Retrace(v[(final + 1 - j) + 1], acc[j - 1], final + 1 - j)
    BY <1>3 DEF RetraceSteps
  <1> DEFINE S == {j \in 0 .. final : Retraced(a, b, v, final - j, acc[j])}
  <1>5. 0 \in S
    <2> DEFINE s == Corner(a, b)
    <2>1. PICK k \in Diagonals(final) :
              Advanced(a, b, v, final, k) /\ AtEnd(a, b, At(v, final, k), k)
      BY <1>1 DEF Searched
    <2>2. At(v, final, k) = N /\ k = N - M
      BY <1>1, <2>1, EndsInCorner
    <2>3. /\ s.x = N /\ s.y = M /\ s.ses = <<>>
          /\ s \in [x : Nat, y : Nat, ses : Seq(Edits)]
      BY <1>2, EmptySeq DEF Corner
    <2>4. Linked(R, <<>>, <<N, M>>, <<N, M>>)
      <3>1. <<N, M>> \in Point
        BY <1>2 DEF Point
      <3> HIDE DEF R
      <3> QED
        BY <3>1, LinkedEmpty
    <2> HIDE DEF s
    <2>5. s.x <= N /\ s.y <= M /\ s.x - s.y = k
      BY <1>2, <2>2, <2>3
    <2>6. Retraced(a, b, v, final, s)
      BY <2>1, <2>2, <2>3, <2>4, <2>5 DEF Retraced
    <2>7. final - 0 = final /\ 0 \in 0 .. final
      BY <1>2
    <2> QED
      BY <1>4, <2>6, <2>7 DEF s
  <1>6. ASSUME NEW j \in 1 .. final, j - 1 \in S PROVE j \in S
    <2> DEFINE d == final + 1 - j
    <2>1. d \in 1 .. final /\ final - (j - 1) = d /\ final - j = d - 1 /\ j \in 0 .. final
      BY <1>2
    <2>2. Retraced(a, b, v, d, acc[j - 1])
      BY <1>6, <2>1
    <2>3. acc[j] = Retrace(v[d + 1], acc[j - 1], d)
      BY <1>4
    <2> HIDE DEF d
    <2>4. Retraced(a, b, v, d - 1, acc[j])
      BY <1>1, <2>1, <2>2, <2>3, RetracedStep
    <2> QED
      BY <2>1, <2>4
  <1> HIDE DEF S
  <1>7. 0 .. final \subseteq S
    BY <1>2, <1>5, <1>6, UpToInduction
  <1>8. Retraced(a, b, v, 0, acc[final])
    <2>1. final \in S /\ final - final = 0
      BY <1>2, <1>7
    <2> QED
      BY <2>1 DEF S
  <1> DEFINE first == acc[final]
             x == first.x
             y == first.y
             es == first.ses
  <1>9. /\ x \in Nat /\ y \in Nat /\ es \in Seq(Edits)
        /\ Advanced(a, b, v, 0, x - y) /\ At(v, 0, x - y) = x
        /\ Linked(R, es, <<x, y>>, <<N, M>>)
    BY <1>8 DEF Retraced
  <1>10. Backtrack(a, b, final) = Zeros(Max({0, Min({x, y})})) \o es
    BY <1>3 DEF WholeScript
  <1> HIDE DEF first, x, y, es, R
  <1>11. x = y /\ x = Snake(a, b, 0, 0) /\ x <= N /\ x <= M
    <2>1. x - y = 0 /\ x = Snake(a, b, 0, 0) /\ x <= N /\ x <= M
      BY <1>1, <1>9, FirstSnake
    <2> QED
      BY <1>9, <2>1
  <1>12. Max({0, Min({x, y})}) = x
    <2>1. Min({x, x}) = x
      BY <1>9, MinOfTwo
    <2>2. {0, x} \in SUBSET (0 .. x) /\ {0, x} # {}
      BY <1>9
    <2>3. Max({0, x}) \in {0, x} /\ \A z \in {0, x} : Max({0, x}) >= z
      BY <1>9, <2>2, MaxBounded
    <2>4. Max({0, x}) = x
      BY <1>9, <2>3
    <2>5. Min({x, y}) = x
      BY <1>11, <2>1
    <2> QED
      BY <2>4, <2>5
  <1>13. Same(a, b, <<0, 0>>, x)
    <2>1. \A j \in 1 .. x : a[0 + j] = b[0 + j]
      BY <1>11, SnakeFacts
    <2>2. 0 + x = x
      BY <1>9
    <2> QED
      BY <1>11, <2>1, <2>2 DEF Same, N, M
  <1>14. Zeros(x) \in Seq(Edits) /\ Linked(R, Zeros(x), <<0, 0>>, <<x, y>>)
    <2>1. <<0, 0>> \in Point /\ <<0 + x, 0 + x>> = <<x, y>>
      BY <1>9, <1>11 DEF Point
    <2> QED
      BY <1>9, <1>13, <2>1, ZerosLinked DEF R
  <1> DEFINE zs == Zeros(x)
  <1>15. zs \in Seq(Edits) /\ Linked(R, zs, <<0, 0>>, <<x, y>>)
    BY <1>14
  <1>16. Backtrack(a, b, final) = zs \o es
    BY <1>10, <1>12
  <1> HIDE DEF zs
  <1>17. zs \o es \in Seq(Edits)
    BY <1>9, <1>15, ConcatProperties
  <1>18. Linked(R, zs \o es, <<0, 0>>, <<N, M>>)
    BY <1>9, <1>15, LinkedJoin, Zenon
  <1> QED
    BY <1>16, <1>17, <1>18 DEF Edited, R, N, M

(* Any distance there is a script of.                                      *)
LEMMA ScriptEdited ==
    ASSUME NEW a \in Seq(Byte), NEW b \in Seq(Byte), NEW final \in Found(a, b)
    PROVE  Edited(a, b, Script(a, b, final))
  <1> DEFINE N == Len(a)
             M == Len(b)
             p == <<0, 0>>
  <1>1. N \in Nat /\ M \in Nat /\ p \in Point
    BY LenProperties DEF Point
  <1>2. CASE a = <<>>
    <2> DEFINE es == [j \in 1 .. M |-> 1]
    <2>1. N = 0 /\ Script(a, b, final) = es
      BY <1>2 DEF Script
    <2>2. Ahead(1, p, M) = <<N, M>>
      BY <1>1, <2>1 DEF Ahead
    <2>3. Ahead(1, p, M)[1] <= N /\ Ahead(1, p, M)[2] <= M
      BY <1>1, <2>2
    <2>4. 1 \in Edits
      BY DEF Edits
    <2>5. es \in Seq(Edits) /\ Linked(EditSteps(a, b), es, p, Ahead(1, p, M))
      BY <1>1, <2>3, <2>4, Repeated
    <2> HIDE DEF es
    <2> QED
      BY <2>1, <2>2, <2>5 DEF Edited
  <1>3. CASE a # <<>> /\ b = <<>>
    <2> DEFINE es == [j \in 1 .. N |-> -1]
    <2>1. M = 0 /\ Script(a, b, final) = es
      BY <1>3 DEF Script
    <2>2. Ahead(-1, p, N) = <<N, M>>
      BY <1>1, <2>1 DEF Ahead
    <2>3. Ahead(-1, p, N)[1] <= N /\ Ahead(-1, p, N)[2] <= M
      BY <1>1, <2>2
    <2>4. -1 \in Edits /\ -1 # 0
      BY DEF Edits
    <2>5. es \in Seq(Edits) /\ Linked(EditSteps(a, b), es, p, Ahead(-1, p, N))
      BY <1>1, <2>3, <2>4, Repeated
    <2> HIDE DEF es
    <2> QED
      BY <2>1, <2>2, <2>5 DEF Edited
  <1>4. CASE a # <<>> /\ b # <<>>
    <2>1. final \in FinalDistance(a, b) /\ Script(a, b, final) = Backtrack(a, b, final)
      BY <1>4 DEF Found, Script
    <2> QED
      BY <1>4, <2>1, BacktrackEdited
  <1> QED
    BY <1>2, <1>3, <1>4

(* The diff leads from the start to the end of both chunks.                *)
LEMMA DiffReach ==
    ASSUME NEW a \in Seq(Byte), NEW b \in Seq(Byte)
    PROVE  Reached(a, b, CreateDiff(a, b), <<Len(a), Len(b)>>)
  <1> DEFINE found == Found(a, b)
  <1>1. CASE found = {}
    BY <1>1, GreedyReach DEF CreateDiff
  <1>2. CASE found # {}
    <2>1. \E n \in Nat : found \in SUBSET (0 .. n)
      <3>1. CASE a = <<>> \/ b = <<>>
        <4> DEFINE n == Len(a) + Len(b)
        <4>1. n \in Nat
          BY LenProperties
        <4>2. found = {n}
          BY <3>1 DEF Found
        <4> HIDE DEF n, found
        <4>3. found \in SUBSET (0 .. n)
          BY <4>1, <4>2
        <4> QED
          BY <4>1, <4>3
      <3>2. CASE ~(a = <<>> \/ b = <<>>)
        <4>1. DMax(a, b) \in Nat
          BY <3>2, DMaxFacts
        <4>2. found \subseteq 0 .. DMax(a, b)
          BY <3>2 DEF Found, FinalDistance
        <4> QED
          BY <4>1, <4>2
      <3> QED
        BY <3>1, <3>2
    <2>2. PICK n \in Nat : found \in SUBSET (0 .. n)
      BY <2>1
    <2>3. Max(found) \in found
      BY <1>2, <2>2, MaxBounded
    <2>4. Edited(a, b, Script(a, b, Max(found)))
      BY <2>3, ScriptEdited
    <2>5. CreateDiff(a, b) = Opcodes(b, Script(a, b, Max(found)))
      BY <1>2 DEF CreateDiff
    <2> QED
      BY <2>4, <2>5, OpcodesReach
  <1> QED
    BY <1>1, <1>2

-----------------------------------------------------------------------------
(* A patch that keeps up with the path.                                    *)

(* The bytes copied from y on extend the first y bytes.                    *)
LEMMA PrefixGrows ==
    ASSUME NEW b \in Seq(Byte), NEW y \in Nat, NEW bs, Copied(b, y, bs)
    PROVE  SubSeq(b, 1, y) \o bs = SubSeq(b, 1, y + Len(bs))
  <1> DEFINE n == Len(bs)
             part == SubSeq(b, y + 1, y + n)
  <1>1. bs \in Seq(Byte) /\ y + n <= Len(b) /\ \A j \in 1 .. n : bs[j] = b[y + j]
    BY DEF Copied
  <1>2. n \in Nat /\ Len(b) \in Nat
    BY <1>1, LenProperties
  <1>3. Copied(b, y, part) /\ Len(part) = n
    BY <1>1, <1>2, CopiedPart
  <1> HIDE DEF n, part
  <1>4. part \in Seq(Byte) /\ \A j \in 1 .. n : part[j] = b[y + j]
    BY <1>3 DEF Copied
  <1>5. bs = part
    BY <1>1, <1>3, <1>4, SeqEqual DEF n
  <1> DEFINE z == y + n
  <1>6. z \in Nat /\ y <= z /\ z <= Len(b)
    BY <1>1, <1>2
  <1> HIDE DEF z
  <1>7. SubSeq(b, 1, y) \o SubSeq(b, y + 1, z) = SubSeq(b, 1, z)
    <2>1. 1 \in 1 .. Len(b) + 1 /\ y \in 1 - 1 .. Len(b) /\ z \in y .. Len(b)
      BY <1>2, <1>6
    <2> QED
      BY <2>1, ConcatAdjacentSubSeq
  <1> QED
    BY <1>5, <1>7 DEF part, z, n

LEMMA PrefixLength ==
    ASSUME NEW b \in Seq(Byte), NEW y \in Nat, y <= Len(b)
    PROVE  SubSeq(b, 1, y) \in Seq(Byte) /\ Len(SubSeq(b, 1, y)) = y
  <1>1. /\ SubSeq(b, 1, y) \in Seq(Byte)
        /\ Len(SubSeq(b, 1, y)) = IF 1 <= y THEN y - 1 + 1 ELSE 0
    BY Part
  <1>2. (IF 1 <= y THEN y - 1 + 1 ELSE 0) = y
    OBVIOUS
  <1> QED
    BY <1>1, <1>2

(* Old bytes that match are copied as bytes of the new chunk.              *)
LEMMA MatchCopied ==
    ASSUME NEW a \in Seq(Byte), NEW b \in Seq(Byte), NEW x \in Nat, NEW y \in Nat,
           NEW m \in Nat, Same(a, b, <<x, y>>, m)
    PROVE  Copied(b, y, SubSeq(a, x + 1, x + m)) /\ Len(SubSeq(a, x + 1, x + m)) = m
  <1> DEFINE bs == SubSeq(a, x + 1, x + m)
  <1>1. x + m <= Len(a) /\ y + m <= Len(b) /\ \A j \in 1 .. m : a[x + j] = b[y + j]
    BY DEF Same
  <1>2. Copied(a, x, bs) /\ Len(bs) = m
    BY <1>1, CopiedPart
  <1> HIDE DEF bs
  <1>3. Copied(b, y, bs)
    BY <1>1, <1>2 DEF Copied
  <1> QED
    BY <1>2, <1>3 DEF bs

(* The patch that has reached point p.                                     *)
PatchAt(b, p) == Patching(SubSeq(b, 1, p[2]), p[1])

(* An opcode that leads from p to q passes the bounds checks, and takes    *)
(* the patch to q.                                                         *)
LEMMA OpcodePatches ==
    ASSUME NEW a \in Seq(Byte), NEW b \in Seq(Byte), NEW o \in Op,
           NEW p \in Point, NEW q \in Point, Leads(a, b, o, p, q)
    PROVE  /\ Fits(PatchAt(b, p), o, a, Len(b))
           /\ PatchOp(PatchAt(b, p), o, a) = PatchAt(b, q)
           /\ q[1] <= Len(a) /\ q[2] <= Len(b)
  <1> DEFINE x == p[1]
             y == p[2]
             s == PatchAt(b, p)
             bs == o.bytes
             c == Consumes(o)
             N == Len(a)
             M == Len(b)
  <1>1. PICK m \in Nat : /\ o.pos = y + m /\ Same(a, b, p, m)
                         /\ q = <<x + m + c, o.pos + Len(bs)>>
    BY DEF Leads
  <1>2. /\ q[1] <= N /\ q[2] <= M
        /\ \A j \in 1 .. Len(bs) : bs[j] = b[o.pos + j]
    BY DEF Leads
  <1>3. /\ x \in Nat /\ y \in Nat /\ N \in Nat /\ M \in Nat /\ p = <<x, y>>
        /\ c \in Nat /\ bs \in Seq(Byte) /\ Len(bs) \in Nat
    BY OpFacts, LenProperties DEF Point
  <1>4. x + m <= N /\ y + m <= M
    BY <1>1 DEF Same
  <1>5. SubSeq(b, 1, y) \in Seq(Byte) /\ Len(SubSeq(b, 1, y)) = y
    BY <1>3, <1>4, PrefixLength
  <1>6. s.out = SubSeq(b, 1, y) /\ s.at = x /\ Len(s.out) = y
    BY <1>5 DEF PatchAt, Patching
  <1>7. o.pos - Len(s.out) = m
    BY <1>1, <1>3, <1>6
  <1>8. q[1] = x + m + c /\ q[2] = (y + m) + Len(bs)
    BY <1>1
  <1>9. Fits(s, o, a, M)
    <2>1. /\ m >= 0 /\ m <= N - x /\ m <= M - y
          /\ Len(bs) <= M - y - m /\ c <= N - x - m
      <3> HIDE DEF x, y, N, M, c, bs
      <3> QED
        BY <1>2, <1>3, <1>4, <1>8
    <2> HIDE DEF s
    <2> QED
      BY <1>6, <1>7, <2>1 DEF Fits
  <1>10. PatchOp(s, o, a) = PatchAt(b, q)
    <2> DEFINE copy == SubSeq(a, x + 1, x + m)
               pre == SubSeq(b, 1, y)
    <2>1. Copied(b, y, copy) /\ Len(copy) = m
      <3>1. Same(a, b, <<x, y>>, m)
        BY <1>1, <1>3
      <3> HIDE DEF x, y
      <3> QED
        BY <1>1, <1>3, <3>1, MatchCopied
    <2> HIDE DEF copy
    <2>2. pre \o copy = SubSeq(b, 1, y + m)
      <3>1. SubSeq(b, 1, y) \o copy = SubSeq(b, 1, y + Len(copy))
        BY <1>3, <2>1, PrefixGrows
      <3> QED
        BY <2>1, <3>1
    <2>3. Copied(b, y + m, bs)
      BY <1>1, <1>2, <1>3, <1>8 DEF Copied
    <2>4. y + m \in Nat
      BY <1>3
    <2>5. SubSeq(b, 1, y + m) \o bs = SubSeq(b, 1, (y + m) + Len(bs))
      BY <2>3, <2>4, PrefixGrows
    <2>6. PatchOp(s, o, a) = Patching(pre \o copy \o bs, x + m + c)
      <3> HIDE DEF s
      <3> QED
        BY <1>6, <1>7 DEF PatchOp, copy
    <2>7. PatchOp(s, o, a) = Patching(SubSeq(b, 1, q[2]), q[1])
      BY <1>8, <2>2, <2>5, <2>6
    <2> QED
      BY <2>7 DEF PatchAt
  <1> QED
    BY <1>2, <1>9, <1>10

(* With equal bytes to the end, the old chunk's tail completes the patch.  *)
LEMMA TailPatches ==
    ASSUME NEW a \in Seq(Byte), NEW b \in Seq(Byte), NEW p \in Point,
           Matched(a, b, p, <<Len(a), Len(b)>>)
    PROVE  /\ TailFits(PatchAt(b, p), a, Len(b))
           /\ PatchTail(PatchAt(b, p), a, Len(b)) = b
  <1> DEFINE x == p[1]
             y == p[2]
             s == PatchAt(b, p)
             N == Len(a)
             M == Len(b)
  <1>1. PICK m \in Nat : N = x + m /\ M = y + m /\ Same(a, b, p, m)
    BY DEF Matched
  <1>2. /\ x \in Nat /\ y \in Nat /\ N \in Nat /\ M \in Nat /\ p = <<x, y>>
    BY LenProperties DEF Point
  <1>3. y <= M
    BY <1>1, <1>2
  <1>4. Len(SubSeq(b, 1, y)) = y
    BY <1>2, <1>3, PrefixLength
  <1>5. s.out = SubSeq(b, 1, y) /\ s.at = x /\ Len(s.out) = y
    BY <1>4 DEF PatchAt, Patching
  <1>6. M - y = m /\ N - x = m /\ m <= m /\ x + M - y = x + m
    <2> HIDE DEF x, y, N, M
    <2> QED
      BY <1>1, <1>2
  <1> DEFINE copy == SubSeq(a, x + 1, x + m)
  <1>7. Copied(b, y, copy) /\ Len(copy) = m
    BY <1>1, <1>2, MatchCopied
  <1> HIDE DEF copy
  <1>8. SubSeq(b, 1, y) \o copy = SubSeq(b, 1, y + m)
    <2>1. SubSeq(b, 1, y) \o copy = SubSeq(b, 1, y + Len(copy))
      BY <1>2, <1>7, PrefixGrows
    <2> QED
      BY <1>7, <2>1
  <1>9. SubSeq(b, 1, y + m) = b
    BY <1>1, SubSeqFull
  <1>10. TailFits(s, a, M)
    <2> HIDE DEF s, N, M, x, y
    <2> QED
      BY <1>5, <1>6 DEF TailFits, N
  <1>11. PatchTail(s, a, M) = SubSeq(b, 1, y) \o copy
    <2> HIDE DEF s, M, x, y
    <2> QED
      BY <1>5, <1>6 DEF PatchTail, copy
  <1> QED
    BY <1>8, <1>9, <1>10, <1>11

-----------------------------------------------------------------------------
(* The patch keeps to the path of the diff.                                *)

(* The opcodes still to be applied lead on from where the patch is.        *)
OnCourse ==
    \E p \in Point, q \in Point :
        /\ p[1] <= Len(old) /\ p[2] <= Len(new) /\ patch = PatchAt(new, p)
        /\ Linked(OpSteps(old, new), ops, p, q)
        /\ Matched(old, new, q, <<Len(old), Len(new)>>)

Inv ==
    /\ old \in Seq(Byte) /\ new \in Seq(Byte) /\ ops \in Seq(Op)
    /\ state \in {"create", "patch", "done"}
    /\ state = "create" => patch = Patching(<<>>, 0) /\ ops = <<>>
    /\ state = "patch" => OnCourse
    /\ state = "done" => output = new /\ ops = <<>>

LEMMA Starts == Init => Inv
  <1> SUFFICES ASSUME Init PROVE Inv
    OBVIOUS
  <1>1. ASSUME NEW c \in Chunks PROVE c \in Seq(Byte)
    <2>1. PICK n \in 0 .. MaxLen : c \in [1 .. n -> Byte]
      BY DEF Chunks, SeqOf
    <2>2. n \in Nat
      BY DiffAssumption
    <2> QED
      BY <2>1, <2>2
  <1>2. ops \in Seq(Op)
    BY EmptySeq DEF Init
  <1> QED
    BY <1>1, <1>2 DEF Init, Inv

LEMMA CreateKeeps == Inv /\ Create => Inv'
  <1> SUFFICES ASSUME Inv, Create PROVE Inv'
    OBVIOUS
  <1> DEFINE os == CreateDiff(old, new)
             end == <<Len(old), Len(new)>>
  <1>1. /\ old \in Seq(Byte) /\ new \in Seq(Byte) /\ patch = Patching(<<>>, 0)
        /\ state' = "patch" /\ ops' = os /\ old' = old /\ new' = new /\ patch' = patch
    BY DEF Inv, Create
  <1>2. Reached(old, new, os, end)
    BY <1>1, DiffReach
  <1> HIDE DEF os, end
  <1>3. /\ os \in Seq(Op)
        /\ \E q \in Point : /\ Linked(OpSteps(old, new), os, <<0, 0>>, q)
                            /\ Matched(old, new, q, end)
    BY <1>2 DEF Reached
  <1> DEFINE p == <<0, 0>>
  <1>4. p \in Point /\ p[1] = 0 /\ p[2] = 0
    BY DEF Point
  <1>5. p[1] <= Len(old) /\ p[2] <= Len(new)
    BY <1>1, <1>4, LenProperties
  <1>6. patch = PatchAt(new, p)
    <2>1. SubSeq(new, 1, 0) = <<>>
      <3>1. SubSeq(new, 1, 0) \in Seq(Byte) /\ Len(SubSeq(new, 1, 0)) = 0
        <4>1. 0 <= Len(new)
          BY <1>1, LenProperties
        <4> QED
          BY <1>1, <4>1, PrefixLength
      <3> QED
        BY <3>1, EmptySeq
    <2> QED
      BY <1>1, <1>4, <2>1 DEF PatchAt
  <1>7. PICK q \in Point : Linked(OpSteps(old, new), os, p, q) /\ Matched(old, new, q, end)
    BY <1>3
  <1> HIDE DEF p
  <1>8. OnCourse'
    <2>1. /\ p[1] <= Len(old') /\ p[2] <= Len(new') /\ patch' = PatchAt(new', p)
          /\ Linked(OpSteps(old', new'), ops', p, q)
          /\ Matched(old', new', q, <<Len(old'), Len(new')>>)
      BY <1>1, <1>5, <1>6, <1>7 DEF end
    <2> QED
      BY <1>4, <2>1 DEF OnCourse
  <1> QED
    BY <1>1, <1>3, <1>8 DEF Inv

LEMMA ApplyKeeps == Inv /\ Apply => Inv'
  <1> SUFFICES ASSUME Inv, Apply PROVE Inv'
    OBVIOUS
  <1> DEFINE end == <<Len(old), Len(new)>>
             R == OpSteps(old, new)
             o == Head(ops)
             os == Tail(ops)
  <1>1. /\ old \in Seq(Byte) /\ new \in Seq(Byte) /\ ops \in Seq(Op)
        /\ state = "patch" /\ ops # <<>> /\ old' = old /\ new' = new
    BY DEF Inv, Apply
  <1>2. PICK p \in Point, q \in Point :
            /\ p[1] <= Len(old) /\ p[2] <= Len(new) /\ patch = PatchAt(new, p)
            /\ Linked(R, ops, p, q) /\ Matched(old, new, q, end)
    BY <1>1 DEF Inv, OnCourse
  <1>3. o \in Op /\ os \in Seq(Op)
    BY <1>1, HeadTailProperties
  <1>4. PICK r \in Point : <<o, p, r>> \in R /\ Linked(R, os, r, q)
    <2> HIDE DEF R
    <2> QED
      BY <1>1, <1>2, LinkedFirst
  <1>5. Leads(old, new, o, p, r)
    BY <1>4, OpStep
  <1>6. /\ Fits(patch, o, old, Len(new)) /\ PatchOp(patch, o, old) = PatchAt(new, r)
        /\ r[1] <= Len(old) /\ r[2] <= Len(new)
    BY <1>1, <1>2, <1>3, <1>5, OpcodePatches
  <1>7. patch' = PatchAt(new, r) /\ ops' = os /\ state' = "patch"
    BY <1>1, <1>6 DEF Apply
  <1> HIDE DEF o, os, R, end
  <1>8. OnCourse'
    <2>1. /\ r[1] <= Len(old') /\ r[2] <= Len(new') /\ patch' = PatchAt(new', r)
          /\ Linked(OpSteps(old', new'), ops', r, q)
          /\ Matched(old', new', q, <<Len(old'), Len(new')>>)
      BY <1>1, <1>2, <1>4, <1>6, <1>7 DEF R, end
    <2> QED
      BY <2>1 DEF OnCourse
  <1> QED
    BY <1>1, <1>3, <1>7, <1>8 DEF Inv

LEMMA FinishKeeps == Inv /\ Finish => Inv'
  <1> SUFFICES ASSUME Inv, Finish PROVE Inv'
    OBVIOUS
  <1>1. /\ old \in Seq(Byte) /\ new \in Seq(Byte) /\ ops \in Seq(Op)
        /\ state = "patch" /\ ops = <<>> /\ old' = old /\ new' = new /\ ops' = ops
    BY DEF Inv, Finish
  <1>2. PICK p \in Point, q \in Point :
            /\ patch = PatchAt(new, p) /\ Linked(OpSteps(old, new), ops, p, q)
            /\ Matched(old, new, q, <<Len(old), Len(new)>>)
    BY <1>1 DEF Inv, OnCourse
  <1>3. p = q
    BY <1>1, <1>2, LinkedNowhere
  <1>4. TailFits(patch, old, Len(new)) /\ PatchTail(patch, old, Len(new)) = new
    BY <1>1, <1>2, <1>3, TailPatches
  <1>5. state' = "done" /\ output' = new
    BY <1>4 DEF Finish
  <1> QED
    BY <1>1, <1>5 DEF Inv

LEMMA StepKeeps == Inv /\ [Next]_vars => Inv'
  <1> SUFFICES ASSUME Inv, [Next]_vars PROVE Inv'
    OBVIOUS
  <1>1. CASE Create
    BY <1>1, CreateKeeps
  <1>2. CASE Apply
    BY <1>2, ApplyKeeps
  <1>3. CASE Finish
    BY <1>3, FinishKeeps
  <1>4. CASE UNCHANGED vars
    BY <1>4 DEF vars, Inv, OnCourse
  <1> QED
    BY <1>1, <1>2, <1>3, <1>4 DEF Next

(* Until the new chunk is back, the opcodes not yet applied lead from the  *)
(* point the patch has reached to the end of both chunks.                  *)
THEOREM Inductive == Spec => []Inv
  BY Starts, StepKeeps, PTL DEF Spec

-----------------------------------------------------------------------------
(* What follows from it.                                                   *)

(* What apply makes of a diff of create is the new chunk, whichever of the *)
(* two algorithms wrote it, and no bounds check rejects it.                *)
THEOREM DiffRoundTrip == Spec => []RoundTrip
  <1>1. Inv => RoundTrip
    BY DEF Inv, RoundTrip
  <1> QED
    BY <1>1, Inductive, PTL

(* Every opcode create writes does something, its bytes fit its count      *)
(* byte, and positions never go backwards.                                 *)
THEOREM OpcodesWellFormed == Spec => []WellFormed
  <1>1. Inv => WellFormed
    <2> SUFFICES ASSUME Inv PROVE WellFormed
      OBVIOUS
    <2>1. ops \in Seq(Op)
      BY DEF Inv
    <2>2. ASSUME NEW j \in 1 .. Len(ops)
          PROVE  /\ Len(ops[j].bytes) <= MaxCount
                 /\ ops[j].op = "X" <=> ops[j].del > 0
                 /\ ops[j].op # "X" <=> ops[j].bytes # <<>>
      <3>1. ops[j] \in Op
        BY <2>1, ElementOfSeq
      <3> DEFINE o == ops[j]
      <3>2. o \in Op
        BY <3>1
      <3> HIDE DEF o
      <3>3. Len(o.bytes) <= MaxCount /\ (o.op = "X" <=> o.del > 0) /\ (o.op # "X" <=> o.bytes # <<>>)
        BY <3>2, OpFacts
      <3> QED
        BY <3>3 DEF o
    <2>3. ASSUME NEW j \in 2 .. Len(ops)
          PROVE  ops[j - 1].pos + Len(ops[j - 1].bytes) <= ops[j].pos
      <3>1. Len(ops) \in Nat
        BY <2>1, LenProperties
      <3>2. ops # <<>>
        BY <3>1
      <3>3. state = "patch"
        BY <3>2 DEF Inv
      <3>4. PICK p \in Point, q \in Point : Linked(OpSteps(old, new), ops, p, q)
        BY <3>3 DEF Inv, OnCourse
      <3>5. PICK ps \in [0 .. Len(ops) -> Point] : Along(OpSteps(old, new), ops, ps, p, q)
        BY <3>4 DEF Linked
      <3> DEFINE o == ops[j - 1]
                 n == ops[j]
                 r == ps[j - 1]
      <3>6. /\ j - 1 \in 1 .. Len(ops) /\ j \in 1 .. Len(ops) /\ (j - 1) - 1 = j - 2
        BY <3>1
      <3>7. <<o, ps[j - 2], r>> \in OpSteps(old, new) /\ <<n, r, ps[j]>> \in OpSteps(old, new)
        BY <3>5, <3>6 DEF Along
      <3> HIDE DEF o, n, r
      <3>8. /\ o \in Op /\ n \in Op /\ r \in Point
            /\ Leads(old, new, o, ps[j - 2], r) /\ Leads(old, new, n, r, ps[j])
        BY <3>7, OpStep
      <3>9. r[2] = o.pos + Len(o.bytes)
        BY <3>8 DEF Leads
      <3>10. PICK m \in Nat : n.pos = r[2] + m
        BY <3>8 DEF Leads
      <3>11. r[2] \in Nat
        BY <3>8 DEF Point
      <3>12. r[2] <= n.pos
        BY <3>10, <3>11
      <3> QED
        BY <3>9, <3>12 DEF o, n
    <2> QED
      BY <2>2, <2>3 DEF WellFormed
  <1> QED
    BY <1>1, Inductive, PTL

(* An empty diff, of which create ships the bytes instead, means that the  *)
(* chunks are equal.                                                       *)
THEOREM EmptyDiff == Spec => []EmptyMeansEqual
  <1>1. Inv => EmptyMeansEqual
    <2> SUFFICES ASSUME Inv, state = "patch", patch = Patching(<<>>, 0), ops = <<>>
                 PROVE  old = new
      BY DEF EmptyMeansEqual
    <2>1. PICK p \in Point, q \in Point :
              /\ p[1] <= Len(old) /\ p[2] <= Len(new) /\ patch = PatchAt(new, p)
              /\ Linked(OpSteps(old, new), ops, p, q)
              /\ Matched(old, new, q, <<Len(old), Len(new)>>)
      BY DEF Inv, OnCourse
    <2>2. old \in Seq(Byte) /\ new \in Seq(Byte)
      BY DEF Inv
    <2>3. p = q
      BY <2>1, LinkedNowhere
    <2>4. p[1] = 0 /\ p[2] = 0
      <3>1. patch.out = <<>> /\ patch.at = 0
        BY DEF Patching
      <3>2. /\ PatchAt(new, p).out = SubSeq(new, 1, p[2])
            /\ PatchAt(new, p).at = p[1]
        BY DEF PatchAt, Patching
      <3>3. SubSeq(new, 1, p[2]) = <<>> /\ p[1] = 0
        <4>1. PatchAt(new, p).out = <<>> /\ PatchAt(new, p).at = 0
          BY <2>1, <3>1
        <4> QED
          BY <3>2, <4>1
      <3>4. p[2] \in Nat /\ Len(<<>>) = 0
        BY DEF Point
      <3>5. Len(SubSeq(new, 1, p[2])) = p[2]
        BY <2>1, <2>2, <3>4, PrefixLength
      <3> QED
        BY <3>3, <3>4, <3>5
    <2>5. PICK m \in Nat : /\ Len(old) = p[1] + m /\ Len(new) = p[2] + m
                           /\ Same(old, new, p, m)
      BY <2>1, <2>3 DEF Matched
    <2>6. Len(old) = m /\ Len(new) = m
      BY <2>4, <2>5
    <2>7. \A j \in 1 .. m : old[j] = new[j]
      <3>1. \A j \in 1 .. m : old[0 + j] = new[0 + j]
        BY <2>4, <2>5 DEF Same
      <3> QED
        BY <3>1
    <2> QED
      BY <2>2, <2>6, <2>7, SeqEqual
  <1> QED
    BY <1>1, Inductive, PTL
=============================================================================
