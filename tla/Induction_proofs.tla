-------------------------- MODULE Induction_proofs --------------------------
(***************************************************************************)
(* Induction over data, in the form the backends can use: a set of natural *)
(* numbers that contains 0 and the successor of each of its members is all *)
(* of Nat.  From it, the folds of the community modules and the recursive  *)
(* functions of the models: that what they define exists, and the values   *)
(* it goes through.                                                        *)
(***************************************************************************)
EXTENDS Integers, FiniteSetsExt, Functions, FiniteSetTheorems, SequenceTheorems,
        WellFoundedInduction, TLAPS

-----------------------------------------------------------------------------
(* Numbers and sequences.                                                  *)

(* The smaller of two numbers.                                             *)
LEMMA MinOfTwo ==
    ASSUME NEW a \in Int, NEW b \in Int
    PROVE  Min({a, b}) = IF a <= b THEN a ELSE b
  <1> DEFINE m == IF a <= b THEN a ELSE b
  <1>1. m \in {a, b} /\ \A y \in {a, b} : m <= y
    OBVIOUS
  <1>2. \A x \in {a, b} : (\A y \in {a, b} : x <= y) => x = m
    OBVIOUS
  <1> QED
    BY <1>1, <1>2 DEF Min

(* Any part of a sequence, an empty one included.                          *)
LEMMA Part ==
    ASSUME NEW B, NEW s \in Seq(B), NEW m \in Nat \ {0}, NEW n \in Int, n <= Len(s)
    PROVE  /\ SubSeq(s, m, n) \in Seq(B)
           /\ Len(SubSeq(s, m, n)) = IF m <= n THEN n - m + 1 ELSE 0
  <1>1. \A i \in m .. n : s[i] \in B
    BY ElementOfSeq, LenProperties
  <1> QED
    BY <1>1, SubSeqProperties

(* Two sequences, one after the other.                                     *)
LEMMA Joined ==
    ASSUME NEW B, NEW s \in Seq(B), NEW t \in Seq(B)
    PROVE  /\ s \o t \in Seq(B) /\ Len(s \o t) = Len(s) + Len(t)
           /\ Len(s) \in Nat /\ Len(t) \in Nat
  BY ConcatProperties, LenProperties

(* A function on the first n numbers is a sequence of length n.            *)
LEMMA FunctionIsSeq ==
    ASSUME NEW T, NEW n \in Nat, NEW f \in [1 .. n -> T]
    PROVE  f \in Seq(T) /\ Len(f) = n
  BY SeqDef, LenProperties

(* A sequence of length n + 1 is one of length n and what comes last.      *)
LEMMA LastOne ==
    ASSUME NEW B, NEW s \in Seq(B), NEW t \in Seq(B), NEW e \in B, Len(t) = Len(s) + 1,
           \A k \in 1 .. Len(s) : t[k] = s[k], t[Len(s) + 1] = e
    PROVE  t = Append(s, e)
  <1>1. /\ Len(s) \in Nat /\ Append(s, e) \in Seq(B) /\ Len(Append(s, e)) = Len(s) + 1
        /\ Append(s, e)[Len(s) + 1] = e /\ \A k \in 1 .. Len(s) : Append(s, e)[k] = s[k]
    BY AppendProperties, LenProperties
  <1>2. ASSUME NEW k \in 1 .. Len(t) PROVE t[k] = Append(s, e)[k]
    <2>1. k \in 1 .. Len(s) \/ k = Len(s) + 1
      BY <1>1
    <2> QED
      BY <1>1, <2>1
  <1> QED
    BY <1>1, <1>2, SeqEqual

(* Division with remainder.                                                *)
LEMMA Division ==
    ASSUME NEW n \in Nat, NEW m \in Nat \ {0}
    PROVE  /\ n % m \in 0 .. m - 1 /\ n \div m \in Nat
           /\ n = m * (n \div m) + (n % m)
  BY SMTT(30)

(* They are determined by the remainder being small enough.                *)
LEMMA RemainderUnique ==
    ASSUME NEW n \in Nat, NEW m \in Nat \ {0}, NEW k \in Nat, NEW x \in 0 .. m - 1,
           n = m * k + x
    PROVE  x = n % m /\ k = n \div m
  <1> DEFINE q == n \div m
             r == n % m
  <1>1. /\ q \in Nat /\ r \in 0 .. m - 1
        /\ n = m * q + r
    BY Division
  <1> HIDE DEF q, r
  <1>2. m * (k - q) = r - x
    BY <1>1
  <1>3. CASE k - q >= 1
    <2>1. m * (k - q) >= m
      BY <1>1, <1>3
    <2> QED
      BY <1>1, <1>2, <2>1
  <1>4. CASE k - q <= -1
    <2>1. m * (k - q) <= -m
      BY <1>1, <1>4
    <2> QED
      BY <1>1, <1>2, <2>1
  <1>5. CASE k = q
    BY <1>1, <1>2, <1>5
  <1>6. x = r /\ k = q
    BY <1>1, <1>3, <1>4, <1>5
  <1> QED
    BY <1>6 DEF r, q

(* Numbers that differ by a multiple of m have the same remainder.         *)
LEMMA SameRemainder ==
    ASSUME NEW m \in Nat \ {0}, NEW x \in Nat, NEW y \in Nat, NEW z \in Int, x = y + m * z
    PROVE  x % m = y % m
  <1> DEFINE q == x \div m
             r == x % m
             s == y \div m
             t == y % m
  <1>1. /\ q \in Nat /\ r \in 0 .. m - 1 /\ x = m * q + r
        /\ s \in Nat /\ t \in 0 .. m - 1 /\ y = m * s + t
    BY Division
  <1> HIDE DEF q, r, s, t
  <1> DEFINE d == s + z - q
  <1>2. d \in Int /\ m * d = r - t
    <2>1. m * d = m * s + m * z - m * q
      BY <1>1
    <2> QED
      BY <1>1, <2>1
  <1> HIDE DEF d
  <1>3. ASSUME d >= 1 PROVE r = t
    <2>1. m * d >= m
      BY <1>2, <1>3
    <2> QED
      BY <1>1, <1>2, <2>1
  <1>4. ASSUME d <= -1 PROVE r = t
    <2>1. m * d <= -m
      BY <1>2, <1>4
    <2> QED
      BY <1>1, <1>2, <2>1
  <1>5. ASSUME d = 0 PROVE r = t
    BY <1>1, <1>2, <1>5
  <1>6. r = t
    BY <1>2, <1>3, <1>4, <1>5
  <1> QED
    BY <1>6 DEF r, t

(* A step of a polynomial.                                                 *)
LEMMA StepNat ==
    ASSUME NEW a \in Nat, NEW v \in Nat, NEW c \in Nat
    PROVE  a * v + c \in Nat
  OBVIOUS

-----------------------------------------------------------------------------
(* Induction.                                                              *)

(* A set that contains 0, and with every natural number the next one,      *)
(* contains them all: what every loop over the bytes or the chunks of an   *)
(* input is reasoned about with.                                           *)
LEMMA SetInduction ==
    ASSUME NEW S, 0 \in S, \A n \in Nat : n \in S => n + 1 \in S
    PROVE  Nat \subseteq S
  <1> DEFINE T == {n \in Nat : n \notin S}
  <1>1. SUFFICES ASSUME T # {} PROVE FALSE
    OBVIOUS
  <1>2. T \subseteq Nat
    OBVIOUS
  <1> HIDE DEF T
  <1> DEFINE R == OpToRel(<, Nat)
  <1>w. IsWellFoundedOn(R, Nat)
    BY NatLessThanWellFounded, Zenon
  <1>r. R = {ss \in Nat \X Nat : ss[1] < ss[2]}
    BY DEF OpToRel
  <1> HIDE DEF R
  <1>3. PICK x \in T : \A y \in T : ~ (<<y, x>> \in R)
    BY <1>1, <1>2, <1>w, WFMin
  <1>4. x \in Nat /\ x \notin S
    BY <1>3 DEF T
  <1>5. x # 0
    BY <1>4
  <1>6. x - 1 \in Nat /\ x - 1 + 1 = x
    BY <1>4, <1>5
  <1>7. x - 1 \notin S
    BY <1>4, <1>6
  <1>8. x - 1 \in T
    BY <1>6, <1>7 DEF T
  <1>9. <<x - 1, x>> \in R
    BY <1>4, <1>6, <1>r
  <1> QED
    BY <1>3, <1>8, <1>9

(* The same up to a bound, for a loop that ends at n.                      *)
LEMMA UpToInduction ==
    ASSUME NEW S, NEW n \in Nat, 0 \in S,
           \A k \in 1 .. n : k - 1 \in S => k \in S
    PROVE  0 .. n \subseteq S
  <1> DEFINE T == {k \in Nat : k <= n => k \in S}
  <1>1. 0 \in T
    OBVIOUS
  <1>2. \A k \in Nat : k \in T => k + 1 \in T
    <2>1. TAKE k \in Nat
    <2>2. HAVE k \in T
    <2>3. CASE k + 1 <= n
      <3>1. k \in S
        BY <2>2, <2>3
      <3>2. k + 1 \in 1 .. n /\ (k + 1) - 1 = k
        BY <2>3
      <3> QED
        BY <3>1, <3>2
    <2>4. CASE ~(k + 1 <= n)
      BY <2>4
    <2> QED
      BY <2>3, <2>4
  <1> HIDE DEF T
  <1>3. Nat \subseteq T
    BY <1>1, <1>2, SetInduction
  <1> QED
    BY <1>3 DEF T

(* Two sequences of values that start alike and go on alike.               *)
SameSteps(f, g, n) ==
    f[0] = g[0] /\ \A k \in 1 .. n : f[k - 1] = g[k - 1] => f[k] = g[k]

SameTo(f, g, n) == \A k \in 0 .. n : f[k] = g[k]

(* Two functions with the same recursion agree.                            *)
LEMMA SameValues ==
    ASSUME NEW n \in Nat, NEW f, NEW g, SameSteps(f, g, n)
    PROVE  SameTo(f, g, n)
  <1> DEFINE S == {k \in 0 .. n : f[k] = g[k]}
  <1>1. 0 \in S /\ \A k \in 1 .. n : k - 1 \in S => k \in S
    BY DEF SameSteps
  <1> HIDE DEF S
  <1>2. 0 .. n \subseteq S
    BY <1>1, UpToInduction
  <1> QED
    BY <1>2 DEF S, SameTo

(* Every nonempty set of natural numbers has a least element.              *)
LEMMA Least ==
    ASSUME NEW s \in SUBSET Nat, s # {}
    PROVE  \E x \in s : \A y \in s : x <= y
  <1> DEFINE P(k) == \A x \in s : x > k
             S == {k \in Nat : P(k)}
  <1>1. SUFFICES ASSUME \A x \in s : \E y \in s : ~(x <= y)
                 PROVE  FALSE
    OBVIOUS
  <1>2. P(0)
    <2>1. 0 \notin s
      BY <1>1
    <2> QED
      BY <2>1
  <1>3. ASSUME NEW k \in Nat, P(k) PROVE P(k + 1)
    <2>1. \A x \in s : x >= k + 1
      BY <1>3
    <2>2. k + 1 \notin s
      BY <1>1, <2>1
    <2> QED
      BY <2>1, <2>2
  <1> HIDE DEF P
  <1>4. 0 \in S /\ \A k \in Nat : k \in S => k + 1 \in S
    BY <1>2, <1>3
  <1> HIDE DEF S
  <1>5. \A k \in Nat : k \in S
    BY <1>4, SetInduction
  <1>6. PICK x \in s : TRUE
    OBVIOUS
  <1>7. P(x)
    BY <1>5, <1>6 DEF S
  <1> QED
    BY <1>6, <1>7 DEF P

-----------------------------------------------------------------------------
(* Folds.                                                                  *)

(* The largest element of a nonempty set of numbers up to n, the one a     *)
(* fold over a sequence takes last.                                        *)
LEMMA MaxUpTo ==
    ASSUME NEW n \in Nat, NEW s \in SUBSET (1 .. n), s # {}
    PROVE  Max(s) \in s /\ \A x \in s : Max(s) >= x
  <1> DEFINE P(k) == \A t \in SUBSET (1 .. k) :
                        t # {} => \E m \in t : \A x \in t : m >= x
             S == {k \in Nat : P(k)}
  <1>1. P(0)
    BY SUBSET (1 .. 0) = {{}}, Zenon
  <1>2. ASSUME NEW k \in Nat, P(k) PROVE P(k + 1)
    <2>1. SUFFICES ASSUME NEW t \in SUBSET (1 .. k + 1), t # {}
                   PROVE  \E m \in t : \A x \in t : m >= x
      OBVIOUS
    <2>2. CASE k + 1 \in t
      BY <2>2
    <2>3. CASE k + 1 \notin t
      <3>1. t \in SUBSET (1 .. k)
        BY <2>3
      <3> QED
        BY <1>2, <2>1, <3>1
    <2> QED
      BY <2>2, <2>3
  <1> HIDE DEF P
  <1>3. 0 \in S /\ \A k \in Nat : k \in S => k + 1 \in S
    BY <1>1, <1>2
  <1> HIDE DEF S
  <1>4. n \in S
    BY <1>3, SetInduction
  <1>5. P(n)
    BY <1>4 DEF S
  <1>6. \E m \in s : \A x \in s : m >= x
    BY <1>5 DEF P
  <1> QED
    BY <1>6 DEF Max

(* What MapThenFoldSet iterates over the positions of a sequence of length *)
(* n, with the step taken as a function.                                   *)
Iterates(it, n, base, G) ==
    it = [s \in SUBSET (1 .. n) |->
             IF s = {} THEN base ELSE G[<<it[s \ {Max(s)}], Max(s)>>]]

(* What MapThenFoldSet computes for a sequence of length n exists: a       *)
(* function on the sets of positions, each from the set without its        *)
(* largest.                                                                *)
LEMMA FoldExists ==
    ASSUME NEW V, NEW n \in Nat, NEW base \in V, NEW G \in [V \X (1 .. n) -> V]
    PROVE  \E it \in [SUBSET (1 .. n) -> V] : Iterates(it, n, base, G)
  <1> DEFINE P(k) == k <= n => \E it \in [SUBSET (1 .. k) -> V] : Iterates(it, k, base, G)
             S == {k \in Nat : P(k)}
  <1>1. P(0)
    <2>1. SUBSET (1 .. 0) = {{}}
      OBVIOUS
    <2>2. [s \in SUBSET (1 .. 0) |-> base] \in [SUBSET (1 .. 0) -> V]
      OBVIOUS
    <2>3. Iterates([s \in SUBSET (1 .. 0) |-> base], 0, base, G)
      BY <2>1 DEF Iterates
    <2> QED
      BY <2>2, <2>3
  <1>2. ASSUME NEW k \in Nat, P(k) PROVE P(k + 1)
    <2>3. SUFFICES ASSUME k + 1 <= n
                   PROVE  \E it \in [SUBSET (1 .. k + 1) -> V] : Iterates(it, k + 1, base, G)
      OBVIOUS
    <2>x. k <= n
      BY <2>3
    <2>4. PICK it \in [SUBSET (1 .. k) -> V] : Iterates(it, k, base, G)
      BY <1>2, <2>x, Zenon
    <2> DEFINE D == SUBSET (1 .. k + 1)
               jt == [s \in D |-> IF k + 1 \in s THEN G[<<it[s \ {k + 1}], k + 1>>]
                                  ELSE it[s]]
    <2>5. jt \in [D -> V]
      <3>1. SUFFICES ASSUME NEW s \in D PROVE jt[s] \in V
        OBVIOUS
      <3>2. CASE k + 1 \in s
        <4>1. s \ {k + 1} \in SUBSET (1 .. k)
          OBVIOUS
        <4>2. it[s \ {k + 1}] \in V /\ k + 1 \in 1 .. n
          BY <4>1, <2>3
        <4>3. jt[s] = G[<<it[s \ {k + 1}], k + 1>>]
          BY <3>2
        <4> HIDE DEF jt
        <4> QED
          BY <4>2, <4>3
      <3>3. CASE k + 1 \notin s
        <4>1. s \in SUBSET (1 .. k)
          BY <3>3
        <4> QED
          BY <3>3, <4>1
      <3> QED
        BY <3>2, <3>3
    <2>6. ASSUME NEW s \in D
          PROVE  jt[s] = IF s = {} THEN base ELSE G[<<jt[s \ {Max(s)}], Max(s)>>]
      <3>1. CASE s = {}
        <4>1. jt[s] = it[s] /\ s \in SUBSET (1 .. k)
          BY <3>1
        <4> QED
          BY <3>1, <4>1, <2>4 DEF Iterates
      <3>2. CASE k + 1 \in s
        <4>1. Max(s) = k + 1
          <5>1. Max(s) \in s /\ \A x \in s : Max(s) >= x
            <6>1. s \in SUBSET (1 .. k + 1) /\ s # {} /\ k + 1 \in Nat
              BY <3>2
            <6> HIDE DEF jt, D
            <6> QED
              BY <6>1, MaxUpTo
          <5>2. s \subseteq 1 .. k + 1
            OBVIOUS
          <5>3. Max(s) \in 1 .. k + 1
            BY <5>1, <5>2
          <5> HIDE DEF jt, D
          <5> QED
            BY <5>1, <5>3, <3>2
        <4>2. s \ {k + 1} \in D /\ k + 1 \notin s \ {k + 1}
          OBVIOUS
        <4>3. jt[s \ {k + 1}] = it[s \ {k + 1}]
          BY <4>2
        <4> QED
          BY <3>2, <4>1, <4>3
      <3>3. CASE k + 1 \notin s /\ s # {}
        <4>1. s \in SUBSET (1 .. k)
          BY <3>3
        <4>2. s \ {Max(s)} \in SUBSET (1 .. k) /\ k + 1 \notin s \ {Max(s)}
          BY <3>3, <4>1
        <4>3. s \ {Max(s)} \in D
          OBVIOUS
        <4>4. jt[s] = it[s] /\ jt[s \ {Max(s)}] = it[s \ {Max(s)}]
          BY <3>3, <4>2, <4>3
        <4>5. it[s] = G[<<it[s \ {Max(s)}], Max(s)>>]
          BY <3>3, <4>1, <2>4 DEF Iterates
        <4> HIDE DEF jt
        <4> QED
          BY <3>3, <4>4, <4>5
      <3> QED
        BY <3>1, <3>2, <3>3
    <2>7. Iterates(jt, k + 1, base, G)
      <3>1. jt = [s \in D |-> jt[s]]
        OBVIOUS
      <3> HIDE DEF jt
      <3> QED
        BY <2>6, <3>1 DEF Iterates
    <2> HIDE DEF jt
    <2> QED
      BY <2>5, <2>7, Zenon
  <1> HIDE DEF P
  <1>3. 0 \in S /\ \A k \in Nat : k \in S => k + 1 \in S
    BY <1>1, <1>2
  <1> HIDE DEF S
  <1>4. n \in S
    BY <1>3, SetInduction
  <1>5. P(n) /\ n <= n
    BY <1>4 DEF S
  <1> QED
    BY <1>5, Zenon DEF P

(* The values a fold over a sequence of length n goes through.             *)
Steps(it, V, n, base, G) ==
    /\ it[{}] = base
    /\ \A s \in SUBSET (1 .. n) :
           s # {} /\ it[s \ {Max(s)}] \in V => it[s] = G[<<it[s \ {Max(s)}], Max(s)>>]

Values(acc, V, n, base, G, it) ==
    /\ acc \in [0 .. n -> V] /\ acc[0] = base
    /\ \A k \in 1 .. n : acc[k] = G[<<acc[k - 1], k>>]
    /\ acc[n] = it[1 .. n]

(* The values a fold goes through, from the first position to the last.    *)
LEMMA FoldValues ==
    ASSUME NEW V, NEW n \in Nat, NEW base \in V, NEW G \in [V \X (1 .. n) -> V],
           NEW it, Steps(it, V, n, base, G)
    PROVE  \E acc : Values(acc, V, n, base, G, it)
  <1> DEFINE acc == [k \in 0 .. n |-> it[1 .. k]]
             P(k) == k <= n => /\ it[1 .. k] \in V
                               /\ k > 0 => it[1 .. k] = G[<<it[1 .. k - 1], k>>]
             S == {k \in Nat : P(k)}
  <1>1. P(0)
    BY 1 .. 0 = {} DEF Steps
  <1>2. ASSUME NEW k \in Nat, P(k) PROVE P(k + 1)
    <2>3. SUFFICES ASSUME k + 1 <= n
                   PROVE  /\ it[1 .. k + 1] \in V
                          /\ it[1 .. k + 1] = G[<<it[1 .. (k + 1) - 1], k + 1>>]
      BY Zenon
    <2> DEFINE s == 1 .. k + 1
    <2>a. k + 1 <= n
      BY <2>3
    <2>b. k + 1 \in s
      OBVIOUS
    <2>c. s \subseteq 1 .. n
      BY <2>a
    <2>4. s \in SUBSET (1 .. n) /\ s # {} /\ k + 1 \in s
      BY <2>b, <2>c
    <2>5. Max(s) \in s /\ \A x \in s : Max(s) >= x
      BY <2>4, MaxUpTo
    <2>6. Max(s) = k + 1
      BY <2>4, <2>5
    <2>7. s \ {Max(s)} = 1 .. k
      BY <2>6
    <2>8. it[1 .. k] \in V
      BY <1>2, <2>3
    <2>9. it[s] = G[<<it[1 .. k], k + 1>>]
      <3> HIDE DEF s
      <3> QED
        BY <2>4, <2>6, <2>7, <2>8 DEF Steps
    <2>10. k + 1 \in 1 .. n
      BY <2>3
    <2>11. (k + 1) - 1 = k
      OBVIOUS
    <2> QED
      BY <2>8, <2>9, <2>10, <2>11
  <1> HIDE DEF P
  <1>3. 0 \in S /\ \A k \in Nat : k \in S => k + 1 \in S
    BY <1>1, <1>2
  <1> HIDE DEF S
  <1>a. \A k \in Nat : k \in S
    BY <1>3, SetInduction
  <1>b. \A k \in Nat : P(k)
    BY <1>a DEF S
  <1>4. ASSUME NEW k \in 0 .. n PROVE it[1 .. k] \in V
    <2>1. k \in Nat /\ k <= n
      OBVIOUS
    <2> QED
      BY <1>b, <2>1, Zenon DEF P
  <1>5. ASSUME NEW k \in 1 .. n PROVE it[1 .. k] = G[<<it[1 .. k - 1], k>>]
    <2>1. k \in Nat /\ k <= n /\ k > 0
      OBVIOUS
    <2> QED
      BY <1>b, <2>1, Zenon DEF P
  <1>6. acc \in [0 .. n -> V]
    BY <1>4
  <1>7. acc[0] = base
    BY 1 .. 0 = {} DEF Steps
  <1>8. ASSUME NEW k \in 1 .. n PROVE acc[k] = G[<<acc[k - 1], k>>]
    <2>1. acc[k] = it[1 .. k] /\ acc[k - 1] = it[1 .. k - 1]
      OBVIOUS
    <2> HIDE DEF acc
    <2> QED
      BY <1>5, <2>1
  <1>9. acc[n] = it[1 .. n]
    OBVIOUS
  <1> HIDE DEF acc
  <1> QED
    BY <1>6, <1>7, <1>8, <1>9 DEF Values

-----------------------------------------------------------------------------
(* The same without types: what a fold computes exists whatever its step   *)
(* makes of values it never meets.                                         *)

(* The largest element of a set of numbers from 0 up to n.                 *)
LEMMA MaxBounded ==
    ASSUME NEW n \in Nat, NEW s \in SUBSET (0 .. n), s # {}
    PROVE  Max(s) \in s /\ \A x \in s : Max(s) >= x
  <1> DEFINE t == {x \in 1 .. n : x \in s}
  <1>1. CASE t = {}
    <2>1. \A x \in s : x = 0
      BY <1>1
    <2>2. PICK z \in s : TRUE
      OBVIOUS
    <2>3. z = 0
      BY <2>1, <2>2
    <2>4. \A y \in s : z >= y
      BY <2>1, <2>3
    <2>5. \E x \in s : \A y \in s : x >= y
      BY <2>2, <2>4, Zenon
    <2> QED
      BY <2>5 DEF Max
  <1>2. CASE t # {}
    <2>1. t \in SUBSET (1 .. n)
      OBVIOUS
    <2> HIDE DEF t
    <2>2. Max(t) \in t /\ \A x \in t : Max(t) >= x
      BY <1>2, <2>1, MaxUpTo
    <2>3. Max(t) \in s /\ \A x \in s : Max(t) >= x
      BY <2>2 DEF t
    <2>4. \E x \in s : \A y \in s : x >= y
      BY <2>3
    <2> QED
      BY <2>4 DEF Max
  <1> QED
    BY <1>1, <1>2

(* The positions up to k, as a fold takes them.                            *)
LEMMA FoldPositions ==
    ASSUME NEW n \in Nat, NEW k \in 1 .. n
    PROVE  /\ 1 .. k \in SUBSET (1 .. n) /\ 1 .. k # {}
           /\ Max(1 .. k) = k /\ (1 .. k) \ {Max(1 .. k)} = 1 .. k - 1
  <1> DEFINE s == 1 .. k
  <1>1. s \in SUBSET (1 .. n) /\ k \in s
    OBVIOUS
  <1>2. \A x \in s : x \in Int /\ x <= k
    OBVIOUS
  <1> HIDE DEF s
  <1>3. Max(s) \in s /\ \A x \in s : Max(s) >= x
    BY <1>1, MaxUpTo
  <1>4. Max(s) = k
    <2> DEFINE m == Max(s)
    <2>1. m \in Int /\ m <= k
      BY <1>2, <1>3
    <2>2. m >= k
      BY <1>1, <1>3
    <2> HIDE DEF m
    <2>3. m = k
      BY <2>1, <2>2
    <2> QED
      BY <2>3 DEF m
  <1>5. s \ {k} = 1 .. k - 1
    BY DEF s
  <1>6. s \ {Max(s)} = 1 .. k - 1
    BY <1>4, <1>5
  <1>7. s # {}
    BY <1>1
  <1> QED
    BY <1>1, <1>4, <1>6, <1>7, Zenon DEF s

(* What a fold iterates up to position k + 1, given what it iterates up to *)
(* k and the values of one step more.                                      *)
OneMore(it, nx, k) ==
    [s \in SUBSET (1 .. k + 1) |-> IF k + 1 \in s THEN nx[s \ {k + 1}] ELSE it[s]]

Prolonged(jt, it, nx, k) ==
    \A s \in SUBSET (1 .. k + 1) :
        s # {} =>
          \/ /\ Max(s) = k + 1 /\ s \ {Max(s)} \in SUBSET (1 .. k)
             /\ jt[s \ {Max(s)}] = it[s \ {Max(s)}] /\ jt[s] = nx[s \ {Max(s)}]
          \/ /\ s \in SUBSET (1 .. k) /\ Max(s) \in 1 .. k
             /\ jt[s \ {Max(s)}] = it[s \ {Max(s)}] /\ jt[s] = it[s]

(* A fold over one more position, from the one over those before it.       *)
LEMMA GrowsByOne ==
    ASSUME NEW k \in Nat, NEW it, NEW nx
    PROVE  Prolonged(OneMore(it, nx, k), it, nx, k)
  <1> DEFINE D == SUBSET (1 .. k + 1)
             jt == [s \in D |-> IF k + 1 \in s THEN nx[s \ {k + 1}] ELSE it[s]]
  <1>1. SUFFICES ASSUME NEW s \in D, s # {}
                 PROVE  \/ /\ Max(s) = k + 1 /\ s \ {Max(s)} \in SUBSET (1 .. k)
                           /\ jt[s \ {Max(s)}] = it[s \ {Max(s)}] /\ jt[s] = nx[s \ {Max(s)}]
                        \/ /\ s \in SUBSET (1 .. k) /\ Max(s) \in 1 .. k
                           /\ jt[s \ {Max(s)}] = it[s \ {Max(s)}] /\ jt[s] = it[s]
    BY Zenon DEF Prolonged, OneMore
  <1>2. Max(s) \in s /\ \A x \in s : Max(s) >= x
    <2>1. k + 1 \in Nat /\ s \in SUBSET (1 .. k + 1)
      OBVIOUS
    <2> HIDE DEF jt, D
    <2> QED
      BY <1>1, <2>1, MaxUpTo
  <1>3. \A x \in s : x \in 1 .. k + 1
    OBVIOUS
  <1>4. s \ {Max(s)} \in D /\ k + 1 \notin s \ {k + 1}
    OBVIOUS
  <1>5. CASE k + 1 \in s
    <2>1. Max(s) = k + 1
      <3> HIDE DEF jt, D
      <3> QED
        BY <1>2, <1>3, <1>5
    <2>2. s \ {k + 1} \in SUBSET (1 .. k)
      BY <1>3
    <2>3. jt[s] = nx[s \ {k + 1}]
      BY <1>5
    <2>4. jt[s \ {k + 1}] = it[s \ {k + 1}]
      BY <1>4, <2>1
    <2> HIDE DEF jt
    <2> QED
      BY <2>1, <2>2, <2>3, <2>4
  <1>6. CASE k + 1 \notin s
    <2>1. s \in SUBSET (1 .. k)
      BY <1>3, <1>6
    <2>2. Max(s) \in 1 .. k
      BY <1>2, <2>1
    <2>3. jt[s] = it[s]
      BY <1>6
    <2>4. jt[s \ {Max(s)}] = it[s \ {Max(s)}]
      BY <1>4, <1>6
    <2> HIDE DEF jt
    <2> QED
      BY <2>1, <2>2, <2>3, <2>4
  <1> QED
    BY <1>5, <1>6

-----------------------------------------------------------------------------
(* The powers of the base.                                                 *)
Powers(pw, a, n) ==
    /\ pw \in [0 .. n -> Nat] /\ pw[0] = 1
    /\ \A k \in 1 .. n : pw[k] = a * pw[k - 1]

(* There are powers of a number.                                           *)
LEMMA PowersExist ==
    ASSUME NEW a \in Nat, NEW n \in Nat
    PROVE  \E pw : Powers(pw, a, n)
  <1> DEFINE G == [q \in Nat \X (1 .. n) |-> a * q[1]]
  <1>1. G \in [Nat \X (1 .. n) -> Nat]
    <2>1. ASSUME NEW q \in Nat \X (1 .. n) PROVE a * q[1] \in Nat
      <3>1. q[1] \in Nat /\ a * q[1] + 0 \in Nat
        BY StepNat
      <3> QED
        BY <3>1
    <2> QED
      BY <2>1
  <1>2. \A v \in Nat, k \in 1 .. n : G[<<v, k>>] = a * v
    OBVIOUS
  <1> HIDE DEF G
  <1>3. PICK it \in [SUBSET (1 .. n) -> Nat] : Iterates(it, n, 1, G)
    BY <1>1, FoldExists
  <1>4. Steps(it, Nat, n, 1, G)
    BY <1>3 DEF Iterates, Steps
  <1>5. PICK acc : Values(acc, Nat, n, 1, G, it)
    BY <1>1, <1>4, FoldValues
  <1>6. ASSUME NEW k \in 1 .. n PROVE acc[k] = a * acc[k - 1]
    <2>1. k - 1 \in 0 .. n /\ acc \in [0 .. n -> Nat] /\ acc[k] = G[<<acc[k - 1], k>>]
      BY <1>5 DEF Values
    <2>2. acc[k - 1] \in Nat
      BY <2>1
    <2> QED
      BY <1>2, <2>1, <2>2
  <1> QED
    BY <1>5, <1>6 DEF Values, Powers

-----------------------------------------------------------------------------
(* Polynomials.                                                            *)

(* The polynomial of a sequence of numbers, one by one.                    *)
Polynomial(acc, a, s) ==
    /\ acc \in [0 .. Len(s) -> Nat] /\ acc[0] = 0
    /\ \A k \in 1 .. Len(s) : acc[k] = a * acc[k - 1] + s[k]

(* What the fold that computes it iterates over.                           *)
Hashes(it, a, s) ==
    it = [t \in SUBSET DOMAIN s |-> IF t = {} THEN 0 ELSE a * it[t \ {Max(t)}] + s[Max(t)]]

(* The fold exists, and goes through the values of the polynomial.         *)
LEMMA PolynomialFold ==
    ASSUME NEW a \in Nat, NEW s \in Seq(Nat)
    PROVE  /\ \E it : Hashes(it, a, s)
           /\ \A jt : Hashes(jt, a, s) =>
                  \E acc : Polynomial(acc, a, s) /\ acc[Len(s)] = jt[DOMAIN s]
  <1> DEFINE n == Len(s)
             G == [p \in Nat \X (1 .. n) |-> a * p[1] + s[p[2]]]
  <1>1. /\ n \in Nat /\ DOMAIN s = 1 .. n
        /\ \A k \in 1 .. n : s[k] \in Nat
    BY ElementOfSeq, LenProperties
  <1> HIDE DEF n
  <1>2. G \in [Nat \X (1 .. n) -> Nat]
    <2>1. ASSUME NEW p \in Nat \X (1 .. n) PROVE a * p[1] + s[p[2]] \in Nat
      <3>1. p[1] \in Nat /\ s[p[2]] \in Nat
        BY <1>1
      <3> QED
        BY <1>1, <3>1, StepNat
    <2> QED
      BY <2>1
  <1>3. \A v \in Nat, k \in 1 .. n : G[<<v, k>>] = a * v + s[k]
    OBVIOUS
  <1> HIDE DEF G
  <1>4. PICK it \in [SUBSET (1 .. n) -> Nat] : Iterates(it, n, 0, G)
    BY <1>1, <1>2, FoldExists
  <1>5. Hashes(it, a, s)
    <2>1. ASSUME NEW t \in SUBSET (1 .. n), t # {}
          PROVE  G[<<it[t \ {Max(t)}], Max(t)>>] = a * it[t \ {Max(t)}] + s[Max(t)]
      <3>1. Max(t) \in 1 .. n
        BY <2>1, <1>1, MaxUpTo
      <3> QED
        BY <3>1, <1>3
    <2> QED
      BY <1>1, <1>4, <2>1 DEF Iterates, Hashes
  <1>6. ASSUME NEW jt, Hashes(jt, a, s)
        PROVE  \E acc : Polynomial(acc, a, s) /\ acc[Len(s)] = jt[DOMAIN s]
    <2>1. Steps(jt, Nat, n, 0, G)
      <3>1. jt[{}] = 0
        BY <1>6 DEF Hashes
      <3>2. ASSUME NEW t \in SUBSET (1 .. n), t # {}, jt[t \ {Max(t)}] \in Nat
            PROVE  jt[t] = G[<<jt[t \ {Max(t)}], Max(t)>>]
        <4>1. Max(t) \in 1 .. n
          BY <3>2, <1>1, MaxUpTo
        <4>2. jt[t] = a * jt[t \ {Max(t)}] + s[Max(t)]
          BY <1>1, <1>6, <3>2 DEF Hashes
        <4> QED
          BY <1>3, <3>2, <4>1, <4>2
      <3> QED
        BY <3>1, <3>2, Zenon DEF Steps
    <2>2. PICK acc : Values(acc, Nat, n, 0, G, jt)
      BY <1>1, <1>2, <2>1, FoldValues
    <2>3. /\ acc \in [0 .. n -> Nat] /\ acc[0] = 0
          /\ \A k \in 1 .. n : acc[k] = G[<<acc[k - 1], k>>]
          /\ acc[n] = jt[DOMAIN s]
      BY <1>1, <2>2 DEF Values
    <2>4. ASSUME NEW k \in 1 .. n PROVE acc[k] = a * acc[k - 1] + s[k]
      <3>1. k - 1 \in 0 .. n
        BY <1>1
      <3>2. acc[k - 1] \in Nat
        BY <3>1, <2>3
      <3> QED
        BY <1>3, <2>3, <3>2
    <2>5. Polynomial(acc, a, s)
      BY <2>3, <2>4 DEF Polynomial, n
    <2> QED
      BY <2>3, <2>5 DEF n
  <1> QED
    BY <1>5, <1>6
-----------------------------------------------------------------------------
(* Sums.                                                                   *)

(* The numbers to be added to a first one.                                 *)
Summands(n, base, f) == n \in Nat /\ base \in Nat /\ f \in [1 .. n -> Nat]

(* The sum of base and of n numbers, from the first to the last.           *)
Running(acc, n, base, f) ==
    /\ acc \in [0 .. n -> Nat] /\ acc[0] = base
    /\ \A k \in 1 .. n : acc[k] = f[k] + acc[k - 1]

(* What a sum over sets of positions does, the last of them first.         *)
TopDown(it, n, base, f) ==
    /\ Summands(n, base, f)
    /\ it \in [SUBSET (1 .. n) -> Nat] /\ it[{}] = base
    /\ \A s \in SUBSET (1 .. n) : s # {} => it[s] = f[Max(s)] + it[s \ {Max(s)}]

(* What FoldFunction(+, base, f) iterates over: in any order.              *)
Sums(it, base, f) ==
    it = [s \in SUBSET DOMAIN f |->
             IF s = {} THEN base
             ELSE f[CHOOSE x \in s : TRUE] + it[s \ {CHOOSE x \in s : TRUE}]]

(* There is a sum that takes the last position first.                      *)
LEMMA SumExists ==
    ASSUME NEW n \in Nat, NEW base \in Nat, NEW f \in [1 .. n -> Nat]
    PROVE  \E it, acc : /\ TopDown(it, n, base, f) /\ Running(acc, n, base, f)
                        /\ acc[n] = it[1 .. n]
  <1> DEFINE G == [p \in Nat \X (1 .. n) |-> f[p[2]] + p[1]]
  <1>1. G \in [Nat \X (1 .. n) -> Nat]
    OBVIOUS
  <1>2. \A v \in Nat, k \in 1 .. n : G[<<v, k>>] = f[k] + v
    OBVIOUS
  <1> HIDE DEF G
  <1>3. PICK it \in [SUBSET (1 .. n) -> Nat] : Iterates(it, n, base, G)
    BY <1>1, FoldExists
  <1>4. TopDown(it, n, base, f)
    <2>1. ASSUME NEW s \in SUBSET (1 .. n), s # {}
          PROVE  it[s] = f[Max(s)] + it[s \ {Max(s)}]
      <3>1. Max(s) \in 1 .. n
        BY <2>1, MaxUpTo
      <3>2. it[s] = G[<<it[s \ {Max(s)}], Max(s)>>]
        BY <1>3, <2>1 DEF Iterates
      <3>3. it[s \ {Max(s)}] \in Nat
        OBVIOUS
      <3> QED
        BY <1>2, <3>1, <3>2, <3>3
    <2>2. it[{}] = base
      BY <1>3 DEF Iterates
    <2> QED
      BY <2>1, <2>2 DEF TopDown, Summands
  <1>5. Steps(it, Nat, n, base, G)
    BY <1>3 DEF Iterates, Steps
  <1>6. PICK acc : Values(acc, Nat, n, base, G, it)
    BY <1>1, <1>5, FoldValues
  <1>7. ASSUME NEW k \in 1 .. n PROVE acc[k] = f[k] + acc[k - 1]
    <2>1. k - 1 \in 0 .. n /\ acc \in [0 .. n -> Nat] /\ acc[k] = G[<<acc[k - 1], k>>]
      BY <1>6 DEF Values
    <2>2. acc[k - 1] \in Nat
      BY <2>1
    <2> QED
      BY <1>2, <2>1, <2>2
  <1>8. Running(acc, n, base, f) /\ acc[n] = it[1 .. n]
    BY <1>6, <1>7 DEF Values, Running
  <1> QED
    BY <1>4, <1>8

(* The same sum, any position first.                                       *)
AnyOrder(it, n, f) ==
    \A s \in SUBSET (1 .. n) : \A y \in s : it[s] = f[y] + it[s \ {y}]

(* The largest of a set of numbers up to k + 1 that contains it.           *)
LEMMA TopOfSet ==
    ASSUME NEW k \in Nat, NEW s \in SUBSET (1 .. k + 1), k + 1 \in s
    PROVE  Max(s) = k + 1
  <1>1. s # {} /\ k + 1 \in Nat
    OBVIOUS
  <1>2. Max(s) \in s /\ \A x \in s : Max(s) >= x
    BY <1>1, MaxUpTo
  <1>3. Max(s) \in 1 .. k + 1
    BY <1>2
  <1> QED
    BY <1>2, <1>3

(* The sum that takes the last position first may take any other.          *)
LEMMA SumAnyOrder ==
    ASSUME NEW n, NEW base, NEW f, NEW it, TopDown(it, n, base, f)
    PROVE  AnyOrder(it, n, f)
  <1> DEFINE P(k) == k <= n =>
                        \A s \in SUBSET (1 .. k) : \A y \in s : it[s] = f[y] + it[s \ {y}]
             S == {k \in Nat : P(k)}
  <1>0. n \in Nat /\ f \in [1 .. n -> Nat]
    BY DEF TopDown, Summands
  <1>1. P(0)
    OBVIOUS
  <1>2. ASSUME NEW k \in Nat, P(k) PROVE P(k + 1)
    <2>1. SUFFICES ASSUME k + 1 <= n, NEW s \in SUBSET (1 .. k + 1), NEW y \in s
                   PROVE  it[s] = f[y] + it[s \ {y}]
      OBVIOUS
    <2>2. \A t \in SUBSET (1 .. k) : \A x \in t : it[t] = f[x] + it[t \ {x}]
      <3>1. k <= n
        BY <1>0, <2>1
      <3> QED
        BY <1>2, <3>1, Zenon
    <2>3. CASE k + 1 \notin s
      <3>1. s \in SUBSET (1 .. k)
        BY <2>3
      <3> QED
        BY <2>2, <3>1
    <2>4. CASE y = k + 1
      <3>1. s \in SUBSET (1 .. n) /\ s # {} /\ Max(s) = k + 1
        BY <1>0, <2>1, <2>4, TopOfSet
      <3> QED
        BY <2>4, <3>1 DEF TopDown
    <2>5. CASE k + 1 \in s /\ y # k + 1
      <3> DEFINE u == s \ {k + 1}
                 t == s \ {y}
                 w == u \ {y}
      <3>1. /\ u \in SUBSET (1 .. k) /\ y \in u /\ t \in SUBSET (1 .. k + 1) /\ k + 1 \in t
            /\ w = t \ {k + 1}
        BY <2>5
      <3>2. s \in SUBSET (1 .. n) /\ t \in SUBSET (1 .. n) /\ w \in SUBSET (1 .. n)
            /\ y \in 1 .. n /\ k + 1 \in 1 .. n
        BY <1>0, <2>1, <3>1
      <3>3. Max(s) = k + 1 /\ Max(t) = k + 1
        BY <2>5, <3>1, TopOfSet
      <3>4. it[u] = f[y] + it[w]
        BY <2>2, <3>1
      <3>5. it[s] = f[k + 1] + it[u] /\ it[t] = f[k + 1] + it[w]
        <4>1. s # {} /\ t # {}
          BY <2>5, <3>1
        <4> QED
          BY <3>1, <3>2, <3>3, <4>1 DEF TopDown
      <3>6. f[y] \in Nat /\ f[k + 1] \in Nat /\ it[w] \in Nat
        BY <1>0, <3>2 DEF TopDown
      <3> HIDE DEF u, t, w
      <3>7. it[s] = f[y] + it[t]
        BY <3>4, <3>5, <3>6
      <3> QED
        BY <3>7 DEF t
    <2> QED
      BY <2>3, <2>4, <2>5
  <1> HIDE DEF P
  <1>3. 0 \in S /\ \A k \in Nat : k \in S => k + 1 \in S
    BY <1>1, <1>2
  <1> HIDE DEF S
  <1>4. n \in S
    BY <1>0, <1>3, SetInduction
  <1>5. P(n) /\ n <= n
    BY <1>0, <1>4 DEF S
  <1> QED
    BY <1>5, Zenon DEF P, AnyOrder

(* So every sum that FoldFunction may compute is this one.                 *)
LEMMA SumUnique ==
    ASSUME NEW n, NEW base, NEW f, NEW it, NEW jt,
           TopDown(it, n, base, f), Sums(jt, base, f)
    PROVE  jt[1 .. n] = it[1 .. n]
  <1> DEFINE P(k) == \A s \in SUBSET (1 .. n) : Cardinality(s) = k => jt[s] = it[s]
             S == {k \in Nat : P(k)}
  <1>0. DOMAIN f = 1 .. n /\ n \in Nat
    BY DEF TopDown, Summands
  <1>1. \A s \in SUBSET (1 .. n) : IsFiniteSet(s)
    <2>1. IsFiniteSet(1 .. n)
      BY <1>0, FS_Interval
    <2> QED
      BY <2>1, FS_Subset
  <1>2. P(0)
    <2>1. \A s \in SUBSET (1 .. n) : Cardinality(s) = 0 => s = {}
      BY <1>1, FS_EmptySet
    <2>2. jt[{}] = it[{}]
      BY <1>0 DEF Sums, TopDown
    <2> QED
      BY <2>1, <2>2
  <1>3. ASSUME NEW k \in Nat, P(k) PROVE P(k + 1)
    <2>1. SUFFICES ASSUME NEW s \in SUBSET (1 .. n), Cardinality(s) = k + 1
                   PROVE  jt[s] = it[s]
      OBVIOUS
    <2> DEFINE x == CHOOSE y \in s : TRUE
    <2>2. s # {}
      BY <2>1, FS_EmptySet
    <2>3. x \in s
      BY <2>2
    <2>4. jt[s] = f[x] + jt[s \ {x}]
      BY <1>0, <2>2 DEF Sums
    <2> HIDE DEF x
    <2>5. s \ {x} \in SUBSET (1 .. n) /\ Cardinality(s \ {x}) = k
      <3>1. IsFiniteSet(s)
        BY <1>1
      <3>2. Cardinality(s \ {x}) = Cardinality(s) - 1
        BY <2>3, <3>1, FS_RemoveElement
      <3>3. Cardinality(s \ {x}) = k
        <4> DEFINE c == Cardinality(s)
                   d == Cardinality(s \ {x})
        <4>1. c = k + 1 /\ d = c - 1
          BY <2>1, <3>2
        <4> HIDE DEF c, d
        <4>2. d = k
          BY <4>1
        <4> QED
          BY <4>2 DEF d
      <3> QED
        BY <3>3
    <2>6. jt[s \ {x}] = it[s \ {x}]
      BY <1>3, <2>5
    <2>7. it[s] = f[x] + it[s \ {x}]
      BY <2>3, SumAnyOrder DEF AnyOrder
    <2> QED
      BY <2>4, <2>6, <2>7
  <1> HIDE DEF P
  <1>4. 0 \in S /\ \A k \in Nat : k \in S => k + 1 \in S
    BY <1>2, <1>3
  <1>5. Cardinality(1 .. n) \in Nat
    BY <1>1, FS_CardinalityType
  <1> HIDE DEF S
  <1>6. Cardinality(1 .. n) \in S
    BY <1>4, <1>5, SetInduction
  <1> QED
    BY <1>6 DEF S, P

(* It is one of the sums that FoldFunction may compute.                    *)
LEMMA SumDefined ==
    ASSUME NEW n, NEW base, NEW f, NEW it, TopDown(it, n, base, f)
    PROVE  Sums(it, base, f)
  <1>1. \A s \in SUBSET (1 .. n) :
            s # {} => it[s] = f[CHOOSE x \in s : TRUE] + it[s \ {CHOOSE x \in s : TRUE}]
    <2>1. AnyOrder(it, n, f)
      BY SumAnyOrder
    <2> QED
      BY <2>1 DEF AnyOrder
  <1>2. DOMAIN f = 1 .. n /\ it[{}] = base /\ it \in [SUBSET (1 .. n) -> Nat]
    BY DEF TopDown, Summands
  <1> QED
    BY <1>1, <1>2 DEF Sums

(* As there is one, FoldFunction computes such a sum.                      *)
LEMMA FoldIsSum ==
    ASSUME NEW base, NEW f, NEW jt, Sums(jt, base, f)
    PROVE  \E it : Sums(it, base, f) /\ FoldFunction(+, base, f) = it[DOMAIN f]
  BY DEF FoldFunction, FoldFunctionOnSet, MapThenFoldSet, Sums

(* What FoldFunction adds up.                                              *)
Total(base, f) == FoldFunction(+, base, f)

SumIs(acc, n, base, f) == Running(acc, n, base, f) /\ Total(base, f) = acc[n]

(* It is base and the values of f, added up.                               *)
LEMMA SumOfFunction ==
    ASSUME NEW n, NEW base, NEW f, Summands(n, base, f)
    PROVE  \E acc : SumIs(acc, n, base, f)
  <1>0. n \in Nat /\ base \in Nat /\ f \in [1 .. n -> Nat]
    BY DEF Summands
  <1>1. PICK it, acc : /\ TopDown(it, n, base, f) /\ Running(acc, n, base, f)
                       /\ acc[n] = it[1 .. n]
    BY <1>0, SumExists
  <1>2. Sums(it, base, f)
    BY <1>1, SumDefined
  <1>3. PICK jt : Sums(jt, base, f) /\ FoldFunction(+, base, f) = jt[DOMAIN f]
    BY <1>2, FoldIsSum
  <1>4. jt[1 .. n] = it[1 .. n]
    <2>1. Sums(jt, base, f)
      BY <1>3
    <2>2. TopDown(it, n, base, f)
      BY <1>1
    <2> QED
      BY <2>1, <2>2, SumUnique
  <1>5. DOMAIN f = 1 .. n
    BY <1>0
  <1> QED
    BY <1>1, <1>3, <1>4, <1>5 DEF SumIs, Total

(* One value more is added to the sum.                                     *)
LEMMA SumOneMore ==
    ASSUME NEW n, NEW base, NEW f, NEW g, Summands(n, base, f), Summands(n + 1, base, g),
           \A k \in 1 .. n : g[k] = f[k]
    PROVE  Total(base, g) = Total(base, f) + g[n + 1]
  <1>0. n \in Nat /\ g \in [1 .. n + 1 -> Nat]
    BY DEF Summands
  <1>1. PICK a : SumIs(a, n, base, f)
    BY SumOfFunction
  <1>2. PICK b : SumIs(b, n + 1, base, g)
    BY SumOfFunction
  <1>3. SameSteps(a, b, n)
    <2>1. \A k \in 1 .. n : b[k] = f[k] + b[k - 1] /\ a[k] = f[k] + a[k - 1]
      <3>1. \A k \in 1 .. n : k \in 1 .. n + 1
        BY <1>0
      <3> QED
        BY <1>1, <1>2, <3>1 DEF SumIs, Running
    <2>2. a[0] = b[0]
      BY <1>1, <1>2 DEF SumIs, Running
    <2> QED
      BY <2>1, <2>2 DEF SameSteps
  <1>4. a[n] = b[n] /\ a[n] \in Nat
    <2>1. SameTo(a, b, n)
      BY <1>0, <1>3, SameValues
    <2>2. n \in 0 .. n
      BY <1>0
    <2> QED
      BY <1>1, <2>1, <2>2 DEF SameTo, SumIs, Running
  <1>5. b[n + 1] = g[n + 1] + b[n] /\ g[n + 1] \in Nat
    <2>1. n + 1 \in 1 .. n + 1 /\ (n + 1) - 1 = n
      BY <1>0
    <2> QED
      BY <1>0, <1>2, <2>1 DEF SumIs, Running
  <1>6. Total(base, f) = a[n] /\ Total(base, g) = b[n + 1]
    BY <1>1, <1>2 DEF SumIs
  <1>7. b[n + 1] = a[n] + g[n + 1]
    BY <1>4, <1>5
  <1> QED
    BY <1>6, <1>7, Zenon

-----------------------------------------------------------------------------
(* Recursion on quotients.                                                 *)

(* A quotient is smaller.                                                  *)
LEMMA QuotientSmaller ==
    ASSUME NEW v \in Nat, v # 0, NEW m \in Nat \ {0, 1}
    PROVE  v \div m \in 0 .. v - 1
  <1> DEFINE q == v \div m
             r == v % m
             x == m - 2
             y == x * q
  <1>1. q \in Nat /\ r \in Nat /\ v = m * q + r
    BY Division
  <1> HIDE DEF q, r
  <1>2. x \in Nat
    OBVIOUS
  <1>3. y \in Nat
    <2>1. x * q + 0 \in Nat
      BY <1>1, <1>2, StepNat
    <2> HIDE DEF x
    <2> QED
      BY <1>1, <1>2, <2>1
  <1>4. m * q = y + 2 * q
    BY <1>1
  <1> HIDE DEF y
  <1>5. q <= v - 1
    <2> DEFINE z == m * q
    <2>1. v = z + r /\ z = y + 2 * q
      BY <1>1, <1>4
    <2> HIDE DEF z
    <2> QED
      BY <1>1, <1>3, <2>1
  <1>6. q \in 0 .. v - 1
    BY <1>1, <1>5
  <1> QED
    BY <1>6 DEF q

(* So that a value is only asked for where it is already known.            *)
LEMMA QuotientOfNext ==
    ASSUME NEW k \in Nat, NEW m \in Nat \ {0, 1}
    PROVE  (k + 1) \div m \in 0 .. k
  <1> DEFINE v == k + 1
             q == v \div m
  <1>1. v \in Nat /\ v # 0 /\ v - 1 = k
    OBVIOUS
  <1> HIDE DEF v
  <1>2. q \in 0 .. v - 1
    BY <1>1, QuotientSmaller
  <1> HIDE DEF q
  <1>3. q \in 0 .. k
    BY <1>1, <1>2
  <1> QED
    BY <1>3 DEF q, v

(* A function of all numbers up to n that is recursive in the quotient.    *)
Divides(f, V, n, m, B, G) ==
    /\ f \in [0 .. n -> V]
    /\ \A v \in 0 .. n : f[v] = IF v < m THEN B[v] ELSE G[<<f[v \div m], v>>]

(* What such a function is made from.                                      *)
Divisible(V, m, B, G) ==
    m \in Nat \ {0, 1} /\ B \in [0 .. m - 1 -> V] /\ G \in [V \X Nat -> V]

(* There is one.                                                           *)
LEMMA DividesExists ==
    ASSUME NEW V, NEW m, NEW B, NEW G, Divisible(V, m, B, G), NEW n \in Nat
    PROVE  \E f : Divides(f, V, n, m, B, G)
  <1> DEFINE P(k) == \E f : Divides(f, V, k, m, B, G)
             S == {k \in Nat : P(k)}
  <1>0. m \in Nat \ {0, 1} /\ B \in [0 .. m - 1 -> V] /\ G \in [V \X Nat -> V]
    BY DEF Divisible
  <1>1. P(0)
    <2> DEFINE f == [v \in 0 .. 0 |-> B[0]]
    <2>1. 0 \in 0 .. m - 1 /\ 0 < m
      BY <1>0
    <2>2. f \in [0 .. 0 -> V] /\ \A v \in 0 .. 0 : v = 0 /\ f[v] = B[v]
      BY <1>0, <2>1
    <2>3. Divides(f, V, 0, m, B, G)
      BY <2>1, <2>2 DEF Divides
    <2> QED
      BY <2>3
  <1>2. ASSUME NEW k \in Nat, P(k) PROVE P(k + 1)
    <2>1. PICK f : Divides(f, V, k, m, B, G)
      BY <1>2
    <2> DEFINE new == IF k + 1 < m THEN B[k + 1] ELSE G[<<f[(k + 1) \div m], k + 1>>]
               g == [v \in 0 .. k + 1 |-> IF v = k + 1 THEN new ELSE f[v]]
    <2>2. (k + 1) \div m \in 0 .. k
      BY <1>0, QuotientOfNext
    <2>3. f \in [0 .. k -> V]
      BY <2>1 DEF Divides
    <2>4. new \in V
      <3>1. k + 1 < m => k + 1 \in 0 .. m - 1
        BY <1>0
      <3>2. f[(k + 1) \div m] \in V
        BY <2>2, <2>3
      <3> QED
        BY <1>0, <3>1, <3>2
    <2>5. g \in [0 .. k + 1 -> V]
      <3> HIDE DEF new
      <3> QED
        BY <2>3, <2>4
    <2>6. ASSUME NEW v \in 0 .. k + 1
          PROVE  g[v] = IF v < m THEN B[v] ELSE G[<<g[v \div m], v>>]
      <3>1. CASE v = k + 1
        <4>1. g[v \div m] = f[v \div m]
          BY <2>2, <3>1
        <4>2. g[v] = new
          BY <3>1
        <4> HIDE DEF g
        <4> QED
          BY <3>1, <4>1, <4>2
      <3>2. CASE v \in 0 .. k
        <4>1. v < m \/ v \div m \in 0 .. k
          <5> DEFINE q == v \div m
          <5>0. v \in Nat
            BY <3>2
          <5>1. CASE v = 0
            BY <1>0, <5>1
          <5>2. CASE v # 0
            <6>1. q \in 0 .. v - 1
              BY <1>0, <5>0, <5>2, QuotientSmaller
            <6> HIDE DEF q
            <6>2. q \in 0 .. k
              BY <3>2, <6>1
            <6> QED
              BY <6>2 DEF q
          <5> QED
            BY <5>1, <5>2
        <4>2. g[v] = f[v] /\ (v \div m \in 0 .. k => g[v \div m] = f[v \div m])
          BY <3>2
        <4>3. f[v] = IF v < m THEN B[v] ELSE G[<<f[v \div m], v>>]
          BY <2>1, <3>2 DEF Divides
        <4> HIDE DEF g
        <4> QED
          BY <4>1, <4>2, <4>3
      <3> QED
        BY <3>1, <3>2
    <2> HIDE DEF g
    <2>7. Divides(g, V, k + 1, m, B, G)
      BY <2>5, <2>6 DEF Divides
    <2> QED
      BY <2>7
  <1> HIDE DEF P
  <1>3. 0 \in S /\ \A k \in Nat : k \in S => k + 1 \in S
    BY <1>1, <1>2
  <1> HIDE DEF S
  <1>4. n \in S
    BY <1>3, SetInduction
  <1> QED
    BY <1>4 DEF S, P

(* Two such functions agree where both are defined.                        *)
LEMMA DividesUnique ==
    ASSUME NEW V, NEW m, NEW B, NEW G, Divisible(V, m, B, G), NEW n \in Nat, NEW p \in Nat,
           NEW f, Divides(f, V, n, m, B, G), NEW g, Divides(g, V, p, m, B, G),
           NEW w \in 0 .. n, w \in 0 .. p
    PROVE  f[w] = g[w]
  <1> DEFINE S == {k \in Nat : \A v \in 0 .. k : v \in 0 .. n /\ v \in 0 .. p => f[v] = g[v]}
  <1>0. m \in Nat \ {0, 1}
    BY DEF Divisible
  <1>1. ASSUME NEW v \in Nat, v \in 0 .. n, v \in 0 .. p,
               v # 0 => f[v \div m] = g[v \div m]
        PROVE  f[v] = g[v]
    <2>1. /\ f[v] = IF v < m THEN B[v] ELSE G[<<f[v \div m], v>>]
          /\ g[v] = IF v < m THEN B[v] ELSE G[<<g[v \div m], v>>]
      BY <1>1 DEF Divides
    <2>2. v < m \/ v # 0
      BY <1>0
    <2> QED
      BY <1>1, <2>1, <2>2
  <1>2. 0 \in S
    BY <1>1
  <1>3. ASSUME NEW k \in Nat, k \in S PROVE k + 1 \in S
    <2>1. SUFFICES ASSUME k + 1 \in 0 .. n, k + 1 \in 0 .. p PROVE f[k + 1] = g[k + 1]
      BY <1>3
    <2>2. (k + 1) \div m \in 0 .. k
      BY <1>0, QuotientOfNext
    <2>3. (k + 1) \div m \in 0 .. n /\ (k + 1) \div m \in 0 .. p
      BY <2>1, <2>2
    <2>4. f[(k + 1) \div m] = g[(k + 1) \div m]
      BY <1>3, <2>2, <2>3
    <2> QED
      BY <1>1, <2>1, <2>4
  <1> HIDE DEF S
  <1>4. w \in S
    <2>1. w \in Nat /\ Nat \subseteq S
      BY <1>2, <1>3, SetInduction
    <2> QED
      BY <2>1
  <1> QED
    BY <1>4 DEF S

(* So there is one for all numbers.                                        *)
LEMMA QuotientRecursion ==
    ASSUME NEW V, NEW m, NEW B, NEW G, Divisible(V, m, B, G)
    PROVE  \E f \in [Nat -> V] :
               \A v \in Nat : f[v] = IF v < m THEN B[v] ELSE G[<<f[v \div m], v>>]
  <1> DEFINE part(n) == CHOOSE g : Divides(g, V, n, m, B, G)
             f == [v \in Nat |-> part(v)[v]]
  <1>0. m \in Nat \ {0, 1}
    BY DEF Divisible
  <1>1. \A n \in Nat : Divides(part(n), V, n, m, B, G)
    <2> SUFFICES ASSUME NEW n \in Nat PROVE Divides(part(n), V, n, m, B, G)
      OBVIOUS
    <2>1. \E g : Divides(g, V, n, m, B, G)
      BY DividesExists
    <2> QED
      BY <2>1
  <1> HIDE DEF part
  <1>2. f \in [Nat -> V]
    <2>1. ASSUME NEW v \in Nat PROVE part(v)[v] \in V
      BY <1>1 DEF Divides
    <2> QED
      BY <2>1
  <1>3. ASSUME NEW v \in Nat
        PROVE  f[v] = IF v < m THEN B[v] ELSE G[<<f[v \div m], v>>]
    <2> DEFINE g == part(v)
               q == v \div m
               h == part(q)
    <2>1. Divides(g, V, v, m, B, G) /\ v \in 0 .. v
      BY <1>1
    <2>2. g[v] = IF v < m THEN B[v] ELSE G[<<g[q], v>>]
      BY <2>1 DEF Divides
    <2>3. v >= m => q \in 0 .. v /\ q \in Nat
      <3>1. v # 0 => q \in 0 .. v - 1
        <4> SUFFICES ASSUME v # 0 PROVE q \in 0 .. v - 1
          OBVIOUS
        <4> QED
          BY <1>0, QuotientSmaller
      <3> HIDE DEF q
      <3> QED
        BY <1>0, <3>1
    <2>4. f[v] = g[v] /\ (q \in Nat => f[q] = h[q])
      OBVIOUS
    <2>5. q \in Nat => Divides(h, V, q, m, B, G) /\ q \in 0 .. q
      BY <1>1
    <2> HIDE DEF f, g, h, q
    <2>6. v >= m => h[q] = g[q]
      BY <2>1, <2>3, <2>5, DividesUnique
    <2>7. ~(v < m) => f[q] = g[q]
      BY <1>0, <2>3, <2>4, <2>6
    <2>9. f[v] = IF v < m THEN B[v] ELSE G[<<f[q], v>>]
      BY <2>2, <2>4, <2>7
    <2> QED
      BY <2>9 DEF q
  <1> HIDE DEF f
  <1> QED
    BY <1>2, <1>3
=============================================================================
