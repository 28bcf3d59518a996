-------------------------- MODULE Signature_proofs --------------------------
(***************************************************************************)
(* Signing, for every length of the window, of the chunks, of the file and *)
(* of the read-ahead buffer, every fingerprint and every choice of cuts;   *)
(* and the fingerprint of RKFinger, for every base, modulus and width of a *)
(* word.                                                                   *)
(***************************************************************************)
EXTENDS Signature, FileIO_proofs

-----------------------------------------------------------------------------
(* The reduction and the rolling step of RKFinger.                         *)

(* One fold and one subtraction are the remainder, as long as the part     *)
(* above the low bits is smaller than the modulus: reduce()'s fast path,   *)
(* under the condition configure_fast_reduction() establishes.             *)
LEMMA FoldIsRemainder ==
    ASSUME NEW m \in Nat \ {0}, NEW v \in Nat, v \div (m + 1) < m
    PROVE  LET folded == (v % (m + 1)) + (v \div (m + 1))
           IN  (IF folded >= m THEN folded - m ELSE folded) = v % m
  <1> DEFINE q == v \div (m + 1)
             r == v % (m + 1)
             x == IF r + q >= m THEN r + q - m ELSE r + q
  <1>1. /\ q \in Nat /\ r \in 0 .. m /\ q < m
        /\ v = (m + 1) * q + r
    <2>1. m + 1 \in Nat \ {0}
      OBVIOUS
    <2>2. /\ v % (m + 1) \in 0 .. (m + 1) - 1 /\ v \div (m + 1) \in Nat
          /\ v = (m + 1) * (v \div (m + 1)) + (v % (m + 1))
      BY <2>1, Division
    <2> QED
      BY <2>2
  <1>2. x = v % m
    <2> HIDE DEF q, r
    <2>1. CASE r + q >= m
      <3>1. /\ v = m * (q + 1) + x
            /\ x \in 0 .. m - 1 /\ q + 1 \in Nat
        BY <1>1, <2>1
      <3> QED
        BY <3>1, RemainderUnique
    <2>2. CASE ~(r + q >= m)
      <3>1. v = m * q + x /\ x \in 0 .. m - 1 /\ q \in Nat
        BY <1>1, <2>2
      <3> QED
        BY <3>1, RemainderUnique
    <2> QED
      BY <2>1, <2>2
  <1> QED
    BY <1>2

(* A larger number has no smaller quotient.                                *)
LEMMA QuotientMonotone ==
    ASSUME NEW m \in Nat \ {0}, NEW w \in Nat, NEW v \in 0 .. w
    PROVE  v \div m <= w \div m
  <1> DEFINE q == v \div m
             s == w \div m
  <1>1. /\ q \in Nat /\ s \in Nat
        /\ v >= m * q /\ w < m * (s + 1)
    BY Division
  <1> HIDE DEF q, s
  <1>2. ASSUME q >= s + 1 PROVE FALSE
    <2>1. m * q >= m * (s + 1)
      BY <1>1, <1>2
    <2> QED
      BY <1>1, <2>1
  <1>3. q <= s
    BY <1>1, <1>2
  <1> QED
    BY <1>3 DEF q, s

LEMMA MaxOfTwo ==
    ASSUME NEW a \in Int, NEW b \in Int
    PROVE  Max({a, b}) \in {a, b} /\ Max({a, b}) >= a /\ Max({a, b}) >= b
  BY DEF Max

LEMMA MaxInputNat ==
    ASSUME NEW p, p.alphabet \in Nat, p.modulus \in Nat \ {0}
    PROVE  MaxInput(p) \in Nat
  <1> DEFINE x == 2 * p.alphabet * p.modulus + MaxByte
             y == MaxByte * (p.modulus - 1)
  <1>1. x \in Nat /\ y \in Nat
    BY RollingAssumption
  <1>2. MaxInput(p) = Max({x, y})
    BY DEF MaxInput
  <1> HIDE DEF x, y
  <1>4. x \in Int /\ y \in Int
    BY <1>1
  <1>3. Max({x, y}) \in {x, y}
    BY <1>4, MaxOfTwo
  <1> QED
    BY <1>1, <1>2, <1>3

(* reduce() is the remainder of every value the class hands to it, whether *)
(* or not it takes the fast path (RK_finger.hpp: "both paths compute       *)
(* exactly value % modulus_").                                             *)
THEOREM ReduceIsRemainder ==
    ASSUME NEW p, p.alphabet \in Nat, p.modulus \in Nat \ {0},
           NEW v \in 0 .. MaxInput(p)
    PROVE  Reduce(p, v) = v % p.modulus
  <1> DEFINE m == p.modulus
             w == MaxInput(p)
  <1>1. w \in Nat
    BY MaxInputNat
  <1>2. CASE Folds(p)
    <2>1. v \div (m + 1) <= w \div (m + 1)
      <3>1. m + 1 \in Nat \ {0}
        OBVIOUS
      <3> HIDE DEF m, w
      <3> QED
        BY <1>1, <3>1, QuotientMonotone DEF w
    <2>2. v \div (m + 1) < m
      <3>1. /\ m + 1 \in Nat \ {0} /\ v \in Nat
            /\ w \div (m + 1) < m
        BY <1>1, <1>2 DEF Folds
      <3>2. v \div (m + 1) \in Nat /\ w \div (m + 1) \in Nat
        BY <1>1, <3>1, Division
      <3> QED
        BY <2>1, <3>1, <3>2
    <2>3. v \in Nat
      BY <1>1
    <2> QED
      BY <1>2, <2>2, <2>3, FoldIsRemainder DEF Reduce
  <1>3. CASE ~Folds(p)
    BY <1>3 DEF Reduce
  <1> QED
    BY <1>2, <1>3

(* What compute_next() works with: a fingerprint and a reduced product     *)
(* below the modulus, bytes, and a weight h_ that is 1 or was reduced.     *)
Rolling(p, print, leaving, weight, old, byte) ==
    /\ p.alphabet \in Nat /\ p.modulus \in Nat
    /\ print \in 0 .. p.modulus - 1 /\ leaving \in 0 .. p.modulus - 1
    /\ weight \in 0 .. p.modulus - 1 \/ weight = 1
    /\ old \in 0 .. MaxByte /\ byte \in 0 .. MaxByte

(* Nothing that compute_next() computes wraps around a word, for all       *)
(* parameters the constructor accepts: neither the product with the weight *)
(* of the byte that leaves nor the sum that is reduced; and both are       *)
(* within the bound that configure_fast_reduction() takes for granted.     *)
THEOREM NoWrapAround ==
    ASSUME NEW p, Accepted(p), NEW print, NEW leaving, NEW weight, NEW old, NEW byte,
           Rolling(p, print, leaving, weight, old, byte)
    PROVE  /\ Word(old * weight) = old * weight
           /\ Word(p.alphabet * (print + p.modulus - leaving) + byte)
                = p.alphabet * (print + p.modulus - leaving) + byte
           /\ old * weight \in 0 .. MaxInput(p)
           /\ p.alphabet * (print + p.modulus - leaving) + byte \in 0 .. MaxInput(p)
  <1> DEFINE m == p.modulus
             a == p.alphabet
             f == Max({a, MaxByte})
             b == WordSize - 1 - MaxByte
  <1>1. /\ MaxByte \in Nat \ {0} /\ WordSize \in Nat \ {0}
        /\ a \in Nat \ {0} /\ m \in Nat \ {0} /\ f \in Nat \ {0} /\ f >= a /\ f >= MaxByte
    <2>1. MaxByte \in Nat \ {0} /\ WordSize \in Nat \ {0} /\ a \in Nat \ {0} /\ m \in Nat \ {0}
      BY RollingAssumption DEF Accepted, Rolling
    <2> HIDE DEF a, m
    <2>2. f \in {a, MaxByte} /\ f >= a /\ f >= MaxByte
      <3>1. a \in Int /\ MaxByte \in Int
        BY <2>1
      <3> HIDE DEF f
      <3>2. /\ Max({a, MaxByte}) \in {a, MaxByte}
            /\ Max({a, MaxByte}) >= a /\ Max({a, MaxByte}) >= MaxByte
        BY <3>1, MaxOfTwo
      <3> QED
        BY <3>2 DEF f
    <2> HIDE DEF f
    <2> QED
      BY <2>1, <2>2
  <1>2. b \in Nat /\ 2 * f * m <= b
    <2>1. m <= b \div (2 * f)
      BY DEF Accepted
    <2> HIDE DEF m, b, f
    <2>2. b \in Int /\ 2 * f \in Nat \ {0}
      BY <1>1 DEF b
    <2>3. b \div (2 * f) \in Int /\ (2 * f) * (b \div (2 * f)) <= b
      BY <2>2, SMTT(30)
    <2>4. (2 * f) * m <= (2 * f) * (b \div (2 * f))
      BY <1>1, <2>1, <2>2, <2>3
    <2>5. (2 * f) * m \in Nat
      BY <1>1
    <2> QED
      BY <2>2, <2>3, <2>4, <2>5, <1>1
  <1> HIDE DEF f
  <1>r. /\ print \in 0 .. m - 1 /\ leaving \in 0 .. m - 1
        /\ weight \in 0 .. m - 1 \/ weight = 1
        /\ old \in 0 .. MaxByte /\ byte \in 0 .. MaxByte
    BY DEF Rolling
  <1> HIDE DEF m, a
  <1>3. old * weight < WordSize /\ old * weight \in Nat
    <2>1. old * weight <= MaxByte * m /\ old * weight \in Nat
      <3>1. weight \in 0 .. m
        BY <1>1, <1>r
      <3>2. old * weight <= MaxByte * weight /\ old * weight \in Nat
        BY <1>1, <1>r, <3>1, SMTT(30)
      <3>3. MaxByte * weight <= MaxByte * m
        BY <1>1, <3>1, SMTT(30)
      <3> QED
        BY <1>1, <3>1, <3>2, <3>3
    <2>2. MaxByte * m <= f * m
      BY <1>1, SMTT(30)
    <2> QED
      BY <1>1, <1>2, <2>1, <2>2
  <1>4. /\ a * (print + m - leaving) + byte < WordSize
        /\ a * (print + m - leaving) + byte \in Nat
    <2>1. print + m - leaving \in 0 .. 2 * m
      BY <1>1, <1>r
    <2>2. a * (print + m - leaving) <= f * (2 * m) /\ a * (print + m - leaving) \in Nat
      BY <1>1, <2>1, SMTT(30)
    <2> QED
      BY <1>1, <1>2, <1>r, <2>2
  <1>5. ASSUME NEW x \in Nat, x < WordSize PROVE Word(x) = x
    <2>1. x = WordSize * 0 + x /\ x \in 0 .. WordSize - 1 /\ 0 \in Nat
      BY <1>1, <1>5
    <2>2. x = x % WordSize
      BY <1>1, <2>1, RemainderUnique
    <2> QED
      BY <2>2 DEF Word
  <1>6. /\ MaxInput(p) \in Nat
        /\ MaxInput(p) >= 2 * a * m + MaxByte /\ MaxInput(p) >= MaxByte * (m - 1)
    <2> DEFINE x == 2 * a * m + MaxByte
               y == MaxByte * (m - 1)
    <2>1. x \in Nat /\ y \in Nat
      BY <1>1
    <2>2. MaxInput(p) = Max({x, y})
      BY DEF MaxInput, a, m
    <2> HIDE DEF x, y
    <2>5. x \in Int /\ y \in Int
      BY <2>1
    <2>3. Max({x, y}) \in {x, y} /\ Max({x, y}) >= x /\ Max({x, y}) >= y
      BY <2>5, MaxOfTwo
    <2>4. MaxInput(p) \in Nat /\ MaxInput(p) >= x /\ MaxInput(p) >= y
      BY <2>1, <2>2, <2>3
    <2> QED
      BY <2>4 DEF x, y
  <1>7. old * weight \in 0 .. MaxInput(p)
    <2>1. CASE weight = 1
      <3>1. 2 * a * m \in Nat
        BY <1>1
      <3> QED
        BY <1>1, <1>3, <1>6, <1>r, <2>1, <3>1
    <2>2. CASE weight \in 0 .. m - 1
      <3>1. old * weight <= MaxByte * weight
        BY <1>1, <1>r, <2>2, SMTT(30)
      <3>2. MaxByte * weight <= MaxByte * (m - 1)
        BY <1>1, <2>2, SMTT(30)
      <3> QED
        BY <1>1, <1>3, <1>6, <2>2, <3>1, <3>2
    <2> QED
      BY <1>r, <2>1, <2>2
  <1>8. a * (print + m - leaving) + byte \in 0 .. MaxInput(p)
    <2>1. print + m - leaving \in 0 .. 2 * m
      BY <1>1, <1>r
    <2>2. a * (print + m - leaving) <= a * (2 * m) /\ a * (2 * m) = 2 * a * m
      BY <1>1, <2>1, SMTT(30)
    <2> QED
      BY <1>1, <1>4, <1>6, <1>r, <2>1, <2>2
  <1> QED
    BY <1>3, <1>4, <1>5, <1>7, <1>8 DEF a, m

(* One call of compute_next() computes the polynomial modulo the modulus,  *)
(* in exact arithmetic, and leaves a fingerprint below the modulus.        *)
THEOREM RollIsExact ==
    ASSUME NEW p, Accepted(p), NEW print, NEW weight, NEW old, NEW byte,
           Rolling(p, print, (old * weight) % p.modulus, weight, old, byte)
    PROVE  LET leaving == Reduce(p, Word(old * weight))
               rolled  == Reduce(p, Word(p.alphabet * (print + p.modulus - leaving) + byte))
           IN  /\ leaving = (old * weight) % p.modulus
               /\ rolled = (p.alphabet * (print + p.modulus - ((old * weight) % p.modulus)) + byte)
                              % p.modulus
               /\ rolled \in 0 .. p.modulus - 1
  <1> DEFINE leaving == (old * weight) % p.modulus
             sum     == p.alphabet * (print + p.modulus - leaving) + byte
  <1>1. /\ p.alphabet \in Nat /\ p.modulus \in Nat \ {0}
        /\ Rolling(p, print, leaving, weight, old, byte)
    BY DEF Rolling, Accepted
  <1> HIDE DEF leaving
  <1>2. /\ Word(old * weight) = old * weight /\ Word(sum) = sum
        /\ old * weight \in 0 .. MaxInput(p) /\ sum \in 0 .. MaxInput(p)
    BY <1>1, NoWrapAround
  <1> HIDE DEF sum
  <1>3. Reduce(p, Word(old * weight)) = leaving
    BY <1>1, <1>2, ReduceIsRemainder DEF leaving
  <1>4. Reduce(p, Word(sum)) = sum % p.modulus
    BY <1>1, <1>2, ReduceIsRemainder
  <1>5. sum % p.modulus \in 0 .. p.modulus - 1
    <2>1. sum \in Nat
      BY <1>1, NoWrapAround, <1>2, MaxInputNat
    <2> QED
      BY <1>1, <2>1, Division
  <1> QED
    BY <1>3, <1>4, <1>5 DEF leaving, sum

-----------------------------------------------------------------------------
(* The polynomial hash, and that rolling keeps it.                         *)

(* A remainder may be taken before or after a step of the polynomial.      *)
Steady(m, a) == \A x \in Nat, c \in Nat : (a * (x % m) + c) % m = (a * x + c) % m

LEMMA StepSteady ==
    ASSUME NEW m \in Nat \ {0}, NEW a \in Nat
    PROVE  Steady(m, a)
  <1> SUFFICES ASSUME NEW x \in Nat, NEW c \in Nat
               PROVE  (a * (x % m) + c) % m = (a * x + c) % m
    BY DEF Steady
  <1> DEFINE q == x \div m
             r == x % m
  <1>1. q \in Nat /\ r \in 0 .. m - 1 /\ x = m * q + r
    BY Division
  <1> HIDE DEF q, r
  <1>2. a * x + c = a * r + c + m * (a * q)
    BY <1>1
  <1>3. a * x + c \in Nat /\ a * r + c \in Nat /\ a * q \in Int
    BY <1>1
  <1>4. (a * x + c) % m = (a * r + c) % m
    BY <1>2, <1>3, SameRemainder
  <1> QED
    BY <1>4 DEF r

(* What is reduced while a window is hashed fits into a word.              *)
LEMMA Fits ==
    ASSUME NEW p, Accepted(p), p.alphabet \in Nat, p.modulus \in Nat,
           NEW v \in Nat, v < p.modulus \/ v = 1, NEW c \in Byte
    PROVE  Reduce(p, Word(p.alphabet * v + c)) = (p.alphabet * v + c) % p.modulus
  <1> DEFINE a == p.alphabet
             m == p.modulus
             u == IF v < m THEN v ELSE 0
             x == a * v + c
             y == a * (u + m - (m - 1)) + c
  <1>1. a \in Nat \ {0} /\ m \in Nat \ {0} /\ c \in 0 .. MaxByte /\ MaxByte \in Nat
        /\ WordSize \in Nat \ {0}
    BY RollingAssumption DEF Accepted, Byte
  <1>2. Rolling(p, u, m - 1, 1, 0, c)
    BY <1>1 DEF Rolling
  <1>3. Word(y) = y /\ y \in 0 .. MaxInput(p)
    <2> HIDE DEF u
    <2> QED
      BY <1>2, NoWrapAround
  <1>4. x <= y /\ x \in Nat
    <2>1. u + m - (m - 1) = u + 1 /\ v <= u + 1
      BY <1>1
    <2> HIDE DEF u
    <2>2. u \in Nat
      BY <1>1 DEF u
    <2>3. a * v <= a * (u + 1)
      BY <1>1, <2>1, <2>2
    <2> QED
      BY <1>1, <2>1, <2>2, <2>3
  <1>5. y \in Nat /\ MaxInput(p) \in Nat
    BY <1>1, <1>3, MaxInputNat
  <1> HIDE DEF x, y
  <1>6. y < WordSize
    BY <1>1, <1>3, <1>5 DEF Word
  <1>7. Word(x) = x
    BY <1>1, <1>4, <1>5, <1>6 DEF Word
  <1>8. x \in 0 .. MaxInput(p)
    BY <1>3, <1>4, <1>5
  <1>9. Reduce(p, x) = x % m
    BY <1>1, <1>8, ReduceIsRemainder
  <1> QED
    BY <1>7, <1>9 DEF x

-----------------------------------------------------------------------------
(* The folds of RKFinger and of the hash by definition.                    *)

LEMMA DirectChosen ==
    ASSUME NEW bytes, NEW it, Hashes(it, params.alphabet, bytes)
    PROVE  \E jt : /\ Hashes(jt, params.alphabet, bytes)
                   /\ Direct(bytes) = jt[DOMAIN bytes] % params.modulus
  BY DEF Direct, HashOf, FoldLeft, MapThenFoldSet, Hashes

LEMMA DirectFold ==
    ASSUME params.alphabet \in Nat, NEW bytes \in Seq(Byte)
    PROVE  \E acc : /\ Polynomial(acc, params.alphabet, bytes)
                    /\ Direct(bytes) = acc[Len(bytes)] % params.modulus
  <1>1. bytes \in Seq(Nat)
    <2>1. bytes \in [1 .. Len(bytes) -> Byte] /\ Len(bytes) \in Nat
      BY LenProperties
    <2>2. \A b \in Byte : b \in Nat
      BY RollingAssumption DEF Byte
    <2>3. bytes \in [1 .. Len(bytes) -> Nat]
      BY <2>1, <2>2
    <2> QED
      BY <2>1, <2>3, SeqDef
  <1>2. \E it : Hashes(it, params.alphabet, bytes)
    BY <1>1, PolynomialFold
  <1>3. PICK jt : /\ Hashes(jt, params.alphabet, bytes)
                  /\ Direct(bytes) = jt[DOMAIN bytes] % params.modulus
    BY <1>2, DirectChosen
  <1>4. \E acc : /\ Polynomial(acc, params.alphabet, bytes)
                 /\ acc[Len(bytes)] = jt[DOMAIN bytes]
    BY <1>1, <1>3, PolynomialFold
  <1> QED
    BY <1>3, <1>4

(* initialize(): the same, reduced after every byte.                       *)
Seeds(it, p, bytes) ==
    it = [s \in SUBSET DOMAIN bytes |->
             IF s = {} THEN 0 ELSE Reduce(p, Word(p.alphabet * it[s \ {Max(s)}] + bytes[Max(s)]))]

LEMMA SeedChosen ==
    ASSUME NEW p, NEW bytes, NEW it, Seeds(it, p, bytes)
    PROVE  \E jt : Seeds(jt, p, bytes) /\ Initialize(p, bytes).print = jt[DOMAIN bytes]
  BY DEF Initialize, FoldLeft, MapThenFoldSet, Seeds

LEMMA SeedFold ==
    ASSUME NEW p, Accepted(p), p.alphabet \in Nat, p.modulus \in Nat, NEW bytes \in Seq(Byte)
    PROVE  \E acc \in [0 .. Len(bytes) -> 0 .. p.modulus - 1] :
               /\ acc[0] = 0 /\ acc[Len(bytes)] = Initialize(p, bytes).print
               /\ \A k \in 1 .. Len(bytes) :
                      acc[k] = (p.alphabet * acc[k - 1] + bytes[k]) % p.modulus
  <1> DEFINE n == Len(bytes)
             a == p.alphabet
             m == p.modulus
             V == 0 .. m - 1
             G == [q \in V \X (1 .. n) |-> (a * q[1] + bytes[q[2]]) % m]
  <1>1. /\ n \in Nat /\ DOMAIN bytes = 1 .. n /\ a \in Nat /\ m \in Nat \ {0}
        /\ \A k \in 1 .. n : bytes[k] \in Byte /\ bytes[k] \in Nat
        /\ 0 \in V
    BY ElementOfSeq, LenProperties, RollingAssumption DEF Byte, Accepted
  <1>r. \A v \in V, k \in 1 .. n :
            Reduce(p, Word(a * v + bytes[k])) = (a * v + bytes[k]) % m
    <2> TAKE v \in V, k \in 1 .. n
    <2>1. v \in Nat /\ v < p.modulus
      BY <1>1
    <2> QED
      BY <1>1, <2>1, Fits
  <1>2. G \in [V \X (1 .. n) -> V]
    <2>1. ASSUME NEW q \in V \X (1 .. n) PROVE (a * q[1] + bytes[q[2]]) % m \in V
      <3>1. q[1] \in Nat /\ bytes[q[2]] \in Nat
        BY <1>1
      <3>2. a * q[1] + bytes[q[2]] \in Nat
        BY <1>1, <3>1, StepNat
      <3> QED
        BY <1>1, <3>2, Division
    <2> QED
      BY <2>1
  <1>3. \A v \in V, k \in 1 .. n : G[<<v, k>>] = (a * v + bytes[k]) % m
    OBVIOUS
  <1> HIDE DEF G, V, n, a, m
  <1>4. PICK it \in [SUBSET (1 .. n) -> V] : Iterates(it, n, 0, G)
    BY <1>1, <1>2, FoldExists
  <1>5. Seeds(it, p, bytes)
    <2>1. ASSUME NEW s \in SUBSET (1 .. n), s # {}
          PROVE  G[<<it[s \ {Max(s)}], Max(s)>>]
                    = Reduce(p, Word(p.alphabet * it[s \ {Max(s)}] + bytes[Max(s)]))
      <3>1. Max(s) \in 1 .. n
        BY <2>1, <1>1, MaxUpTo
      <3>2. it[s \ {Max(s)}] \in V
        BY <1>4
      <3> QED
        BY <3>1, <3>2, <1>3, <1>r DEF a
    <2> QED
      BY <1>1, <1>4, <2>1 DEF Iterates, Seeds
  <1>6. PICK jt : Seeds(jt, p, bytes) /\ Initialize(p, bytes).print = jt[DOMAIN bytes]
    BY <1>5, SeedChosen
  <1>7. Steps(jt, V, n, 0, G)
    <2>1. jt[{}] = 0
      BY <1>6 DEF Seeds
    <2>2. ASSUME NEW s \in SUBSET (1 .. n), s # {}, jt[s \ {Max(s)}] \in V
          PROVE  jt[s] = G[<<jt[s \ {Max(s)}], Max(s)>>]
      <3>1. Max(s) \in 1 .. n
        BY <2>2, <1>1, MaxUpTo
      <3>2. jt[s] = Reduce(p, Word(a * jt[s \ {Max(s)}] + bytes[Max(s)]))
        BY <1>1, <1>6, <2>2 DEF Seeds, a
      <3> QED
        BY <1>3, <1>r, <2>2, <3>1, <3>2
    <2> QED
      BY <2>1, <2>2, Zenon DEF Steps
  <1>8. PICK acc : Values(acc, V, n, 0, G, jt)
    BY <1>1, <1>2, <1>7, FoldValues
  <1>9. /\ acc \in [0 .. n -> V] /\ acc[0] = 0
        /\ \A k \in 1 .. n : acc[k] = G[<<acc[k - 1], k>>]
        /\ acc[n] = Initialize(p, bytes).print
    BY <1>1, <1>6, <1>8 DEF Values
  <1>10. ASSUME NEW k \in 1 .. n PROVE acc[k] = (a * acc[k - 1] + bytes[k]) % m
    <2>1. k - 1 \in 0 .. n
      BY <1>1
    <2>2. acc[k - 1] \in V
      BY <2>1, <1>9
    <2> QED
      BY <1>3, <1>9, <2>2
  <1> QED
    BY <1>9, <1>10 DEF n, a, m, V

(* h_: every byte of the window but the first multiplies by the base.      *)
Weights(it, p, js) ==
    it = [s \in SUBSET DOMAIN js |->
             IF s = {} THEN 1 ELSE Reduce(p, Word(it[s \ {Max(s)}] * p.alphabet))]

LEMMA WeightChosen ==
    ASSUME NEW p, NEW it, Weights(it, p, [j \in 1 .. Window - 1 |-> j])
    PROVE  \E jt : /\ Weights(jt, p, [j \in 1 .. Window - 1 |-> j])
                   /\ Weight(p) = jt[1 .. Window - 1]
  BY DEF Weight, FoldLeft, MapThenFoldSet, Weights

LEMMA WeightFold ==
    ASSUME NEW p, Accepted(p), p.alphabet \in Nat, p.modulus \in Nat
    PROVE  \E acc \in [0 .. Window - 1 -> {v \in Nat : v < p.modulus \/ v = 1}] :
               /\ acc[0] = 1 /\ acc[Window - 1] = Weight(p)
               /\ \A k \in 1 .. Window - 1 :
                      acc[k] = (p.alphabet * acc[k - 1]) % p.modulus
  <1> DEFINE n == Window - 1
             a == p.alphabet
             m == p.modulus
             V == {v \in Nat : v < p.modulus \/ v = 1}
             js == [j \in 1 .. n |-> j]
             G == [q \in V \X (1 .. n) |-> (a * q[1]) % m]
  <1>1. /\ n \in Nat /\ DOMAIN js = 1 .. n /\ a \in Nat /\ m \in Nat \ {0}
        /\ 1 \in V
    BY RollingAssumption DEF Accepted
  <1>r. \A v \in V : Reduce(p, Word(v * a)) = (a * v) % m
    <2> TAKE v \in V
    <2>1. 0 \in Byte
      BY RollingAssumption DEF Byte
    <2>2. Reduce(p, Word(a * v + 0)) = (a * v + 0) % m
      BY <2>1, Fits
    <2>3. a * v + 0 = a * v /\ v * a = a * v
      BY <1>1
    <2> QED
      BY <2>2, <2>3
  <1>2. G \in [V \X (1 .. n) -> V]
    <2>1. ASSUME NEW q \in V \X (1 .. n) PROVE (a * q[1]) % m \in V
      <3>1. q[1] \in Nat
        OBVIOUS
      <3>2. a * q[1] \in Nat
        BY <1>1, <3>1
      <3>3. (a * q[1]) % m \in 0 .. m - 1
        BY <1>1, <3>2, Division
      <3> QED
        BY <1>1, <3>3
    <2> QED
      BY <2>1
  <1>3. \A v \in V, k \in 1 .. n : G[<<v, k>>] = (a * v) % m
    OBVIOUS
  <1> HIDE DEF G, V, n, a, m, js
  <1>4. PICK it \in [SUBSET (1 .. n) -> V] : Iterates(it, n, 1, G)
    BY <1>1, <1>2, FoldExists
  <1>5. Weights(it, p, js)
    <2>1. ASSUME NEW s \in SUBSET (1 .. n), s # {}
          PROVE  G[<<it[s \ {Max(s)}], Max(s)>>]
                    = Reduce(p, Word(it[s \ {Max(s)}] * p.alphabet))
      <3>1. Max(s) \in 1 .. n
        BY <2>1, <1>1, MaxUpTo
      <3>2. it[s \ {Max(s)}] \in V
        BY <1>4
      <3> QED
        BY <3>1, <3>2, <1>3, <1>r DEF a
    <2> QED
      BY <1>1, <1>4, <2>1 DEF Iterates, Weights
  <1>6. PICK jt : Weights(jt, p, js) /\ Weight(p) = jt[1 .. n]
    BY <1>5, WeightChosen DEF js, n
  <1>7. Steps(jt, V, n, 1, G)
    <2>1. jt[{}] = 1
      BY <1>6 DEF Weights
    <2>2. ASSUME NEW s \in SUBSET (1 .. n), s # {}, jt[s \ {Max(s)}] \in V
          PROVE  jt[s] = G[<<jt[s \ {Max(s)}], Max(s)>>]
      <3>1. Max(s) \in 1 .. n
        BY <2>2, <1>1, MaxUpTo
      <3>2. jt[s] = Reduce(p, Word(jt[s \ {Max(s)}] * a))
        BY <1>1, <1>6, <2>2 DEF Weights, a
      <3> QED
        BY <1>3, <1>r, <2>2, <3>1, <3>2
    <2> QED
      BY <2>1, <2>2, Zenon DEF Steps
  <1>8. PICK acc : Values(acc, V, n, 1, G, jt)
    BY <1>1, <1>2, <1>7, FoldValues
  <1>9. /\ acc \in [0 .. n -> V] /\ acc[0] = 1
        /\ \A k \in 1 .. n : acc[k] = G[<<acc[k - 1], k>>]
        /\ acc[n] = Weight(p)
    BY <1>1, <1>6, <1>8 DEF Values
  <1>10. ASSUME NEW k \in 1 .. n PROVE acc[k] = (a * acc[k - 1]) % m
    <2>1. k - 1 \in 0 .. n
      BY <1>1
    <2>2. acc[k - 1] \in V
      BY <2>1, <1>9
    <2> QED
      BY <1>3, <1>9, <2>2
  <1> QED
    BY <1>9, <1>10 DEF n, a, m, V

-----------------------------------------------------------------------------
(* Seeding and rolling compute the hash by definition.                     *)

ParamsGood == Accepted(params) /\ params.alphabet \in Nat /\ params.modulus \in Nat \ {0}

(* initialize() gives the hash of what it is given.                        *)
LEMMA SeedIsDirect ==
    ASSUME ParamsGood, NEW bytes \in Seq(Byte)
    PROVE  Initialize(params, bytes).print = Direct(bytes)
  <1> DEFINE n == Len(bytes)
             a == params.alphabet
             m == params.modulus
  <1>1. /\ n \in Nat /\ a \in Nat /\ m \in Nat \ {0} /\ \A k \in 1 .. n : bytes[k] \in Nat
    BY ElementOfSeq, LenProperties, RollingAssumption DEF Byte, ParamsGood
  <1>2. PICK h : /\ Polynomial(h, a, bytes) /\ Direct(bytes) = h[n] % m
    BY <1>1, DirectFold
  <1>3. PICK r \in [0 .. n -> 0 .. m - 1] :
               /\ r[0] = 0 /\ r[n] = Initialize(params, bytes).print
               /\ \A k \in 1 .. n : r[k] = (a * r[k - 1] + bytes[k]) % m
    BY SeedFold DEF ParamsGood
  <1>4. /\ h \in [0 .. n -> Nat] /\ h[0] = 0
        /\ \A k \in 1 .. n : h[k] = a * h[k - 1] + bytes[k]
    BY <1>2 DEF Polynomial
  <1>s. Steady(m, a)
    BY <1>1, StepSteady
  <1> HIDE DEF n, a, m
  <1> DEFINE S == {k \in 0 .. n : r[k] = h[k] % m}
  <1>5. 0 \in S
    <2>1. 0 = 0 % m
      BY <1>1
    <2> QED
      BY <1>1, <1>3, <1>4, <2>1
  <1>6. ASSUME NEW k \in 1 .. n, k - 1 \in S PROVE k \in S
    <2>1. h[k - 1] \in Nat /\ bytes[k] \in Nat /\ r[k - 1] = h[k - 1] % m
      BY <1>1, <1>4, <1>6
    <2>2. (a * (h[k - 1] % m) + bytes[k]) % m = (a * h[k - 1] + bytes[k]) % m
      <3> DEFINE x == h[k - 1]
                 c == bytes[k]
      <3>1. x \in Nat /\ c \in Nat
        BY <2>1
      <3> HIDE DEF x, c
      <3>2. (a * (x % m) + c) % m = (a * x + c) % m
        BY <1>s, <3>1, Zenon DEF Steady
      <3> QED
        BY <3>2 DEF x, c
    <2>3. r[k] = (a * r[k - 1] + bytes[k]) % m /\ h[k] = a * h[k - 1] + bytes[k]
      BY <1>3, <1>4
    <2> QED
      BY <2>1, <2>2, <2>3
  <1> HIDE DEF S
  <1>7. 0 .. n \subseteq S
    BY <1>1, <1>5, <1>6, UpToInduction
  <1>8. r[n] = h[n] % m
    BY <1>1, <1>7 DEF S
  <1> QED
    BY <1>2, <1>3, <1>8

(* h_ is congruent to the power of the base that the first byte of a       *)
(* window is multiplied by.                                                *)
LEMMA WeightIsPower ==
    ASSUME ParamsGood, NEW pw, Powers(pw, params.alphabet, Window - 1)
    PROVE  /\ Weight(params) \in Nat /\ (Weight(params) < params.modulus \/ Weight(params) = 1)
           /\ Weight(params) % params.modulus = pw[Window - 1] % params.modulus
  <1> DEFINE n == Window - 1
             a == params.alphabet
             m == params.modulus
             V == {v \in Nat : v < m \/ v = 1}
  <1>1. n \in Nat /\ a \in Nat /\ m \in Nat \ {0}
    BY RollingAssumption DEF ParamsGood
  <1>2. PICK w \in [0 .. n -> V] : /\ w[0] = 1 /\ w[n] = Weight(params)
                                   /\ \A k \in 1 .. n : w[k] = (a * w[k - 1]) % m
    BY WeightFold DEF ParamsGood
  <1>3. /\ pw \in [0 .. n -> Nat] /\ pw[0] = 1
        /\ \A k \in 1 .. n : pw[k] = a * pw[k - 1]
    BY DEF Powers
  <1>v. \A k \in 0 .. n : w[k] \in Nat /\ (w[k] < m \/ w[k] = 1)
    BY <1>2
  <1>s. Steady(m, a)
    BY <1>1, StepSteady
  <1> HIDE DEF n, a, m, V
  <1> DEFINE S == {k \in 0 .. n : w[k] % m = pw[k] % m}
  <1>4. 0 \in S
    BY <1>1, <1>2, <1>3
  <1>5. ASSUME NEW k \in 1 .. n, k - 1 \in S PROVE k \in S
    <2> DEFINE x == w[k - 1]
               y == pw[k - 1]
    <2>1. x \in Nat /\ y \in Nat /\ x % m = y % m
      BY <1>1, <1>v, <1>3, <1>5
    <2>2. w[k] = (a * x) % m /\ pw[k] = a * y
      BY <1>2, <1>3
    <2> HIDE DEF x, y
    <2>3. a * x \in Nat /\ a * y \in Nat /\ a * x + 0 = a * x /\ a * y + 0 = a * y
      BY <1>1, <2>1
    <2>4. (a * (x % m) + 0) % m = (a * x) % m /\ (a * (y % m) + 0) % m = (a * y) % m
      <3>0. 0 \in Nat
        OBVIOUS
      <3>1. (a * (x % m) + 0) % m = (a * x + 0) % m
        BY <1>s, <2>1, <3>0, Zenon DEF Steady
      <3>2. (a * (y % m) + 0) % m = (a * y + 0) % m
        BY <1>s, <2>1, <3>0, Zenon DEF Steady
      <3> QED
        BY <2>3, <3>1, <3>2
    <2>5. (a * x) % m = (a * y) % m
      BY <2>1, <2>4
    <2>6. ((a * x) % m) % m = (a * x) % m
      <3> DEFINE u == a * x
      <3>1. u \in Nat
        BY <2>3
      <3> HIDE DEF u
      <3>2. u % m \in 0 .. m - 1
        BY <1>1, <3>1, Division
      <3>3. u % m = m * 0 + (u % m)
        BY <1>1, <3>2
      <3>4. u % m \in Nat
        BY <1>1, <3>2
      <3>5. u % m = (u % m) % m
        BY <1>1, <3>2, <3>3, <3>4, RemainderUnique
      <3> QED
        BY <3>5 DEF u
    <2> QED
      BY <2>2, <2>5, <2>6
  <1> HIDE DEF S
  <1>6. 0 .. n \subseteq S
    BY <1>1, <1>4, <1>5, UpToInduction
  <1>7. w[n] % m = pw[n] % m /\ n \in 0 .. n
    BY <1>1, <1>6 DEF S
  <1> QED
    BY <1>2, <1>v, <1>7 DEF n, m

(* Two windows of n + 1 bytes, the second one byte further, their hashes   *)
(* and the powers of the base.                                             *)
Shifted(a, n, pw, s, t, h, g) ==
    /\ a \in Nat /\ n \in Nat /\ Powers(pw, a, n)
    /\ Len(s) = n + 1 /\ \A k \in 1 .. n + 1 : s[k] \in Nat
    /\ Len(t) = n + 1 /\ \A k \in 1 .. n : t[k] = s[k + 1]
    /\ Polynomial(h, a, s) /\ Polynomial(g, a, t)

(* The first byte of a window takes part in its hash with that power, and  *)
(* the rest is hashed as if it were not there.                             *)
LEMMA FirstByteApart ==
    ASSUME NEW a, NEW n, NEW pw, NEW s, NEW t, NEW h, NEW g, Shifted(a, n, pw, s, t, h, g)
    PROVE  h[n + 1] = pw[n] * s[1] + g[n]
  <1>0. /\ a \in Nat /\ n \in Nat /\ Powers(pw, a, n)
        /\ Len(s) = n + 1 /\ \A k \in 1 .. n + 1 : s[k] \in Nat
        /\ Len(t) = n + 1 /\ \A k \in 1 .. n : t[k] = s[k + 1]
        /\ Polynomial(h, a, s) /\ Polynomial(g, a, t)
    BY DEF Shifted
  <1>1. /\ pw \in [0 .. n -> Nat] /\ pw[0] = 1
        /\ \A k \in 1 .. n : pw[k] = a * pw[k - 1]
    BY <1>0 DEF Powers
  <1>2. /\ h \in [0 .. n + 1 -> Nat] /\ h[0] = 0
        /\ \A k \in 1 .. n + 1 : h[k] = a * h[k - 1] + s[k]
    BY <1>0 DEF Polynomial
  <1>3. /\ g \in [0 .. n + 1 -> Nat] /\ g[0] = 0
        /\ \A k \in 1 .. n + 1 : g[k] = a * g[k - 1] + t[k]
    BY <1>0 DEF Polynomial
  <1> DEFINE S == {k \in 0 .. n : h[k + 1] = pw[k] * s[1] + g[k]}
  <1>4. 0 \in S
    <2>1. h[1] = a * h[0] + s[1] /\ s[1] \in Nat
      BY <1>0, <1>2
    <2>2. h[0 + 1] = s[1]
      BY <1>0, <1>2, <2>1
    <2>3. pw[0] * s[1] + g[0] = s[1]
      BY <1>0, <1>1, <1>3, <2>1
    <2> QED
      BY <1>0, <2>2, <2>3
  <1>5. ASSUME NEW k \in 1 .. n, k - 1 \in S PROVE k \in S
    <2> DEFINE p == pw[k - 1]
               f == s[1]
               x == h[k]
               y == g[k - 1]
               c == s[k + 1]
    <2>i. /\ k - 1 \in 0 .. n /\ k - 1 \in 0 .. n + 1 /\ k \in 0 .. n + 1
          /\ 1 \in 1 .. n + 1 /\ k + 1 \in 1 .. n + 1 /\ k \in 1 .. n + 1
      BY <1>0
    <2>1. p \in Nat /\ f \in Nat /\ x \in Nat /\ y \in Nat /\ c \in Nat
      <3>1. p \in Nat
        BY <1>0, <1>1, <2>i
      <3>2. x \in Nat
        BY <1>2, <2>i
      <3>3. y \in Nat
        BY <1>3, <2>i
      <3> QED
        BY <1>0, <2>i, <3>1, <3>2, <3>3
    <2>2. x = p * f + y
      BY <1>5
    <2>3. h[k + 1] = a * x + c
      <3>1. k + 1 \in 1 .. n + 1 /\ (k + 1) - 1 = k
        BY <1>0
      <3> QED
        BY <1>0, <1>2, <3>1
    <2>4. pw[k] = a * p /\ g[k] = a * y + c
      <3>1. t[k] = c
        BY <1>0
      <3>2. g[k] = a * y + t[k]
        BY <1>3, <2>i
      <3> QED
        BY <1>1, <3>1, <3>2
    <2> HIDE DEF p, f, x, y, c
    <2>5. a * x + c = (a * p) * f + (a * y + c)
      BY <1>0, <2>1, <2>2
    <2>6. h[k + 1] = pw[k] * f + g[k]
      BY <2>3, <2>4, <2>5
    <2> QED
      BY <2>6 DEF f
  <1> HIDE DEF S
  <1>6. 0 .. n \subseteq S
    BY <1>0, <1>4, <1>5, UpToInduction
  <1> QED
    BY <1>0, <1>6 DEF S

(* Taking the share of a byte out of a hash, however its weight has been   *)
(* reduced, leaves what the hash would be without it.                      *)
Weighs(m, power, weight, old, rest) ==
    /\ m \in Nat \ {0} /\ power \in Nat /\ weight \in Nat /\ weight % m = power % m
    /\ old \in Nat /\ rest \in Nat

LEMMA Evicted ==
    ASSUME NEW m, NEW power, NEW weight, NEW old, NEW rest, Weighs(m, power, weight, old, rest)
    PROVE  LET u == ((power * old + rest) % m) + m - ((old * weight) % m)
           IN  u \in Nat /\ u % m = rest % m
  <1> DEFINE hash == power * old + rest
             gone == old * weight
             u  == (hash % m) + m - (gone % m)
             q1 == weight \div m
             q2 == power \div m
             q3 == gone \div m
             q4 == hash \div m
             r  == power % m
             r3 == gone % m
             r4 == hash % m
  <1>0. /\ m \in Nat \ {0} /\ power \in Nat /\ weight \in Nat /\ weight % m = power % m
        /\ old \in Nat /\ rest \in Nat
    BY DEF Weighs
  <1>1. hash \in Nat /\ gone \in Nat
    BY <1>0
  <1>2. q1 \in Nat /\ weight = m * q1 + r
    BY <1>0, Division
  <1>3. q2 \in Nat /\ power = m * q2 + r /\ r \in 0 .. m - 1
    BY <1>0, Division
  <1>h. hash = power * old + rest /\ gone = old * weight
    OBVIOUS
  <1> HIDE DEF hash, gone
  <1>4. q3 \in Nat /\ r3 \in 0 .. m - 1 /\ gone = m * q3 + r3
    BY <1>0, <1>1, Division
  <1>5. q4 \in Nat /\ r4 \in 0 .. m - 1 /\ hash = m * q4 + r4
    BY <1>0, <1>1, Division
  <1>6. u = r4 + m - r3
    OBVIOUS
  <1> HIDE DEF u, q1, q2, q3, q4, r, r3, r4
  <1>7. u \in Nat
    BY <1>0, <1>4, <1>5, <1>6
  <1> DEFINE z == old * (q2 - q1) + 1 + q3 - q4
  <1>8. z \in Int
    BY <1>0, <1>2, <1>3, <1>4, <1>5
  <1>9. u = rest + m * z
    <2>1. gone = m * (old * q1) + old * r
      BY <1>0, <1>h, <1>2, <1>3
    <2>2. hash = m * (old * q2) + old * r + rest
      BY <1>0, <1>h, <1>3
    <2>3. u = hash - m * q4 + m - gone + m * q3
      BY <1>0, <1>1, <1>4, <1>5, <1>6
    <2>4. u = m * (old * q2) + rest - m * q4 + m - m * (old * q1) + m * q3
      BY <1>0, <1>1, <1>2, <1>3, <1>4, <1>5, <2>1, <2>2, <2>3
    <2> QED
      BY <1>0, <1>2, <1>3, <1>4, <1>5, <2>4
  <1> HIDE DEF z
  <1>10. u % m = rest % m
    BY <1>0, <1>7, <1>8, <1>9, SameRemainder
  <1> QED
    BY <1>7, <1>10 DEF u, hash, gone

(* compute_next() takes the hash of a window to that of the window one     *)
(* byte further.                                                           *)
LEMMA RollIsDirect ==
    ASSUME ParamsGood, NEW r, r.window \in Seq(Byte), Len(r.window) = Window,
           r.print = Direct(r.window), NEW byte \in Byte
    PROVE  /\ ComputeNext(params, r, byte).window = Append(Tail(r.window), byte)
           /\ ComputeNext(params, r, byte).print = Direct(Append(Tail(r.window), byte))
  <1> DEFINE a == params.alphabet
             m == params.modulus
             n == Window - 1
             s == r.window
             t == Append(Tail(s), byte)
             weight == Weight(params)
             old    == s[1]
  <1>1. /\ n \in Nat /\ n + 1 = Window /\ a \in Nat /\ m \in Nat \ {0}
        /\ byte \in 0 .. MaxByte /\ MaxByte \in Nat
    BY RollingAssumption DEF ParamsGood, Byte
  <1>2. /\ \A k \in 1 .. n + 1 : s[k] \in Byte /\ s[k] \in Nat
        /\ Len(s) = n + 1
    BY <1>1, ElementOfSeq DEF Byte
  <1>3. /\ t \in Seq(Byte) /\ Len(t) = n + 1 /\ t[n + 1] = byte
        /\ \A k \in 1 .. n : t[k] = s[k + 1]
    <2>1. s # <<>>
      BY <1>1, <1>2, EmptySeq
    <2>2. /\ Tail(s) \in Seq(Byte) /\ Len(Tail(s)) = n
          /\ \A k \in 1 .. n : Tail(s)[k] = s[k + 1]
      BY <1>1, <1>2, <2>1, HeadTailProperties
    <2> DEFINE v == Tail(s)
    <2>3. v \in Seq(Byte) /\ Len(v) = n /\ byte \in Byte
      BY <2>2
    <2> HIDE DEF v, s, n
    <2>4. /\ Append(v, byte) \in Seq(Byte) /\ Len(Append(v, byte)) = n + 1
          /\ Append(v, byte)[n + 1] = byte
          /\ \A k \in 1 .. n : Append(v, byte)[k] = v[k]
      BY <1>1, <2>3, AppendProperties
    <2> QED
      BY <2>2, <2>4 DEF v
  <1>4. PICK pw : Powers(pw, a, n)
    BY <1>1, PowersExist
  <1>5. PICK h : Polynomial(h, a, s) /\ Direct(s) = h[n + 1] % m
    BY <1>1, <1>2, DirectFold
  <1>6. PICK g : Polynomial(g, a, t) /\ Direct(t) = g[n + 1] % m
    <2> HIDE DEF t
    <2> QED
      BY <1>1, <1>3, DirectFold
  <1>7. /\ weight \in Nat /\ (weight < m \/ weight = 1) /\ weight % m = pw[n] % m
    BY <1>4, WeightIsPower
  <1>8. pw[n] \in Nat /\ g[n] \in Nat /\ g[n + 1] = a * g[n] + byte /\ old \in Byte /\ old \in Nat
    <2>1. pw[n] \in Nat
      BY <1>1, <1>4 DEF Powers
    <2>2. g \in [0 .. n + 1 -> Nat] /\ \A k \in 1 .. n + 1 : g[k] = a * g[k - 1] + t[k]
      BY <1>3, <1>6 DEF Polynomial
    <2>3. g[n] \in Nat /\ g[n + 1] = a * g[n] + t[n + 1]
      <3> HIDE DEF n, a, t
      <3>1. n \in 0 .. n + 1 /\ n + 1 \in 1 .. n + 1 /\ (n + 1) - 1 = n
        BY <1>1
      <3> QED
        BY <2>2, <3>1
    <2> QED
      BY <1>1, <1>2, <1>3, <2>1, <2>3
  <1>9. h[n + 1] = pw[n] * old + g[n]
    <2> HIDE DEF n, a, t, s
    <2>1. \A k \in 1 .. n + 1 : s[k] \in Nat
      BY <1>2
    <2>2. /\ a \in Nat /\ n \in Nat /\ Powers(pw, a, n)
          /\ Len(s) = n + 1 /\ Len(t) = n + 1 /\ \A k \in 1 .. n : t[k] = s[k + 1]
          /\ Polynomial(h, a, s) /\ Polynomial(g, a, t)
      BY <1>1, <1>2, <1>3, <1>4, <1>5, <1>6
    <2>4. Shifted(a, n, pw, s, t, h, g)
      BY <2>1, <2>2, Zenon DEF Shifted
    <2>3. h[n + 1] = pw[n] * s[1] + g[n]
      BY <2>4, FirstByteApart
    <2> QED
      BY <2>3
  <1> HIDE DEF old, weight
  <1> DEFINE hash == pw[n] * old + g[n]
             gone == old * weight
             u    == (hash % m) + m - (gone % m)
  <1>10. u \in Nat /\ u % m = g[n] % m
    <2> DEFINE power == pw[n]
               rest == g[n]
    <2>1. power \in Nat /\ rest \in Nat /\ weight % m = power % m
      BY <1>7, <1>8
    <2>0. m \in Nat \ {0} /\ weight \in Nat /\ old \in Nat
      BY <1>1, <1>7, <1>8
    <2> HIDE DEF power, rest, m
    <2>3. Weighs(m, power, weight, old, rest)
      BY <2>0, <2>1, Zenon DEF Weighs
    <2>2. LET x == ((power * old + rest) % m) + m - ((old * weight) % m)
          IN  x \in Nat /\ x % m = rest % m
      BY <2>3, Evicted
    <2> QED
      BY <2>2 DEF power, rest
  <1>11. r.print = hash % m
    BY <1>5, <1>9
  <1>12. /\ hash \in Nat /\ hash % m \in 0 .. m - 1
         /\ gone \in Nat /\ gone % m \in 0 .. m - 1
    <2>1. hash \in Nat /\ gone \in Nat
      BY <1>7, <1>8
    <2> HIDE DEF hash, gone
    <2> QED
      BY <1>1, <2>1, Division
  <1>13. Rolling(params, r.print, gone % m, weight, old, byte)
    BY <1>1, <1>7, <1>8, <1>11, <1>12 DEF Rolling, Byte
  <1>14. /\ Reduce(params, Word(gone)) = gone % m
         /\ Reduce(params, Word(a * (r.print + m - (gone % m)) + byte))
              = (a * (r.print + m - (gone % m)) + byte) % m
    BY <1>13, RollIsExact DEF ParamsGood
  <1>15. (a * u + byte) % m = g[n + 1] % m
    <2> DEFINE rest == g[n]
    <2>1. rest \in Nat /\ u \in Nat /\ byte \in Nat /\ u % m = rest % m
      BY <1>1, <1>8, <1>10
    <2>2. g[n + 1] = a * rest + byte
      BY <1>8
    <2> HIDE DEF u, rest, a, m
    <2>3. Steady(m, a)
      BY <1>1, StepSteady
    <2>4. (a * (u % m) + byte) % m = (a * u + byte) % m
      BY <2>1, <2>3, Zenon DEF Steady
    <2>5. (a * (rest % m) + byte) % m = (a * rest + byte) % m
      BY <2>1, <2>3, Zenon DEF Steady
    <2> QED
      BY <2>1, <2>2, <2>4, <2>5
  <1>16. ComputeNext(params, r, byte).print = (a * u + byte) % m
    <2>1. Head(r.window) = old
      BY <1>2 DEF old
    <2>2. ComputeNext(params, r, byte).print
            = Reduce(params, Word(a * (r.print + m - Reduce(params, Word(old * weight))) + byte))
      BY <2>1 DEF ComputeNext, weight
    <2> QED
      BY <1>11, <1>14, <2>2
  <1>17. ComputeNext(params, r, byte).window = t
    BY DEF ComputeNext
  <1> QED
    BY <1>6, <1>15, <1>16, <1>17

-----------------------------------------------------------------------------
(* Reading a file that may have changed under the reader: what comes may   *)
(* be anything, but there is no more of it than was asked for.             *)

(* A file as its reader knows it.                                          *)
Typed(f) == f \in FileType(Byte) /\ Len(f.buf) <= BufferSize

LEMMA StreamTyped ==
    ASSUME NEW f, f \in FileType(Byte), content \in Seq(Byte), f.buf = <<>>,
           NEW n \in Nat, NEW r \in StreamRead(f, content, n)
    PROVE  /\ r = [bytes |-> r.bytes, file |-> r.file]
           /\ r.bytes \in Seq(Byte) /\ Len(r.bytes) <= n
           /\ r.file \in FileType(Byte) /\ r.file.buf = <<>> /\ r.file.size = f.size
  <1> DEFINE from == f.at + 1
             m    == Min({f.at + n, Len(content)})
             left == IF f.eof THEN <<>> ELSE SubSeq(content, from, m)
             Got(k, eof, bad) == [bytes |-> SubSeq(left, 1, k),
                                  file  |-> [f EXCEPT !.at = @ + k, !.eof = eof, !.error = bad]]
  <1>1. f.at \in Nat /\ Len(content) \in Nat
    BY LenProperties DEF FileType
  <1>2. m \in Int /\ m <= f.at + n /\ m <= Len(content)
    BY SMTT(60), <1>1, MinOfTwo
  <1>3. left \in Seq(Byte) /\ Len(left) \in 0 .. n
    <2>1. <<>> \in Seq(Byte) /\ Len(<<>>) = 0
      BY EmptySeq
    <2>2. from \in Nat \ {0} /\ from = f.at + 1
      BY <1>1
    <2> HIDE DEF m, from
    <2>3. /\ SubSeq(content, from, m) \in Seq(Byte)
          /\ Len(SubSeq(content, from, m)) = IF from <= m THEN m - from + 1 ELSE 0
      BY <1>2, <2>2, Part
    <2>4. Len(SubSeq(content, from, m)) \in 0 .. n
      BY SMTT(60), <1>1, <1>2, <2>2, <2>3
    <2> QED
      BY <2>1, <2>3, <2>4
  <1>4. \E k \in 0 .. Len(left), eof \in BOOLEAN, bad \in BOOLEAN : r = Got(k, eof, bad)
    <2>1. r \in {Got(Len(left), Len(left) < n, FALSE)}
                \cup (IF f.eof THEN {} ELSE {Got(k, FALSE, TRUE) : k \in 0 .. Len(left)})
      BY DEF StreamRead
    <2>2. Len(left) \in 0 .. Len(left) /\ (Len(left) < n) \in BOOLEAN
      BY <1>3
    <2> HIDE DEF left, Got
    <2> QED
      BY <2>1, <2>2
  <1> HIDE DEF left
  <1>5. PICK k \in 0 .. Len(left), eof \in BOOLEAN, bad \in BOOLEAN : r = Got(k, eof, bad)
    BY <1>4
  <1>6. k \in Nat /\ k <= n /\ k <= Len(left) /\ f.at + k \in Nat
    BY <1>1, <1>3
  <1>7. SubSeq(left, 1, k) \in Seq(Byte) /\ Len(SubSeq(left, 1, k)) <= n
    <2>1. Len(SubSeq(left, 1, k)) = IF 1 <= k THEN k - 1 + 1 ELSE 0
      BY <1>3, <1>6, Part
    <2>2. SubSeq(left, 1, k) \in Seq(Byte)
      BY <1>3, <1>6, Part
    <2> QED
      BY <1>6, <2>1, <2>2
  <1>8. /\ r.bytes = SubSeq(left, 1, k)
        /\ r.file = [f EXCEPT !.at = @ + k, !.eof = eof, !.error = bad]
        /\ r = [bytes |-> r.bytes, file |-> r.file]
    BY <1>5
  <1>9. r.file \in FileType(Byte) /\ r.file.buf = <<>> /\ r.file.size = f.size
    BY <1>6, <1>8 DEF FileType
  <1> QED
    BY <1>7, <1>8, <1>9

LEMMA ReadByteTyped ==
    ASSUME content \in Seq(Byte), Typed(file), NEW r \in ReadByte(file, content)
    PROVE  /\ Typed(r.file) /\ r.file.size = file.size
           /\ r.byte = EndOfFile \/ r.byte \in Byte
  <1>1. PICK g \in (IF file.buf = <<>> THEN Refill(file, content) ELSE {file}) :
           r = IF g.buf = <<>> THEN [byte |-> EndOfFile, file |-> g]
               ELSE [byte |-> Head(g.buf), file |-> [g EXCEPT !.buf = Tail(@)]]
    BY DEF ReadByte
  <1>2. Typed(g) /\ g.size = file.size
    <2>1. CASE g = file
      BY <2>1
    <2>2. CASE g # file
      <3>1. file.buf = <<>> /\ BufferSize \in Nat
        BY <1>1, <2>2, BufferAssumption
      <3>2. PICK s \in StreamRead(file, content, BufferSize) : g = [s.file EXCEPT !.buf = s.bytes]
        BY <1>1, <2>2 DEF Refill
      <3>3. /\ s.bytes \in Seq(Byte) /\ Len(s.bytes) <= BufferSize
            /\ s.file \in FileType(Byte) /\ s.file.size = file.size
        BY <3>1, <3>2, StreamTyped DEF Typed
      <3>4. g \in FileType(Byte) /\ g.buf = s.bytes /\ g.size = file.size
        BY <3>2, <3>3 DEF FileType
      <3> QED
        BY <3>3, <3>4 DEF Typed
    <2> QED
      BY <2>1, <2>2
  <1>3. CASE g.buf = <<>>
    BY <1>1, <1>2, <1>3
  <1>4. CASE g.buf # <<>>
    <2>1. r.byte = Head(g.buf) /\ r.file = [g EXCEPT !.buf = Tail(@)]
      BY <1>1, <1>4
    <2>2. g.buf \in Seq(Byte) /\ Len(g.buf) \in Nat /\ g \in FileType(Byte)
      BY <1>2, LenProperties DEF Typed, FileType
    <2>3. /\ Head(g.buf) \in Byte /\ Tail(g.buf) \in Seq(Byte)
          /\ Len(Tail(g.buf)) = Len(g.buf) - 1
      BY <1>4, <2>2, HeadTailProperties
    <2>4. r.file \in FileType(Byte) /\ r.file.buf = Tail(g.buf) /\ r.file.size = g.size
      BY <2>1, <2>2, <2>3 DEF FileType
    <2>5. Len(r.file.buf) <= BufferSize
      BY <1>2, <2>2, <2>3, <2>4, BufferAssumption DEF Typed
    <2> QED
      BY <1>2, <2>1, <2>3, <2>4, <2>5 DEF Typed
  <1> QED
    BY <1>3, <1>4

LEMMA ReadChunkTyped ==
    ASSUME NEW f, Typed(f), content \in Seq(Byte), NEW n \in Nat, NEW r \in ReadChunk(f, content, n)
    PROVE  /\ Typed(r.file) /\ r.file.size = f.size
           /\ r.bytes \in Seq(Byte) /\ Len(r.bytes) <= n
  <1> DEFINE b     == f.buf
             l     == Len(b)
             j     == Min({n, l})
             from  == n + 1
             ahead == SubSeq(b, 1, j)
             rest  == SubSeq(b, from, l)
             g     == [f EXCEPT !.buf = rest]
  <1>1. b \in Seq(Byte) /\ l \in Nat /\ l <= BufferSize /\ f \in FileType(Byte) /\ BufferSize \in Nat
    BY LenProperties, BufferAssumption DEF Typed, FileType
  <1>2. j \in Nat /\ j <= n /\ j <= l /\ from \in Nat \ {0} /\ (j = n \/ j = l)
        /\ (from <= l => j = n)
    <2>1. j = IF n <= l THEN n ELSE l
      BY <1>1, MinOfTwo
    <2> HIDE DEF j, l
    <2> QED
      BY <1>1, <2>1
  <1>r. /\ f.error => r = [bytes |-> <<>>, file |-> f]
        /\ ~f.error /\ Len(ahead) = n => r = [bytes |-> ahead, file |-> g]
        /\ ~f.error /\ Len(ahead) # n =>
              \E s \in StreamRead(g, content, n - Len(ahead)) : r = [s EXCEPT !.bytes = ahead \o @]
    BY DEF ReadChunk
  <1> HIDE DEF j, from
  <1>3. ahead \in Seq(Byte) /\ Len(ahead) = j
    <2>1. ahead \in Seq(Byte) /\ Len(ahead) = IF 1 <= j THEN j - 1 + 1 ELSE 0
      BY <1>1, <1>2, Part
    <2> HIDE DEF ahead
    <2> QED
      BY <1>2, <2>1
  <1>4. rest \in Seq(Byte) /\ Len(rest) <= BufferSize /\ (j # n => rest = <<>>)
    <2>1. rest \in Seq(Byte) /\ Len(rest) = IF from <= l THEN l - from + 1 ELSE 0
      BY <1>1, <1>2, Part
    <2> HIDE DEF rest, l
    <2>2. Len(rest) <= BufferSize
      BY <1>1, <1>2, <2>1
    <2>3. j # n => Len(rest) = 0
      BY <1>1, <1>2, <2>1
    <2> QED
      BY <2>1, <2>2, <2>3, EmptySeq
  <1>5. g \in FileType(Byte) /\ g.buf = rest /\ g.size = f.size
    BY <1>1, <1>4 DEF FileType
  <1> HIDE DEF ahead, rest, g
  <1>6. CASE f.error
    <2>1. r.bytes = <<>> /\ r.file = f
      BY <1>6, <1>r
    <2>2. <<>> \in Seq(Byte) /\ Len(<<>>) = 0
      BY EmptySeq
    <2> QED
      BY <2>1, <2>2
  <1>7. CASE ~f.error /\ Len(ahead) = n
    <2>1. r.bytes = ahead /\ r.file = g
      BY <1>7, <1>r
    <2> QED
      BY <1>2, <1>3, <1>4, <1>5, <1>7, <2>1 DEF Typed
  <1>8. CASE ~f.error /\ Len(ahead) # n
    <2>1. PICK s \in StreamRead(g, content, n - Len(ahead)) : r = [s EXCEPT !.bytes = ahead \o @]
      BY <1>8, <1>r
    <2>2. n - Len(ahead) \in Nat /\ g.buf = <<>>
      BY <1>2, <1>3, <1>4, <1>5, <1>8
    <2>3. /\ s = [bytes |-> s.bytes, file |-> s.file]
          /\ s.bytes \in Seq(Byte) /\ Len(s.bytes) <= n - Len(ahead)
          /\ s.file \in FileType(Byte) /\ s.file.buf = <<>> /\ s.file.size = g.size
      BY <1>5, <2>1, <2>2, StreamTyped
    <2>4. r.bytes = ahead \o s.bytes /\ r.file = s.file
      BY <2>1, <2>3
    <2>5. r.bytes \in Seq(Byte) /\ Len(r.bytes) = Len(ahead) + Len(s.bytes)
      <3>1. r.bytes = ahead \o s.bytes /\ ahead \in Seq(Byte) /\ s.bytes \in Seq(Byte)
        BY <1>3, <2>3, <2>4
      <3>2. /\ ahead \o s.bytes \in Seq(Byte)
            /\ Len(ahead \o s.bytes) = Len(ahead) + Len(s.bytes)
        BY <3>1, Joined
      <3> QED
        BY <3>1, <3>2
    <2>6. Len(s.bytes) \in Nat /\ Len(ahead) \in Nat
      BY <1>2, <1>3, <2>3, LenProperties
    <2>7. Len(r.bytes) <= n
      BY <2>3, <2>5, <2>6
    <2>8. Typed(r.file)
      BY <1>1, <2>3, <2>4, EmptySeq DEF Typed
    <2> QED
      BY <1>5, <2>3, <2>4, <2>5, <2>7, <2>8
  <1> QED
    BY <1>6, <1>7, <1>8

-----------------------------------------------------------------------------
(* The inductive invariant.                                                *)

(* Bytes that are those of the file from position n on.                    *)
Says(bytes, n) ==
    /\ n + Len(bytes) <= Len(content)
    /\ \A j \in 1 .. Len(bytes) : bytes[j] = content[n + j]

(* A sequence of whatever its elements are.                                *)
IsSeq(s) == s \in Seq({s[k] : k \in 1 .. Len(s)})

ChunkGood(c) == c.start \in Nat /\ c.bytes \in Seq(Byte) /\ Len(c.bytes) \in 1 .. MaxChunk

(* Whatever becomes of the file.                                           *)
ReaderInv ==
    /\ content \in Seq(Byte) /\ changed \in BOOLEAN
    /\ Typed(file)
    /\ pc = "first" => file.at = 0 /\ file.buf = <<>> /\ ~file.error

ChunkInv ==
    /\ chunk \in Seq(Byte) /\ Len(chunk) < MaxChunk
    /\ bytesRead \in Nat /\ Len(chunk) <= bytesRead
    /\ IsSeq(chunks)
    /\ \A k \in 1 .. Len(chunks) :
          /\ ChunkGood(chunks[k])
          /\ k < Len(chunks) \/ pc # "done" => Len(chunks[k].bytes) >= MinChunk

PhaseInv ==
    /\ pc \in {"open", "first", "window", "byte", "done"}
    /\ result \in {"none", "ok", "failed"} /\ (pc = "done" <=> result # "none")
    /\ pc \in {"open", "first"} => chunks = <<>> /\ chunk = <<>> /\ bytesRead = 0
    /\ pc = "window" => chunk = <<>>
    /\ pc # "done" => Tile(chunks, bytesRead - Len(chunk))
    /\ result = "ok" => Tile(chunks, file.size)
    /\ result = "failed" => chunks = <<>>

(* As long as nobody changes the file.                                     *)
ContentInv ==
    ~changed =>
        /\ Good(file, content, Byte) /\ file.size = Len(content)
        /\ pc # "done" => Position(file) = bytesRead /\ Says(chunk, bytesRead - Len(chunk))
        /\ \A k \in 1 .. Len(chunks) : Says(chunks[k].bytes, chunks[k].start)

IInv == ReaderInv /\ ChunkInv /\ PhaseInv /\ ContentInv

-----------------------------------------------------------------------------
(* What a read of a window yields, in either phase that reads one.         *)
Outcome(r) ==
    /\ Typed(r.file) /\ r.file.size = file.size
    /\ r.bytes \in Seq(Byte) /\ Len(r.bytes) <= Window
    /\ ~changed => /\ Good(r.file, content, Byte)
                   /\ Position(r.file) = bytesRead + Len(r.bytes)
                   /\ Says(r.bytes, bytesRead)

LEMMA Sizes ==
    /\ Window \in Nat \ {0} /\ MinChunk \in Nat /\ MaxChunk \in Nat
    /\ Window < MinChunk /\ MinChunk <= MaxChunk /\ BufferSize \in Nat \ {0}
  BY RollingAssumption, SignatureAssumption, BufferAssumption

(* A chunk that was read from where the caller stands is what the file has *)
(* there.                                                                  *)
LEMMA ReadSays ==
    ASSUME NEW f, content \in Seq(Byte), Good(f, content, Byte),
           NEW r \in ReadChunk(f, content, Window), Position(f) = bytesRead, bytesRead \in Nat
    PROVE  /\ Good(r.file, content, Byte)
           /\ Position(r.file) = bytesRead + Len(r.bytes)
           /\ Says(r.bytes, bytesRead)
  <1>1. /\ Good(r.file, content, Byte)
        /\ r.bytes \in Seq(Byte)
        /\ Position(r.file) = Position(f) + Len(r.bytes)
        /\ \A i \in 1 .. Len(r.bytes) : r.bytes[i] = content[Position(f) + i]
    <2>1. Window \in Nat
      BY Sizes
    <2> QED
      BY <2>1, ReadChunkReads
  <1>2. Position(r.file) <= Len(content)
    <2>1. r.file.at \in Nat /\ Len(r.file.buf) \in Nat /\ r.file.at <= Len(content)
          /\ Len(content) \in Nat
      BY <1>1, LenProperties DEF Good, FileType
    <2> QED
      BY <2>1 DEF Position
  <1> QED
    BY <1>1, <1>2 DEF Says

LEMMA AtStart ==
    ASSUME NEW f, f \in FileType(Byte), f.at = 0, f.buf = <<>>, content \in Seq(Byte)
    PROVE  Typed(f) /\ Good(f, content, Byte) /\ Position(f) = 0
  <1>1. Len(f.buf) = 0 /\ Len(content) \in Nat /\ BufferSize \in Nat
    BY EmptySeq, LenProperties, Sizes
  <1>2. Len(f.buf) <= BufferSize /\ f.at - Len(f.buf) = 0
    <2> DEFINE l == Len(f.buf)
    <2>1. l = 0 /\ f.at = 0 /\ BufferSize \in Nat
      BY <1>1
    <2> HIDE DEF l
    <2>2. l <= BufferSize /\ f.at - l = 0
      BY <2>1
    <2> QED
      BY <2>2 DEF l
  <1>3. Typed(f)
    BY <1>2 DEF Typed
  <1>4. Position(f) = 0
    BY <1>2 DEF Position
  <1> QED
    BY <1>1, <1>3, <1>4 DEF Good

LEMMA FirstOutcome ==
    ASSUME IInv, pc = "first", NEW r \in ReadChunkAt(file, content, Window, 0)
    PROVE  Outcome(r)
  <1> DEFINE g == [file EXCEPT !.buf = <<>>]
             h == [g EXCEPT !.at = 0, !.eof = FALSE]
             e == [g EXCEPT !.error = TRUE]
  <1>1. /\ content \in Seq(Byte) /\ Typed(file) /\ file.at = 0 /\ file.buf = <<>> /\ ~file.error
        /\ bytesRead = 0 /\ Len(content) \in Nat
    BY LenProperties DEF IInv, ReaderInv, PhaseInv
  <1>2. r = [bytes |-> <<>>, file |-> e] \/ r \in ReadChunk(h, content, Window)
    BY <1>1 DEF ReadChunkAt
  <1>3. <<>> \in Seq(Byte) /\ Len(<<>>) = 0
    BY EmptySeq
  <1>4. /\ h \in FileType(Byte) /\ h.at = 0 /\ h.buf = <<>> /\ h.size = file.size
        /\ e \in FileType(Byte) /\ e.at = 0 /\ e.buf = <<>> /\ e.size = file.size
    BY <1>1, <1>3 DEF Typed, FileType
  <1> HIDE DEF h, e
  <1>5. /\ Typed(h) /\ Good(h, content, Byte) /\ Position(h) = 0
        /\ Typed(e) /\ Good(e, content, Byte) /\ Position(e) = 0
    BY <1>1, <1>4, AtStart
  <1>6. CASE r \in ReadChunk(h, content, Window)
    <2>1. /\ Typed(r.file) /\ r.file.size = file.size
          /\ r.bytes \in Seq(Byte) /\ Len(r.bytes) <= Window
      BY <1>1, <1>4, <1>5, <1>6, ReadChunkTyped, Sizes
    <2>2. /\ Good(r.file, content, Byte)
          /\ Position(r.file) = bytesRead + Len(r.bytes)
          /\ Says(r.bytes, bytesRead)
      BY <1>1, <1>5, <1>6, ReadSays
    <2> QED
      BY <2>1, <2>2 DEF Outcome
  <1>7. CASE r = [bytes |-> <<>>, file |-> e]
    <2>1. r.bytes = <<>> /\ r.file = e
      BY <1>7
    <2>2. Says(<<>>, 0)
      BY <1>1, <1>3 DEF Says
    <2> QED
      BY <1>1, <1>3, <1>4, <1>5, <2>1, <2>2, Sizes DEF Outcome
  <1> QED
    BY <1>2, <1>6, <1>7

LEMMA NextOutcome ==
    ASSUME IInv, pc = "window", NEW r \in ReadChunk(file, content, Window)
    PROVE  Outcome(r)
  <1>1. content \in Seq(Byte) /\ Typed(file) /\ bytesRead \in Nat
    BY DEF IInv, ReaderInv, ChunkInv
  <1>2. /\ Typed(r.file) /\ r.file.size = file.size
        /\ r.bytes \in Seq(Byte) /\ Len(r.bytes) <= Window
    BY <1>1, ReadChunkTyped, Sizes
  <1>3. ASSUME ~changed
        PROVE  /\ Good(r.file, content, Byte)
               /\ Position(r.file) = bytesRead + Len(r.bytes)
               /\ Says(r.bytes, bytesRead)
    <2>1. Good(file, content, Byte) /\ Position(file) = bytesRead
      BY <1>3 DEF IInv, ContentInv
    <2> QED
      BY <1>1, <2>1, ReadSays
  <1> QED
    BY <1>2, <1>3 DEF Outcome

-----------------------------------------------------------------------------
(* Emitting a chunk.                                                       *)

LEMMA SeqOfItsElements ==
    ASSUME NEW S, NEW s \in Seq(S)
    PROVE  IsSeq(s)
  <1> DEFINE T == {s[k] : k \in 1 .. Len(s)}
  <1>1. Len(s) \in Nat /\ s \in [1 .. Len(s) -> S]
    BY LenProperties
  <1>2. s \in [1 .. Len(s) -> T]
    BY <1>1
  <1> HIDE DEF T
  <1>3. s \in Seq(T)
    BY <1>1, <1>2, SeqDef
  <1> QED
    BY <1>3 DEF IsSeq, T

LEMMA Longer ==
    ASSUME NEW s, IsSeq(s), NEW e
    PROVE  /\ IsSeq(Append(s, e)) /\ Append(s, e) # <<>>
           /\ Len(s) \in Nat /\ Len(Append(s, e)) = Len(s) + 1
           /\ Append(s, e)[Len(s) + 1] = e
           /\ \A k \in 1 .. Len(s) : Append(s, e)[k] = s[k]
  <1> DEFINE S == {s[k] : k \in 1 .. Len(s)}
             T == S \cup {e}
             t == Append(s, e)
  <1>1. s \in Seq(S) /\ S \subseteq T /\ e \in T
    BY DEF IsSeq
  <1> HIDE DEF S, T
  <1>2. s \in Seq(T)
    BY <1>1, SeqMonotonic
  <1>3. t \in Seq(T) /\ Len(t) = Len(s) + 1 /\ Len(s) \in Nat
        /\ \A k \in 1 .. Len(s) + 1 : t[k] = IF k <= Len(s) THEN s[k] ELSE e
    BY <1>1, <1>2, LenProperties
  <1>4. t # <<>>
    BY <1>3, EmptySeq
  <1>5. IsSeq(t)
    BY <1>3, SeqOfItsElements
  <1> QED
    BY <1>3, <1>4, <1>5

LEMMA Emission ==
    ASSUME NEW cs, IsSeq(cs), \A k \in 1 .. Len(cs) : ChunkGood(cs[k]),
           NEW bytes \in Seq(Byte), NEW signature, NEW total \in Nat,
           Len(bytes) \in 1 .. MaxChunk, Len(bytes) <= total, Tile(cs, total - Len(bytes))
    PROVE  LET c  == Chunk(bytes, signature, total - Len(bytes))
               ds == Append(cs, c)
           IN  /\ IsSeq(ds) /\ ds # <<>> /\ Len(cs) \in Nat /\ Len(ds) = Len(cs) + 1
               /\ c.bytes = bytes /\ c.start = total - Len(bytes)
               /\ ds[Len(cs) + 1] = c /\ \A k \in 1 .. Len(cs) : ds[k] = cs[k]
               /\ \A k \in 1 .. Len(ds) : ChunkGood(ds[k])
               /\ Tile(ds, total)
  <1> DEFINE l  == Len(bytes)
             c  == Chunk(bytes, signature, total - l)
             ds == Append(cs, c)
             n  == Len(cs)
  <1>1. l \in 1 .. MaxChunk /\ l <= total /\ l \in Nat /\ total \in Nat
    BY LenProperties
  <1>2. c.bytes = bytes /\ c.start = total - l
    BY DEF Chunk
  <1> HIDE DEF c
  <1>3. /\ IsSeq(ds) /\ ds # <<>> /\ n \in Nat /\ Len(ds) = n + 1
        /\ ds[n + 1] = c /\ \A k \in 1 .. n : ds[k] = cs[k]
    BY Longer
  <1>4. ChunkGood(c)
    BY <1>1, <1>2 DEF ChunkGood
  <1>5. EndOf(c) = total
    <2>1. EndOf(c) = (total - l) + l
      BY <1>2 DEF EndOf
    <2> HIDE DEF l
    <2> QED
      BY <1>1, <2>1
  <1>6. cs = <<>> => n = 0 /\ total - l = 0
    BY EmptySeq DEF Tile
  <1>7. cs # <<>> => n \in Nat \ {0}
    BY EmptySeq DEF IsSeq
  <1>8. cs # <<>> => /\ cs[1].start = 0 /\ EndOf(cs[n]) = total - l
                     /\ \A k \in 1 .. n - 1 : cs[k + 1].start = EndOf(cs[k])
    BY DEF Tile
  <1> HIDE DEF l, n, ds
  <1>9. Tile(ds, total)
    <2>1. ds[1].start = 0
      <3>1. CASE cs = <<>>
        BY <1>2, <1>3, <1>6, <3>1
      <3>2. CASE cs # <<>>
        BY <1>3, <1>7, <1>8, <3>2
      <3> QED
        BY <3>1, <3>2
    <2>2. \A k \in 1 .. n : ds[k + 1].start = EndOf(ds[k])
      <3> TAKE k \in 1 .. n
      <3>1. cs # <<>> /\ n \in Nat \ {0}
        BY <1>3, <1>6, <1>7
      <3>2. CASE k = n
        <4>1. ds[k + 1] = c /\ ds[k] = cs[n]
          BY <1>3, <3>1, <3>2
        <4> QED
          BY <1>2, <1>8, <3>1, <4>1
      <3>3. CASE k # n
        <4>1. k \in 1 .. n - 1 /\ k + 1 \in 1 .. n
          BY <3>1, <3>3
        <4>2. ds[k + 1] = cs[k + 1] /\ ds[k] = cs[k]
          BY <1>3, <4>1
        <4> QED
          BY <1>8, <3>1, <4>1, <4>2
      <3> QED
        BY <3>2, <3>3
    <2>3. EndOf(ds[Len(ds)]) = total /\ Len(ds) - 1 = n
      BY <1>3, <1>5
    <2> QED
      BY <1>3, <2>1, <2>2, <2>3 DEF Tile
  <1>10. \A k \in 1 .. Len(ds) : ChunkGood(ds[k])
    <2> TAKE k \in 1 .. Len(ds)
    <2>1. k \in 1 .. n \/ k = n + 1
      BY <1>3
    <2> QED
      BY <1>3, <1>4, <2>1 DEF n
  <1> QED
    BY <1>2, <1>3, <1>9, <1>10 DEF c, ds, l, n

-----------------------------------------------------------------------------
(* The steps.                                                              *)

(* The chunks of a state, with one more, still are what the file says.     *)
LEMMA SaysMore ==
    ASSUME NEW cs, NEW ds, NEW c, Len(cs) \in Nat, Len(ds) = Len(cs) + 1,
           ds[Len(cs) + 1] = c, \A k \in 1 .. Len(cs) : ds[k] = cs[k],
           \A k \in 1 .. Len(cs) : Says(cs[k].bytes, cs[k].start), Says(c.bytes, c.start)
    PROVE  \A k \in 1 .. Len(ds) : Says(ds[k].bytes, ds[k].start)
  <1> TAKE k \in 1 .. Len(ds)
  <1> DEFINE n == Len(cs)
  <1>1. k \in 1 .. n \/ k = n + 1
    OBVIOUS
  <1> QED
    BY <1>1

LEMMA EndStep ==
    ASSUME IInv, UNCHANGED <<content, changed>>, pc # "done",
           NEW bytes \in Seq(Byte), NEW signature, NEW f, NEW total \in Nat,
           Len(bytes) < MaxChunk, Len(bytes) <= total, Tile(chunks, total - Len(bytes)),
           Typed(f),
           ~changed => /\ Good(f, content, Byte) /\ f.size = Len(content)
                       /\ Says(bytes, total - Len(bytes)),
           End(bytes, signature, f, total)
    PROVE  IInv'
  <1> DEFINE c  == Chunk(bytes, signature, total - Len(bytes))
             ds == Append(chunks, c)
  <1>1. /\ pc' = "done" /\ chunk' = bytes /\ file' = f /\ bytesRead' = total
        /\ \/ result' = "failed" /\ chunks' = <<>>
           \/ result' = "ok" /\ total = f.size /\ bytes = <<>> /\ chunks' = chunks
           \/ result' = "ok" /\ total = f.size /\ bytes # <<>> /\ chunks' = ds
    BY DEF End, Failed
  <1>2. content \in Seq(Byte) /\ changed \in BOOLEAN /\ IsSeq(chunks)
        /\ \A k \in 1 .. Len(chunks) : ChunkGood(chunks[k]) /\ Len(chunks[k].bytes) >= MinChunk
    BY DEF IInv, ReaderInv, ChunkInv
  <1>3. ~changed => \A k \in 1 .. Len(chunks) : Says(chunks[k].bytes, chunks[k].start)
    BY DEF IInv, ContentInv
  <1>4. Len(<<>>) = 0 /\ IsSeq(<<>>)
    BY EmptySeq, SeqOfItsElements
  <1>5. ReaderInv'
    BY <1>1, <1>2 DEF ReaderInv
  <1>6. CASE result' = "failed" /\ chunks' = <<>>
    <2>1. ChunkInv' /\ PhaseInv'
      BY <1>1, <1>4, <1>6 DEF ChunkInv, PhaseInv
    <2>2. ContentInv'
      BY <1>1, <1>4, <1>6 DEF ContentInv
    <2> QED
      BY <1>5, <2>1, <2>2 DEF IInv
  <1>7. CASE result' = "ok" /\ total = f.size /\ bytes = <<>> /\ chunks' = chunks
    <2>1. Tile(chunks, total)
      BY <1>4, <1>7
    <2>2. ChunkInv' /\ PhaseInv'
      BY <1>1, <1>2, <1>7, <2>1 DEF ChunkInv, PhaseInv
    <2>3. ContentInv'
      BY <1>1, <1>3, <1>7 DEF ContentInv, Says
    <2> QED
      BY <1>5, <2>2, <2>3 DEF IInv
  <1>8. CASE result' = "ok" /\ total = f.size /\ bytes # <<>> /\ chunks' = ds
    <2>1. Len(bytes) \in 1 .. MaxChunk
      BY <1>8, EmptySeq, Sizes
    <2>2. /\ IsSeq(ds) /\ Len(chunks) \in Nat /\ Len(ds) = Len(chunks) + 1
          /\ c.bytes = bytes /\ c.start = total - Len(bytes)
          /\ ds[Len(chunks) + 1] = c /\ \A k \in 1 .. Len(chunks) : ds[k] = chunks[k]
          /\ \A k \in 1 .. Len(ds) : ChunkGood(ds[k])
          /\ Tile(ds, total)
      BY <1>2, <2>1, Emission
    <2> HIDE DEF c, ds
    <2>3. \A k \in 1 .. Len(ds) : k < Len(ds) => Len(ds[k].bytes) >= MinChunk
      BY SMTT(60), <1>2, <2>2
    <2>4. ChunkInv' /\ PhaseInv'
      BY <1>1, <1>8, <2>2, <2>3 DEF ChunkInv, PhaseInv
    <2>5. ~changed => \A k \in 1 .. Len(ds) : Says(ds[k].bytes, ds[k].start)
      BY <1>3, <2>2, SaysMore
    <2>6. ContentInv'
      BY <1>1, <1>8, <2>5 DEF ContentInv, Says
    <2> QED
      BY <1>5, <2>4, <2>6 DEF IInv
  <1> QED
    BY <1>1, <1>6, <1>7, <1>8

LEMMA SeedStep ==
    ASSUME IInv, UNCHANGED <<content, changed>>, pc \in {"first", "window"},
           NEW r, Outcome(r), Seed(r)
    PROVE  IInv'
  <1> DEFINE total == bytesRead + Len(r.bytes)
  <1>1. /\ chunk = <<>> /\ bytesRead \in Nat /\ Len(<<>>) = 0 /\ IsSeq(chunks)
        /\ Tile(chunks, bytesRead - Len(chunk)) /\ content \in Seq(Byte)
        /\ changed \in BOOLEAN /\ pc # "done" /\ result = "none"
        /\ \A k \in 1 .. Len(chunks) : ChunkGood(chunks[k]) /\ Len(chunks[k].bytes) >= MinChunk
    BY EmptySeq DEF IInv, ReaderInv, ChunkInv, PhaseInv
  <1>2. Tile(chunks, bytesRead)
    BY <1>1
  <1>3. /\ Typed(r.file) /\ r.file.size = file.size /\ r.bytes \in Seq(Byte)
        /\ Len(r.bytes) \in Nat /\ Len(r.bytes) <= Window
        /\ ~changed => /\ Good(r.file, content, Byte) /\ Position(r.file) = total
                       /\ Says(r.bytes, bytesRead)
    BY LenProperties DEF Outcome
  <1>4. /\ total \in Nat /\ Len(r.bytes) <= total /\ total - Len(r.bytes) = bytesRead
        /\ Len(r.bytes) < MaxChunk
    BY <1>1, <1>3, Sizes
  <1>5. /\ ~changed => r.file.size = Len(content)
        /\ ~changed => \A k \in 1 .. Len(chunks) : Says(chunks[k].bytes, chunks[k].start)
    BY <1>3 DEF IInv, ContentInv
  <1> HIDE DEF total
  <1>6. CASE Full(r.bytes)
    <2>1. /\ pc' = "byte" /\ chunk' = r.bytes /\ file' = r.file /\ bytesRead' = total
          /\ UNCHANGED <<chunks, result>>
      BY <1>6 DEF Seed, total
    <2>2. ReaderInv'
      BY <1>1, <1>3, <2>1 DEF ReaderInv
    <2>3. ChunkInv'
      BY <1>1, <1>3, <1>4, <2>1 DEF ChunkInv
    <2>4. PhaseInv'
      BY <1>1, <1>2, <1>4, <2>1 DEF PhaseInv
    <2>5. ContentInv'
      BY <1>3, <1>4, <1>5, <2>1 DEF ContentInv, Says
    <2> QED
      BY <2>2, <2>3, <2>4, <2>5 DEF IInv
  <1>7. CASE ~Full(r.bytes)
    <2>1. \E signature : End(r.bytes, signature, r.file, total)
      BY <1>7 DEF Seed, total
    <2>2. PICK signature : End(r.bytes, signature, r.file, total)
      BY <2>1
    <2>3. Tile(chunks, total - Len(r.bytes))
          /\ (~changed => Says(r.bytes, total - Len(r.bytes)))
      BY <1>2, <1>3, <1>4
    <2> QED
      BY <1>1, <1>3, <1>4, <1>5, <2>2, <2>3, EndStep
  <1> QED
    BY <1>6, <1>7

LEMMA BoundarySize ==
    ASSUME NEW n \in Nat, n <= MaxChunk, NEW print
    PROVE  /\ Boundary(n, print) => n >= MinChunk
           /\ ~Boundary(n, print) => n < MaxChunk
  BY Sizes DEF Boundary

(* What NextByte does, without its local names.                            *)
Grown(r) == Append(chunk, r.byte)
Rolled(r) == ComputeNext(params, finger, r.byte).print
Cut(r)    == Chunk(Grown(r), Rolled(r), bytesRead + 1 - Len(Grown(r)))

Took(r) ==
    /\ r.byte = EndOfFile => End(chunk, finger.print, r.file, bytesRead) /\ finger' = finger
    /\ r.byte # EndOfFile =>
          /\ finger' = ComputeNext(params, finger, r.byte)
          /\ file' = r.file /\ bytesRead' = bytesRead + 1 /\ result' = result
          /\ \/ /\ Boundary(Len(Grown(r)), Rolled(r)) /\ pc' = "window" /\ chunk' = <<>>
                /\ chunks' = Append(chunks, Cut(r))
             \/ ~Boundary(Len(Grown(r)), Rolled(r)) /\ chunk' = Grown(r) /\ UNCHANGED <<pc, chunks>>

LEMMA NextByteTakes ==
    ASSUME NextByte
    PROVE  \E r \in ReadByte(file, content) : Took(r)
  <1>1. PICK r \in ReadByte(file, content) :
          IF r.byte = EndOfFile
          THEN End(chunk, finger.print, r.file, bytesRead) /\ UNCHANGED finger
          ELSE /\ finger' = ComputeNext(params, finger, r.byte)
               /\ file' = r.file /\ bytesRead' = bytesRead + 1
               /\ IF Boundary(Len(Grown(r)), Rolled(r))
                  THEN /\ pc' = "window" /\ chunk' = <<>> /\ chunks' = Append(chunks, Cut(r))
                  ELSE chunk' = Grown(r) /\ UNCHANGED <<pc, chunks>>
               /\ UNCHANGED result
    BY Zenon DEF NextByte, Grown, Rolled, Cut
  <1>2. Took(r)
    BY <1>1 DEF Took
  <1> QED
    BY <1>2

LEMMA NextByteStep ==
    ASSUME IInv, NextByte
    PROVE  IInv'
  <1>1. /\ pc = "byte" /\ content \in Seq(Byte) /\ Typed(file) /\ changed \in BOOLEAN
        /\ UNCHANGED <<content, changed>>
        /\ chunk \in Seq(Byte) /\ Len(chunk) \in Nat /\ Len(chunk) < MaxChunk
        /\ bytesRead \in Nat /\ Len(chunk) <= bytesRead /\ IsSeq(chunks)
        /\ Tile(chunks, bytesRead - Len(chunk)) /\ result = "none" /\ pc # "done"
        /\ \A k \in 1 .. Len(chunks) : ChunkGood(chunks[k]) /\ Len(chunks[k].bytes) >= MinChunk
    BY LenProperties DEF NextByte, IInv, ReaderInv, ChunkInv, PhaseInv
  <1>2. ~changed => /\ Good(file, content, Byte) /\ file.size = Len(content)
                    /\ Position(file) = bytesRead /\ Says(chunk, bytesRead - Len(chunk))
                    /\ \A k \in 1 .. Len(chunks) : Says(chunks[k].bytes, chunks[k].start)
    BY <1>1 DEF IInv, ContentInv
  <1>3. PICK r \in ReadByte(file, content) : Took(r)
    BY NextByteTakes
  <1>4. /\ Typed(r.file) /\ r.file.size = file.size
        /\ r.byte = EndOfFile \/ r.byte \in Byte
    BY <1>1, ReadByteTyped
  <1>5. ~changed => /\ Good(r.file, content, Byte) /\ r.file.size = Len(content)
                    /\ r.byte # EndOfFile => /\ Position(r.file) = bytesRead + 1
                                             /\ bytesRead + 1 \in 1 .. Len(content)
                                             /\ r.byte = content[bytesRead + 1]
    BY <1>1, <1>2, <1>4, ReadByteReads
  <1>6. CASE r.byte = EndOfFile
    <2>1. End(chunk, finger.print, r.file, bytesRead)
      BY <1>3, <1>6 DEF Took
    <2> QED
      BY <1>1, <1>2, <1>4, <1>5, <2>1, EndStep
  <1>7. CASE r.byte # EndOfFile
    <2> DEFINE longer == Grown(r)
               print  == Rolled(r)
               total  == bytesRead + 1
               l      == Len(chunk)
               c      == Chunk(longer, print, total - Len(longer))
               ds     == Append(chunks, c)
    <2>1. /\ file' = r.file /\ bytesRead' = total /\ result' = result
          /\ \/ /\ Boundary(Len(longer), print) /\ pc' = "window" /\ chunk' = <<>>
                /\ chunks' = Append(chunks, Cut(r))
             \/ ~Boundary(Len(longer), print) /\ chunk' = longer /\ UNCHANGED <<pc, chunks>>
      BY <1>3, <1>7 DEF Took
    <2>2. /\ longer \in Seq(Byte) /\ Len(longer) = l + 1
          /\ \A j \in 1 .. l + 1 : longer[j] = IF j <= l THEN chunk[j] ELSE r.byte
      BY SMTT(60), <1>1, <1>4, <1>7 DEF Grown
    <2>3. /\ l \in Nat /\ l + 1 <= MaxChunk /\ total \in Nat /\ l + 1 <= total
          /\ total - (l + 1) = bytesRead - l /\ l + 1 \in 1 .. MaxChunk
      BY <1>1, Sizes
    <2> HIDE DEF longer, print
    <2>c. Append(chunks, Cut(r)) = ds
      <3>1. bytesRead + (1 - Len(longer)) = (bytesRead + 1) - Len(longer)
        BY <1>1, <2>2, <2>3
      <3>2. Cut(r) = Chunk(longer, print, bytesRead + (1 - Len(longer)))
        BY DEF Cut, longer, print
      <3> QED
        BY <3>1, <3>2
    <2>4. ~changed => Says(longer, bytesRead - l)
      <3> SUFFICES ASSUME ~changed PROVE Says(longer, bytesRead - l)
        OBVIOUS
      <3>1. \A j \in 1 .. l : chunk[j] = content[bytesRead - l + j]
        BY <1>2 DEF Says
      <3>2. bytesRead - l + (l + 1) = bytesRead + 1
        BY <1>1, <2>3
      <3>3. \A j \in 1 .. l + 1 : longer[j] = content[bytesRead - l + j]
        <4> TAKE j \in 1 .. l + 1
        <4>1. CASE j <= l
          BY <2>2, <2>3, <3>1, <4>1
        <4>2. CASE j = l + 1
          <5>1. longer[j] = r.byte
            BY <2>2, <2>3, <4>2
          <5> QED
            BY <1>5, <1>7, <3>2, <4>2, <5>1
        <4> QED
          BY <2>3, <4>1, <4>2
      <3>4. bytesRead - l + Len(longer) <= Len(content)
        BY <1>5, <1>7, <2>2, <3>2
      <3> QED
        BY <2>2, <3>3, <3>4 DEF Says
    <2>5. ReaderInv'
      BY <1>1, <1>4, <2>1 DEF ReaderInv
    <2> HIDE DEF c, ds, total
    <2>6. CASE Boundary(Len(longer), print) /\ pc' = "window" /\ chunk' = <<>> /\ chunks' = ds
      <3>1. Len(<<>>) = 0 /\ <<>> \in Seq(Byte) /\ l + 1 >= MinChunk
        BY <2>2, <2>3, <2>6, BoundarySize, EmptySeq
      <3>2. /\ IsSeq(ds) /\ ds # <<>> /\ Len(chunks) \in Nat /\ Len(ds) = Len(chunks) + 1
            /\ c.bytes = longer /\ c.start = total - Len(longer)
            /\ ds[Len(chunks) + 1] = c /\ \A k \in 1 .. Len(chunks) : ds[k] = chunks[k]
            /\ \A k \in 1 .. Len(ds) : ChunkGood(ds[k])
            /\ Tile(ds, total)
        <4>1. Len(longer) \in 1 .. MaxChunk /\ Len(longer) <= total
              /\ Tile(chunks, total - Len(longer))
          BY <1>1, <2>2, <2>3
        <4> QED
          BY <1>1, <2>2, <2>3, <4>1, Emission DEF c, ds
      <3>3. \A k \in 1 .. Len(ds) : Len(ds[k].bytes) >= MinChunk
        <4> TAKE k \in 1 .. Len(ds)
        <4>1. k \in 1 .. Len(chunks) \/ k = Len(chunks) + 1
          BY <3>2
        <4> QED
          BY <1>1, <2>2, <3>1, <3>2, <4>1
      <3>4. ChunkInv'
        BY <2>1, <2>3, <2>6, <3>1, <3>2, <3>3, Sizes DEF ChunkInv
      <3>5. PhaseInv'
        <4>1. Tile(ds, total - Len(<<>>))
          BY <2>3, <3>1, <3>2
        <4> QED
          BY <1>1, <2>1, <2>6, <4>1 DEF PhaseInv
      <3>6. ~changed => \A k \in 1 .. Len(ds) : Says(ds[k].bytes, ds[k].start)
        <4>1. ~changed => Says(c.bytes, c.start)
          BY <2>2, <2>3, <2>4, <3>2
        <4> QED
          BY <1>2, <3>2, <4>1, SaysMore
      <3>7. ~changed => Says(<<>>, total - Len(<<>>))
        BY <1>5, <1>7, <2>3, <3>1 DEF Says, total
      <3>8. ContentInv'
        BY <1>1, <1>5, <1>7, <2>1, <2>6, <3>6, <3>7 DEF ContentInv, Says, total
      <3> QED
        BY <2>5, <3>4, <3>5, <3>8 DEF IInv
    <2>7. CASE ~Boundary(Len(longer), print) /\ chunk' = longer /\ UNCHANGED <<pc, chunks>>
      <3>1. l + 1 < MaxChunk
        BY <2>2, <2>3, <2>7, BoundarySize
      <3>2. ChunkInv'
        BY <1>1, <2>1, <2>2, <2>3, <2>7, <3>1 DEF ChunkInv
      <3>3. PhaseInv'
        <4>1. Tile(chunks, total - Len(longer))
          BY <1>1, <2>2, <2>3
        <4> QED
          BY <1>1, <2>1, <2>7, <4>1 DEF PhaseInv
      <3>4. ContentInv'
        <4>1. ~changed => Says(longer, total - Len(longer))
          BY <2>2, <2>3, <2>4
        <4> QED
          BY <1>1, <1>2, <1>5, <1>7, <2>1, <2>7, <4>1 DEF ContentInv, Says, total
      <3> QED
        BY <2>5, <3>2, <3>3, <3>4 DEF IInv
    <2> QED
      BY <2>1, <2>c, <2>6, <2>7
  <1> QED
    BY <1>6, <1>7


(* The file changes: nothing is said any more of what is in it.            *)
LEMMA ChangeStep ==
    ASSUME IInv, Change
    PROVE  IInv'
  <1>1. /\ content \in Seq(Byte) /\ changed' = TRUE
        /\ UNCHANGED <<pc, file, chunk, chunks, bytesRead, result>>
    BY DEF Change, IInv, ReaderInv
  <1>2. content' \in Seq(Byte)
    <2>1. CASE \E n \in 0 .. Len(content) - 1 : content' = SubSeq(content, 1, n)
      <3>1. PICK n \in 0 .. Len(content) - 1 : content' = SubSeq(content, 1, n)
        BY <2>1
      <3>2. n \in Int /\ n <= Len(content)
        BY <1>1, LenProperties
      <3> QED
        BY <1>1, <3>1, <3>2, Part
    <2>2. CASE \E b \in Byte : content' = Append(content, b)
      BY <1>1, <2>2
    <2> QED
      BY <2>1, <2>2 DEF Change
  <1>3. ReaderInv' /\ ChunkInv'
    BY <1>1, <1>2 DEF IInv, ReaderInv, ChunkInv
  <1>4. PhaseInv'
    BY <1>1 DEF IInv, PhaseInv
  <1>5. ContentInv'
    BY <1>1 DEF ContentInv
  <1> QED
    BY <1>3, <1>4, <1>5 DEF IInv

LEMMA OpenStep ==
    ASSUME IInv, Open
    PROVE  IInv'
  <1>1. /\ pc = "open" /\ UNCHANGED <<content, changed, chunk, bytesRead>>
        /\ content \in Seq(Byte) /\ chunks = <<>> /\ chunk = <<>> /\ bytesRead = 0
        /\ Len(<<>>) = 0
    BY EmptySeq DEF Open, IInv, ReaderInv, PhaseInv
  <1>2. chunks' = <<>>
    BY <1>1 DEF Open, Failed
  <1>3. ChunkInv'
    BY <1>1, <1>2 DEF IInv, ChunkInv
  <1>4. CASE pc' = "first" /\ file' = Opened(content) /\ UNCHANGED <<chunks, result>>
    <2>1. /\ file' \in FileType(Byte) /\ file'.at = 0 /\ file'.buf = <<>>
          /\ ~file'.error /\ file'.size = Len(content)
      BY <1>1, <1>4, OpenedGood DEF Opened
    <2>2. Typed(file') /\ Good(file', content, Byte) /\ Position(file') = 0
      BY <1>1, <2>1, AtStart
    <2>3. ReaderInv'
      BY <1>1, <1>4, <2>1, <2>2 DEF IInv, ReaderInv
    <2>4. PhaseInv'
      BY <1>1, <1>2, <1>4 DEF IInv, PhaseInv, Tile
    <2>5. ContentInv'
      BY <1>1, <1>2, <1>4, <2>1, <2>2 DEF IInv, ContentInv, Says
    <2> QED
      BY <1>3, <2>3, <2>4, <2>5 DEF IInv
  <1>5. CASE Failed /\ UNCHANGED file
    <2>1. pc' = "done" /\ result' = "failed" /\ file' = file
      BY <1>5 DEF Failed
    <2>2. ReaderInv'
      BY <1>1, <2>1 DEF IInv, ReaderInv
    <2>3. PhaseInv'
      BY <1>2, <2>1 DEF PhaseInv
    <2>4. ContentInv'
      BY <1>1, <1>2, <2>1 DEF IInv, ContentInv
    <2> QED
      BY <1>3, <2>2, <2>3, <2>4 DEF IInv
  <1> QED
    BY <1>4, <1>5 DEF Open

LEMMA Starts == Init => IInv
  <1> SUFFICES ASSUME Init PROVE IInv
    OBVIOUS
  <1>1. content \in Seq(Byte)
    <2>1. content \in UNION {[1 .. n -> Byte] : n \in 0 .. MaxLen}
      BY DEF Init, SeqOf
    <2>2. PICK n \in 0 .. MaxLen : content \in [1 .. n -> Byte]
      BY <2>1
    <2>3. n \in Nat
      BY SignatureAssumption
    <2> QED
      BY <2>2, <2>3, SeqDef
  <1>2. /\ file \in FileType(Byte) /\ file.at = 0 /\ file.buf = <<>> /\ file.size = Len(content)
        /\ chunk = <<>> /\ chunks = <<>> /\ bytesRead = 0 /\ pc = "open" /\ result = "none"
        /\ changed = FALSE /\ <<>> \in Seq(Byte) /\ Len(<<>>) = 0
    BY <1>1, OpenedGood, EmptySeq DEF Init, Opened
  <1>3. Typed(file) /\ Good(file, content, Byte) /\ Position(file) = 0
    BY <1>1, <1>2, AtStart
  <1>4. ReaderInv
    BY <1>1, <1>2, <1>3 DEF ReaderInv
  <1>5. ChunkInv
    <2>1. IsSeq(<<>>)
      BY <1>2, SeqOfItsElements
    <2> QED
      BY <1>2, <2>1, Sizes DEF ChunkInv
  <1>6. PhaseInv
    <2>1. Len(chunk) = 0 /\ bytesRead = 0
      BY <1>2
    <2>2. bytesRead - Len(chunk) = 0
      BY <2>1
    <2>3. Tile(chunks, bytesRead - Len(chunk))
      BY <1>2, <2>2 DEF Tile
    <2> QED
      BY <1>2, <2>3 DEF PhaseInv
  <1>7. ContentInv
    <2>1. Len(content) \in Nat
      BY <1>1, LenProperties
    <2> QED
      BY <1>2, <1>3, <2>1 DEF ContentInv, Says
  <1> QED
    BY <1>4, <1>5, <1>6, <1>7 DEF IInv

(* Read errors, short files and changes of the file included, every step   *)
(* of generate_signatures() keeps the invariant.                           *)
THEOREM Inductive == Spec => []IInv
  <1>1. IInv /\ [Next]_vars => IInv'
    <2> SUFFICES ASSUME IInv, [Next]_vars PROVE IInv'
      OBVIOUS
    <2>1. CASE Open
      BY <2>1, OpenStep
    <2>2. CASE FirstWindow
      <3>1. PICK r \in ReadChunkAt(file, content, Window, 0) : Seed(r)
        BY <2>2 DEF FirstWindow
      <3>2. pc = "first" /\ UNCHANGED <<content, changed>>
        BY <2>2 DEF FirstWindow
      <3>3. Outcome(r)
        BY <3>2, FirstOutcome
      <3> QED
        BY <3>1, <3>2, <3>3, SeedStep
    <2>3. CASE NextWindow
      <3>1. PICK r \in ReadChunk(file, content, Window) : Seed(r)
        BY <2>3 DEF NextWindow
      <3>2. pc = "window" /\ UNCHANGED <<content, changed>>
        BY <2>3 DEF NextWindow
      <3>3. Outcome(r)
        BY <3>2, NextOutcome
      <3> QED
        BY <3>1, <3>2, <3>3, SeedStep
    <2>4. CASE NextByte
      BY <2>4, NextByteStep
    <2>5. CASE Change
      BY <2>5, ChangeStep
    <2>6. CASE Done \/ UNCHANGED vars
      <3>1. UNCHANGED vars
        BY <2>6 DEF Done
      <3>2. ReaderInv' /\ ChunkInv' /\ PhaseInv' /\ ContentInv'
        BY <3>1 DEF IInv, vars, ReaderInv, ChunkInv, PhaseInv, ContentInv, Says
      <3> QED
        BY <3>2 DEF IInv
    <2> QED
      BY <2>1, <2>2, <2>3, <2>4, <2>5, <2>6 DEF Next
  <1> QED
    BY <1>1, Starts, PTL DEF Spec


-----------------------------------------------------------------------------
(* What follows from it.                                                   *)

(* Bytes that are those of the file are a part of it.                      *)
LEMMA SaysPart ==
    ASSUME content \in Seq(Byte), NEW bytes \in Seq(Byte), NEW n \in Nat, Says(bytes, n)
    PROVE  bytes = SubSeq(content, n + 1, n + Len(bytes))
  <1> DEFINE l == Len(bytes)
             m == n + 1
             e == n + l
             t == SubSeq(content, m, e)
  <1>1. /\ l \in Nat /\ Len(content) \in Nat /\ e <= Len(content)
        /\ \A j \in 1 .. l : bytes[j] = content[n + j]
    BY LenProperties DEF Says
  <1>2. m \in Int /\ e \in Int /\ m \in 1 .. Len(content) + 1 /\ m = n + 1 /\ e = n + l
    <2> HIDE DEF l
    <2> QED
      BY <1>1
  <1> HIDE DEF m, e
  <1>3. \A i \in m .. e : content[i] \in Byte
    BY <1>1, <1>2, ElementOfSeq
  <1>4. /\ t \in Seq(Byte)
        /\ Len(t) = IF m <= e THEN e - m + 1 ELSE 0
        /\ \A i \in 1 .. e - m + 1 : t[i] = content[m + i - 1]
    BY <1>2, <1>3, SubSeqProperties
  <1> HIDE DEF t, l
  <1>5. Len(t) = l
    BY <1>1, <1>2, <1>4
  <1>6. \A i \in 1 .. l : t[i] = bytes[i]
    <2> TAKE i \in 1 .. l
    <2>1. i \in 1 .. e - m + 1 /\ m + i - 1 = n + i
      BY <1>1, <1>2
    <2> QED
      BY <1>1, <1>4, <2>1
  <1>7. t = bytes
    BY <1>4, <1>5, <1>6, SeqEqual DEF l
  <1> QED
    BY <1>2, <1>7 DEF t, l

LEMMA ChunksAreContent ==
    ASSUME IInv, ~changed
    PROVE  AreContent
  <1>1. /\ content \in Seq(Byte)
        /\ \A k \in 1 .. Len(chunks) : ChunkGood(chunks[k]) /\ Says(chunks[k].bytes, chunks[k].start)
    BY DEF IInv, ReaderInv, ChunkInv, ContentInv
  <1>2. SUFFICES ASSUME NEW k \in 1 .. Len(chunks)
                 PROVE  chunks[k].bytes = SubSeq(content, chunks[k].start + 1, EndOf(chunks[k]))
    BY DEF AreContent
  <1>3. /\ chunks[k].bytes \in Seq(Byte) /\ chunks[k].start \in Nat
        /\ Says(chunks[k].bytes, chunks[k].start)
    BY <1>1 DEF ChunkGood
  <1> QED
    BY <1>1, <1>3, SaysPart DEF EndOf

(* Whatever the fingerprint is and wherever it cuts, no chunk is empty, no *)
(* chunk exceeds the maximum and only the last one can be shorter than the *)
(* minimum (Signature.hpp:193-236).                                        *)
THEOREM TypeCorrect == Spec => []TypeOK
  <1>1. IInv => TypeOK
    <2> SUFFICES ASSUME IInv PROVE TypeOK
      OBVIOUS
    <2>1. /\ content \in Seq(Byte) /\ changed \in BOOLEAN
          /\ pc \in {"open", "first", "window", "byte", "done"}
          /\ result \in {"none", "ok", "failed"}
          /\ Len(chunk) < MaxChunk /\ bytesRead \in Nat
      BY DEF IInv, ReaderInv, ChunkInv, PhaseInv
    <2>2. file.at \in Nat /\ Len(file.buf) <= BufferSize
      BY DEF IInv, ReaderInv, Typed, FileType
    <2>3. \A k \in 1 .. Len(chunks) :
             /\ chunks[k].start \in Nat /\ Len(chunks[k].bytes) \in 1 .. MaxChunk
             /\ k < Len(chunks) => Len(chunks[k].bytes) >= MinChunk
      BY DEF IInv, ChunkInv, ChunkGood
    <2> QED
      BY <2>1, <2>2, <2>3 DEF TypeOK
  <1> QED
    BY <1>1, Inductive, PTL

(* For every size of the window, the chunks and the read-ahead buffer, and *)
(* wherever a read fails: nothing is skipped, nothing repeated.            *)
THEOREM NothingLost == Spec => []NoByteLost
  <1>1. IInv => NoByteLost
    <2> SUFFICES ASSUME IInv, ~changed, pc \in {"window", "byte"}
                 PROVE  /\ Tile(chunks, bytesRead - Len(chunk)) /\ AreContent
                        /\ chunk = SubSeq(content, bytesRead - Len(chunk) + 1, bytesRead)
                        /\ file.buf = SubSeq(content, bytesRead + 1, file.at)
      BY DEF NoByteLost
    <2>1. /\ content \in Seq(Byte) /\ chunk \in Seq(Byte) /\ file.buf \in Seq(Byte)
          /\ bytesRead \in Nat /\ Len(chunk) <= bytesRead /\ file.at \in Nat
          /\ Len(chunk) \in Nat /\ Len(file.buf) \in Nat /\ Len(content) \in Nat
      BY LenProperties DEF IInv, ReaderInv, ChunkInv, Typed, FileType
    <2>2. /\ Tile(chunks, bytesRead - Len(chunk))
          /\ Good(file, content, Byte) /\ Position(file) = bytesRead
          /\ Says(chunk, bytesRead - Len(chunk))
      BY DEF IInv, PhaseInv, ContentInv
    <2>3. chunk = SubSeq(content, bytesRead - Len(chunk) + 1, bytesRead)
      <3> DEFINE l == Len(chunk)
                 n == bytesRead - l
      <3>1. l \in Nat /\ l <= bytesRead
        BY <2>1
      <3> HIDE DEF l
      <3>2. n \in Nat /\ n + l = bytesRead
        BY <2>1, <3>1
      <3> HIDE DEF n
      <3>3. chunk = SubSeq(content, n + 1, n + Len(chunk))
        BY <2>1, <2>2, <3>2, SaysPart DEF n, l
      <3>4. chunk = SubSeq(content, n + 1, bytesRead)
        BY <3>2, <3>3 DEF l
      <3> QED
        BY <3>4 DEF n, l
    <2>4. file.buf = SubSeq(content, bytesRead + 1, file.at)
      <3> DEFINE l == Len(file.buf)
      <3>1. /\ bytesRead = file.at - l /\ file.at <= Len(content) /\ l \in Nat
            /\ \A j \in 1 .. l : file.buf[j] = content[bytesRead + j]
        BY <2>1, <2>2 DEF Good, Position
      <3> HIDE DEF l
      <3>2. bytesRead + l = file.at
        BY <2>1, <3>1
      <3>3. Says(file.buf, bytesRead)
        BY <3>1, <3>2 DEF Says, l
      <3>4. file.buf = SubSeq(content, bytesRead + 1, bytesRead + l)
        BY <2>1, <3>3, SaysPart DEF l
      <3> QED
        BY <3>2, <3>4
    <2> QED
      BY <2>2, <2>3, <2>4, ChunksAreContent
  <1> QED
    BY <1>1, Inductive, PTL

(* A signature that is returned covers size() bytes, those of the file if  *)
(* nobody changed it, and a failed one holds no chunk.                     *)
THEOREM WholeOrNone == Spec => []WholeOrNothing
  <1>1. IInv => WholeOrNothing
    <2> SUFFICES ASSUME IInv PROVE WholeOrNothing
      OBVIOUS
    <2>1. /\ result = "ok" => Tile(chunks, file.size)
          /\ result = "failed" => chunks = <<>>
          /\ ~changed => file.size = Len(content)
      BY DEF IInv, PhaseInv, ContentInv
    <2> QED
      BY <2>1, ChunksAreContent DEF WholeOrNothing
  <1> QED
    BY <1>1, Inductive, PTL

-----------------------------------------------------------------------------
(* The invariant of the fingerprint and of the cuts.                       *)

(* The last bytes of a chunk, and of the chunk with one byte more.         *)
LEMMA WindowRolls ==
    ASSUME NEW s \in Seq(Byte), Len(s) >= Window, NEW byte \in Byte
    PROVE  /\ WindowOf(s) \in Seq(Byte) /\ Len(WindowOf(s)) = Window
           /\ WindowOf(Append(s, byte)) = Append(Tail(WindowOf(s)), byte)
  <1> DEFINE l == Len(s)
             n == Window
             t == Append(s, byte)
             w == SubSeq(s, l - n + 1, l)
             v == SubSeq(t, l - n + 2, l + 1)
             x == Append(Tail(w), byte)
  <1>1. /\ l \in Nat /\ n \in Nat \ {0} /\ n <= l /\ \A k \in 1 .. l : s[k] \in Byte
    BY ElementOfSeq, LenProperties, RollingAssumption
  <1>2. /\ t \in Seq(Byte) /\ Len(t) = l + 1 /\ t[l + 1] = byte
        /\ \A k \in 1 .. l : t[k] = s[k]
    BY AppendProperties
  <1>3. WindowOf(s) = w
    <2> DEFINE f == l - n + 1
    <2>1. f \in Int /\ 1 \in Int /\ f >= 1
      BY <1>1
    <2> HIDE DEF f
    <2>2. Max({1, f}) \in {1, f} /\ Max({1, f}) >= f
      BY <2>1, MaxOfTwo
    <2>3. Max({1, f}) = f
      BY <2>1, <2>2
    <2> QED
      BY <2>3 DEF WindowOf, f
  <1>4. WindowOf(t) = v
    <2> DEFINE f == l - n + 2
    <2>1. f \in Int /\ 1 \in Int /\ f >= 1 /\ (l + 1) - n + 1 = f
      BY <1>1
    <2> HIDE DEF f
    <2>2. Max({1, f}) \in {1, f} /\ Max({1, f}) >= f
      BY <2>1, MaxOfTwo
    <2>3. Max({1, f}) = f
      BY <2>1, <2>2
    <2>4. WindowOf(t) = SubSeq(t, f, l + 1)
      <3> HIDE DEF t, l
      <3> QED
        BY <1>2, <2>1, <2>3 DEF WindowOf
    <2> QED
      BY <2>4 DEF f
  <1>5. /\ w \in Seq(Byte) /\ Len(w) = n
        /\ \A i \in 1 .. n : w[i] = s[l - n + i]
    <2> DEFINE f == l - n + 1
    <2>1. /\ f \in 1 .. l + 1 /\ l \in Int /\ f <= l /\ l - f + 1 = n
          /\ \A i \in f .. l : s[i] \in Byte
      BY <1>1
    <2>2. \A i \in 1 .. n : f + i - 1 = l - n + i
      BY <1>1
    <2> HIDE DEF f
    <2>3. /\ SubSeq(s, f, l) \in Seq(Byte)
          /\ Len(SubSeq(s, f, l)) = IF f <= l THEN l - f + 1 ELSE 0
          /\ \A i \in 1 .. l - f + 1 : SubSeq(s, f, l)[i] = s[f + i - 1]
      BY <2>1, SubSeqProperties
    <2>4. /\ SubSeq(s, f, l) \in Seq(Byte) /\ Len(SubSeq(s, f, l)) = n
          /\ \A i \in 1 .. n : SubSeq(s, f, l)[i] = s[l - n + i]
      BY <2>1, <2>2, <2>3
    <2> QED
      BY <2>4 DEF f
  <1>6. /\ v \in Seq(Byte) /\ Len(v) = n
        /\ \A i \in 1 .. n : v[i] = t[l - n + 1 + i]
    <2> DEFINE f == l - n + 2
               e == l + 1
    <2>1. /\ f \in 1 .. Len(t) + 1 /\ e \in Int /\ f \in Int /\ f <= e /\ e - f + 1 = n /\ e <= Len(t)
      BY <1>1, <1>2
    <2>2. \A i \in 1 .. n : f + i - 1 = l - n + 1 + i
      BY <1>1
    <2> HIDE DEF f, e, t
    <2>5. \A i \in f .. e : t[i] \in Byte
      BY <1>2, <2>1, ElementOfSeq
    <2>3. /\ SubSeq(t, f, e) \in Seq(Byte)
          /\ Len(SubSeq(t, f, e)) = IF f <= e THEN e - f + 1 ELSE 0
          /\ \A i \in 1 .. e - f + 1 : SubSeq(t, f, e)[i] = t[f + i - 1]
      BY <1>2, <2>1, <2>5, SubSeqProperties
    <2>4. /\ SubSeq(t, f, e) \in Seq(Byte) /\ Len(SubSeq(t, f, e)) = n
          /\ \A i \in 1 .. n : SubSeq(t, f, e)[i] = t[l - n + 1 + i]
      BY <2>1, <2>2, <2>3
    <2> QED
      BY <2>4 DEF f, e
  <1> HIDE DEF w, v, l, n
  <1>7. /\ x \in Seq(Byte) /\ Len(x) = n /\ x[n] = byte
        /\ \A i \in 1 .. n - 1 : x[i] = w[i + 1]
    <2> DEFINE y == Tail(w)
    <2>1. w # <<>>
      BY <1>1, <1>5, EmptySeq
    <2>2. y \in Seq(Byte) /\ Len(y) = n - 1 /\ \A i \in 1 .. n - 1 : y[i] = w[i + 1]
      BY <1>1, <1>5, <2>1, HeadTailProperties
    <2> HIDE DEF y
    <2>3. /\ Append(y, byte) \in Seq(Byte) /\ Len(Append(y, byte)) = Len(y) + 1
          /\ Append(y, byte)[Len(y) + 1] = byte
          /\ \A i \in 1 .. Len(y) : Append(y, byte)[i] = y[i]
      BY <2>2, AppendProperties
    <2>4. (n - 1) + 1 = n
      BY <1>1
    <2>5. /\ Append(y, byte) \in Seq(Byte) /\ Len(Append(y, byte)) = n
          /\ Append(y, byte)[n] = byte
          /\ \A i \in 1 .. n - 1 : Append(y, byte)[i] = w[i + 1]
      BY <2>2, <2>3, <2>4
    <2> QED
      BY <2>5 DEF y
  <1> HIDE DEF x, t
  <1>8. \A i \in 1 .. n : v[i] = x[i]
    <2> TAKE i \in 1 .. n
    <2>1. CASE i = n
      <3>1. l - n + 1 + i = l + 1
        BY <1>1, <2>1
      <3> QED
        BY <1>2, <1>6, <1>7, <2>1, <3>1
    <2>2. CASE i # n
      <3>1. /\ i \in 1 .. n - 1 /\ i + 1 \in 1 .. n /\ l - n + 1 + i \in 1 .. l
            /\ l - n + (i + 1) = l - n + 1 + i
        BY <1>1, <2>2
      <3>2. v[i] = s[l - n + 1 + i]
        BY <1>2, <1>6, <3>1
      <3>3. x[i] = s[l - n + 1 + i]
        BY <1>5, <1>7, <3>1
      <3> QED
        BY <3>2, <3>3
    <2> QED
      BY <2>1, <2>2
  <1>9. v = x
    BY <1>6, <1>7, <1>8, SeqEqual
  <1> QED
    BY <1>3, <1>4, <1>5, <1>9 DEF n, x, t

(* Bytes that are no more than a window.                                   *)
LEMMA WindowShort ==
    ASSUME NEW s \in Seq(Byte), Len(s) <= Window
    PROVE  WindowOf(s) = s
  <1> DEFINE l == Len(s)
             f == l - Window + 1
  <1>1. l \in Nat /\ Window \in Nat /\ l <= Window
    BY LenProperties, RollingAssumption
  <1>2. f \in Int /\ 1 \in Int /\ f <= 1
    BY <1>1
  <1> HIDE DEF f
  <1>3. Max({1, f}) \in {1, f} /\ Max({1, f}) >= 1
    BY <1>2, MaxOfTwo
  <1>4. Max({1, f}) = 1
    BY <1>2, <1>3
  <1>5. SubSeq(s, 1, l) = s
    BY LenProperties, SubSeqFull
  <1> QED
    BY <1>4, <1>5 DEF WindowOf, f

(* No boundary up to byte n of a chunk.                                    *)
NoCut(bytes, n) ==
    \A j \in Window + 1 .. n : ~Boundary(j, Direct(WindowOf(SubSeq(bytes, 1, j))))

(* A chunk ends at its first boundary, or at the end of the file.          *)
Emitted(c) ==
    c.signature = Direct(WindowOf(c.bytes)) /\ NoCut(c.bytes, Len(c.bytes) - 1)

CutThere(c) == Len(c.bytes) > Window /\ Boundary(Len(c.bytes), c.signature)

FingerInv ==
    /\ ParamsGood
    /\ chunk # <<>> => finger.print = Direct(WindowOf(chunk))
    /\ pc = "byte" => /\ Len(chunk) >= Window /\ finger.window = WindowOf(chunk)
                      /\ NoCut(chunk, Len(chunk))
    /\ \A k \in 1 .. Len(chunks) :
          /\ Emitted(chunks[k])
          /\ CutThere(chunks[k]) \/ (result = "ok" /\ EndOf(chunks[k]) = file.size)

(* In terms of the next state.                                             *)
LEMMA FingerKept ==
    ASSUME params' = params, ParamsGood,
           chunk' # <<>> => finger'.print = Direct(WindowOf(chunk')),
           pc' = "byte" => /\ Len(chunk') >= Window /\ finger'.window = WindowOf(chunk')
                           /\ NoCut(chunk', Len(chunk')),
           \A k \in 1 .. Len(chunks') :
               /\ Emitted(chunks'[k])
               /\ CutThere(chunks'[k]) \/ (result' = "ok" /\ EndOf(chunks'[k]) = file'.size)
    PROVE  FingerInv'
  <1>1. \A b : Direct(b)' = Direct(b)
    BY DEF Direct
  <1>2. Direct(WindowOf(chunk))' = Direct(WindowOf(chunk'))
    BY DEF Direct
  <1>3. NoCut(chunk, Len(chunk))' = NoCut(chunk', Len(chunk'))
    BY DEF NoCut, Direct
  <1>4. ASSUME NEW k \in 1 .. Len(chunks') PROVE Emitted(chunks[k])' = Emitted(chunks'[k])
    BY DEF Emitted, NoCut, Direct
  <1>5. ASSUME NEW k \in 1 .. Len(chunks') PROVE CutThere(chunks[k])' = CutThere(chunks'[k])
    BY DEF CutThere
  <1>6. ASSUME NEW k \in 1 .. Len(chunks') PROVE EndOf(chunks[k])' = EndOf(chunks'[k])
    BY DEF EndOf
  <1>7. ParamsGood'
    BY DEF ParamsGood
  <1> QED
    BY <1>2, <1>3, <1>4, <1>5, <1>6, <1>7 DEF FingerInv

(* Two sequences that begin alike.                                         *)
LEMMA SamePrefix ==
    ASSUME NEW s \in Seq(Byte), NEW t \in Seq(Byte), NEW j \in Nat,
           j <= Len(s), j <= Len(t), \A i \in 1 .. j : s[i] = t[i]
    PROVE  SubSeq(s, 1, j) = SubSeq(t, 1, j)
  <1>1. \A i \in 1 .. j : s[i] \in Byte /\ t[i] \in Byte
    BY ElementOfSeq, LenProperties
  <1>2. /\ SubSeq(s, 1, j) \in Seq(Byte) /\ Len(SubSeq(s, 1, j)) = IF 1 <= j THEN j - 1 + 1 ELSE 0
        /\ \A i \in 1 .. j - 1 + 1 : SubSeq(s, 1, j)[i] = s[1 + i - 1]
    BY <1>1, SubSeqProperties
  <1>3. /\ SubSeq(t, 1, j) \in Seq(Byte) /\ Len(SubSeq(t, 1, j)) = IF 1 <= j THEN j - 1 + 1 ELSE 0
        /\ \A i \in 1 .. j - 1 + 1 : SubSeq(t, 1, j)[i] = t[1 + i - 1]
    BY <1>1, SubSeqProperties
  <1> DEFINE x == SubSeq(s, 1, j)
             y == SubSeq(t, 1, j)
  <1>4. x \in Seq(Byte) /\ Len(x) = j /\ \A i \in 1 .. j : x[i] = s[i]
    <2>1. \A i \in 1 .. j : i \in 1 .. j - 1 + 1 /\ 1 + i - 1 = i
      OBVIOUS
    <2> QED
      BY <1>2, <2>1
  <1>5. y \in Seq(Byte) /\ Len(y) = j /\ \A i \in 1 .. j : y[i] = t[i]
    <2>1. \A i \in 1 .. j : i \in 1 .. j - 1 + 1 /\ 1 + i - 1 = i
      OBVIOUS
    <2> QED
      BY <1>3, <2>1
  <1> HIDE DEF x, y
  <1>6. x = y
    BY <1>4, <1>5, SeqEqual
  <1> QED
    BY <1>6 DEF x, y

(* The end of the input.                                                   *)
LEMMA EndFinger ==
    ASSUME IInv, FingerInv, params' = params, pc # "done",
           NEW bytes \in Seq(Byte), NEW signature, NEW f, NEW total \in Nat,
           NoCut(bytes, Len(bytes)),
           bytes # <<>> => /\ signature = Direct(WindowOf(bytes))
                           /\ finger'.print = Direct(WindowOf(bytes)),
           End(bytes, signature, f, total)
    PROVE  FingerInv'
  <1> DEFINE c  == Chunk(bytes, signature, total - Len(bytes))
             ds == Append(chunks, c)
  <1>1. /\ pc' = "done" /\ chunk' = bytes /\ file' = f /\ bytesRead' = total
        /\ \/ result' = "failed" /\ chunks' = <<>>
           \/ result' = "ok" /\ total = f.size /\ bytes = <<>> /\ chunks' = chunks
           \/ result' = "ok" /\ total = f.size /\ bytes # <<>> /\ chunks' = ds
    BY DEF End, Failed
  <1>2. IsSeq(chunks) /\ result = "none"
    BY DEF IInv, ChunkInv, PhaseInv
  <1>3. \A k \in 1 .. Len(chunks) : Emitted(chunks[k]) /\ CutThere(chunks[k])
    BY <1>2 DEF FingerInv
  <1>4. Len(<<>>) = 0
    BY EmptySeq
  <1>5. ASSUME bytes # <<>>, total = f.size
        PROVE  Emitted(c) /\ EndOf(c) = f.size
    <2>1. c.bytes = bytes /\ c.signature = signature /\ c.start = total - Len(bytes)
      BY DEF Chunk
    <2> DEFINE l == Len(bytes)
    <2>2. l \in Nat
      BY LenProperties
    <2> HIDE DEF c
    <2>3. NoCut(bytes, l - 1)
      <3> HIDE DEF l
      <3>1. \A j \in Window + 1 .. l - 1 : j \in Window + 1 .. l
        BY <2>2, RollingAssumption
      <3> QED
        BY <3>1 DEF NoCut, l
    <2>4. EndOf(c) = (total - l) + l
      BY <2>1 DEF EndOf
    <2>5. EndOf(c) = total
      <3> HIDE DEF l
      <3> QED
        BY <2>2, <2>4
    <2> QED
      BY <1>5, <2>1, <2>3, <2>5 DEF Emitted
  <1>6. /\ Len(chunks) \in Nat /\ Len(ds) = Len(chunks) + 1 /\ ds[Len(chunks) + 1] = c
        /\ \A k \in 1 .. Len(chunks) : ds[k] = chunks[k]
    <2> HIDE DEF c
    <2> QED
      BY <1>2, Longer
  <1> HIDE DEF c, ds
  <1>7. \A k \in 1 .. Len(chunks') :
            /\ Emitted(chunks'[k])
            /\ CutThere(chunks'[k]) \/ (result' = "ok" /\ EndOf(chunks'[k]) = file'.size)
    <2>1. CASE chunks' = <<>>
      BY <1>4, <2>1
    <2>2. CASE chunks' = chunks
      BY <1>3, <2>2
    <2>3. CASE result' = "ok" /\ total = f.size /\ bytes # <<>> /\ chunks' = ds
      <3> TAKE k \in 1 .. Len(chunks')
      <3>1. k \in 1 .. Len(chunks) \/ k = Len(chunks) + 1
        BY <1>6, <2>3
      <3> QED
        BY <1>1, <1>3, <1>5, <1>6, <2>3, <3>1
    <2> QED
      BY <1>1, <2>1, <2>2, <2>3
  <1>8. ParamsGood
    BY DEF FingerInv
  <1> QED
    BY <1>1, <1>7, <1>8, FingerKept

(* A window read for a new chunk.                                          *)
LEMMA SeedFinger ==
    ASSUME IInv, FingerInv, params' = params, pc \in {"first", "window"},
           NEW r, Outcome(r), Seed(r)
    PROVE  FingerInv'
  <1> DEFINE bytes  == r.bytes
             seeded == Initialize(params, bytes)
             total  == bytesRead + Len(bytes)
  <1>1. /\ bytes \in Seq(Byte) /\ Len(bytes) \in Nat /\ Len(bytes) <= Window
        /\ bytesRead \in Nat /\ Window \in Nat \ {0} /\ ParamsGood
    BY LenProperties, RollingAssumption DEF Outcome, IInv, ChunkInv, FingerInv
  <1>2. seeded.print = Direct(WindowOf(bytes))
    BY <1>1, SeedIsDirect, WindowShort
  <1>3. NoCut(bytes, Len(bytes))
    <2>1. Window + 1 .. Len(bytes) = {}
      <3> DEFINE l == Len(bytes)
      <3>1. l \in Nat /\ l <= Window
        BY <1>1
      <3> HIDE DEF l
      <3>2. Window + 1 .. l = {}
        BY <1>1, <3>1
      <3> QED
        BY <3>2 DEF l
    <2> QED
      BY <2>1 DEF NoCut
  <1>4. finger' = seeded
    BY DEF Seed
  <1> HIDE DEF bytes
  <1>5. CASE Full(bytes)
    <2>1. /\ pc' = "byte" /\ chunk' = bytes /\ file' = r.file /\ chunks' = chunks
          /\ result' = result
      BY <1>5 DEF Seed, bytes
    <2>2. Len(bytes) = Window
      BY <1>1, <1>5 DEF Full
    <2>3. seeded.window = bytes
      <3> DEFINE none == [j \in 1 .. Window - Len(bytes) |-> 0]
      <3>1. Window - Len(bytes) = 0
        BY <1>1, <2>2
      <3>2. none \in Seq(Byte) /\ Len(none) = 0
        <4>1. none \in [1 .. 0 -> Byte] /\ 0 \in Nat
          BY <3>1
        <4>2. none \in Seq(Byte)
          <5> HIDE DEF none
          <5> QED
            BY <4>1, SeqDef
        <4>3. DOMAIN none = 1 .. 0 /\ Len(none) \in Nat /\ DOMAIN none = 1 .. Len(none)
          BY <4>1, <4>2, LenProperties
        <4> HIDE DEF none
        <4>4. Len(none) = 0
          BY <4>3
        <4> QED
          BY <4>2, <4>4
      <3> HIDE DEF none
      <3>3. none = <<>>
        BY <3>2, EmptySeq
      <3>4. bytes \o <<>> = bytes
        BY <1>1, ConcatEmptySeq
      <3> QED
        BY <3>3, <3>4 DEF Initialize, none
    <2>4. WindowOf(bytes) = bytes
      BY <1>1, WindowShort
    <2>5. \A k \in 1 .. Len(chunks) :
              /\ Emitted(chunks[k])
              /\ CutThere(chunks[k]) \/ (result' = "ok" /\ EndOf(chunks[k]) = file'.size)
      <3>1. result = "none"
        BY DEF IInv, PhaseInv
      <3> QED
        BY <3>1 DEF FingerInv
    <2> HIDE DEF seeded
    <2>6. \A k \in 1 .. Len(chunks') :
              /\ Emitted(chunks'[k])
              /\ CutThere(chunks'[k]) \/ (result' = "ok" /\ EndOf(chunks'[k]) = file'.size)
      BY <2>1, <2>5
    <2>7. /\ chunk' # <<>> => finger'.print = Direct(WindowOf(chunk'))
          /\ Len(chunk') >= Window /\ finger'.window = WindowOf(chunk')
          /\ NoCut(chunk', Len(chunk'))
      BY <1>1, <1>2, <1>3, <1>4, <2>1, <2>2, <2>3, <2>4
    <2> QED
      BY <1>1, <2>6, <2>7, FingerKept
  <1>6. CASE ~Full(bytes)
    <2>1. End(bytes, seeded.print, r.file, total) /\ total \in Nat /\ pc # "done"
      BY <1>1, <1>6 DEF Seed, bytes
    <2> HIDE DEF seeded, total
    <2>2. /\ seeded.print = Direct(WindowOf(bytes))
          /\ finger'.print = Direct(WindowOf(bytes))
      BY <1>2, <1>4
    <2> QED
      BY <1>1, <1>3, <2>1, <2>2, EndFinger
  <1> QED
    BY <1>5, <1>6

(* One byte more, or the end.                                              *)
LEMMA NextByteFinger ==
    ASSUME IInv, FingerInv, NextByte
    PROVE  FingerInv'
  <1>1. /\ pc = "byte" /\ content \in Seq(Byte) /\ Typed(file) /\ params' = params
        /\ chunk \in Seq(Byte) /\ Len(chunk) \in Nat /\ bytesRead \in Nat
        /\ IsSeq(chunks) /\ result = "none" /\ Window \in Nat \ {0}
    BY LenProperties, RollingAssumption DEF NextByte, IInv, ReaderInv, ChunkInv, PhaseInv
  <1>2. /\ ParamsGood /\ Len(chunk) >= Window /\ finger.window = WindowOf(chunk)
        /\ NoCut(chunk, Len(chunk))
        /\ chunk # <<>> => finger.print = Direct(WindowOf(chunk))
        /\ \A k \in 1 .. Len(chunks) : Emitted(chunks[k]) /\ CutThere(chunks[k])
    BY <1>1 DEF FingerInv
  <1>3. chunk # <<>> /\ finger.print = Direct(WindowOf(chunk))
    <2>1. Len(chunk) # 0
      BY <1>1, <1>2
    <2> QED
      BY <1>2, <2>1, EmptySeq
  <1>4. PICK r \in ReadByte(file, content) : Took(r)
    BY NextByteTakes
  <1>5. r.byte = EndOfFile \/ r.byte \in Byte
    BY <1>1, ReadByteTyped
  <1>6. CASE r.byte = EndOfFile
    <2>1. End(chunk, finger.print, r.file, bytesRead) /\ finger' = finger
      BY <1>4, <1>6 DEF Took
    <2>2. pc # "done"
      BY <1>1
    <2> QED
      BY <1>1, <1>2, <1>3, <2>1, <2>2, EndFinger
  <1>7. CASE r.byte # EndOfFile
    <2> DEFINE longer == Grown(r)
               print  == Rolled(r)
               l      == Len(chunk)
               c      == Cut(r)
               ds     == Append(chunks, c)
    <2>1. /\ finger' = ComputeNext(params, finger, r.byte) /\ result' = result
          /\ \/ /\ Boundary(Len(longer), print) /\ pc' = "window" /\ chunk' = <<>>
                /\ chunks' = ds
             \/ ~Boundary(Len(longer), print) /\ chunk' = longer /\ UNCHANGED <<pc, chunks>>
      BY <1>4, <1>7 DEF Took
    <2>2. r.byte \in Byte
      BY <1>5, <1>7
    <2>3. /\ longer \in Seq(Byte) /\ Len(longer) = l + 1
          /\ \A j \in 1 .. l : longer[j] = chunk[j]
      BY <1>1, <2>2, AppendProperties DEF Grown
    <2>4. /\ WindowOf(chunk) \in Seq(Byte) /\ Len(WindowOf(chunk)) = Window
          /\ WindowOf(longer) = Append(Tail(WindowOf(chunk)), r.byte)
      BY <1>1, <1>2, <2>2, WindowRolls DEF Grown
    <2>5. /\ finger'.window = WindowOf(longer)
          /\ finger'.print = Direct(WindowOf(longer)) /\ print = Direct(WindowOf(longer))
      <3>1. /\ finger.window \in Seq(Byte) /\ Len(finger.window) = Window
            /\ finger.print = Direct(finger.window)
        BY <1>2, <1>3, <2>4
      <3>2. /\ ComputeNext(params, finger, r.byte).window = Append(Tail(finger.window), r.byte)
            /\ ComputeNext(params, finger, r.byte).print
                  = Direct(Append(Tail(finger.window), r.byte))
        BY <1>2, <2>2, <3>1, RollIsDirect
      <3> QED
        BY <1>2, <2>1, <2>4, <3>2 DEF Rolled
    <2>6. l \in Nat /\ l >= Window
      BY <1>1, <1>2
    <2>c. c.bytes = longer /\ c.signature = print
      BY DEF Cut, Chunk
    <2> HIDE DEF longer, print, c
    <2>7. NoCut(longer, l)
      <3>1. ASSUME NEW j \in Window + 1 .. l
            PROVE  SubSeq(longer, 1, j) = SubSeq(chunk, 1, j)
        <4> HIDE DEF l
        <4>1. j \in Nat /\ j <= l /\ j <= l + 1
          BY <1>1, <2>6
        <4>2. \A i \in 1 .. j : longer[i] = chunk[i]
          BY <2>3, <2>6, <4>1
        <4> QED
          BY <1>1, <2>3, <4>1, <4>2, SamePrefix DEF l
      <3> QED
        BY <1>2, <3>1 DEF NoCut
    <2>8. CASE Boundary(Len(longer), print) /\ pc' = "window" /\ chunk' = <<>> /\ chunks' = ds
      <3>1. Emitted(c) /\ CutThere(c)
        <4>1. Len(longer) - 1 = l /\ Len(longer) > Window
          <5> HIDE DEF l
          <5> QED
            BY <1>1, <2>3, <2>6
        <4> QED
          BY <2>5, <2>7, <2>8, <2>c, <4>1 DEF Emitted, CutThere
      <3>2. /\ Len(chunks) \in Nat /\ Len(ds) = Len(chunks) + 1 /\ ds[Len(chunks) + 1] = c
            /\ \A k \in 1 .. Len(chunks) : ds[k] = chunks[k]
        BY <1>1, Longer
      <3> HIDE DEF ds
      <3>3. ASSUME NEW k \in 1 .. Len(chunks')
            PROVE  Emitted(chunks'[k]) /\ CutThere(chunks'[k])
        <4>1. k \in 1 .. Len(chunks) \/ k = Len(chunks) + 1
          BY <2>8, <3>2
        <4> QED
          BY <1>2, <2>8, <3>1, <3>2, <4>1
      <3> QED
        BY <1>1, <1>2, <2>8, <3>3, FingerKept
    <2>9. CASE ~Boundary(Len(longer), print) /\ chunk' = longer /\ UNCHANGED <<pc, chunks>>
      <3>1. NoCut(longer, l + 1)
        <4> SUFFICES ASSUME NEW j \in Window + 1 .. l + 1
                     PROVE  ~Boundary(j, Direct(WindowOf(SubSeq(longer, 1, j))))
          BY DEF NoCut
        <4>1. CASE j = l + 1
          <5>1. SubSeq(longer, 1, j) = longer
            BY <2>3, <4>1, SubSeqFull
          <5> QED
            BY <2>3, <2>5, <2>9, <4>1, <5>1
        <4>2. CASE j # l + 1
          <5>1. j \in Window + 1 .. l
            <6> HIDE DEF l
            <6> QED
              BY <1>1, <2>6, <4>2
          <5> QED
            BY <2>7, <5>1 DEF NoCut
        <4> QED
          BY <4>1, <4>2
      <3>2. Len(chunk') >= Window /\ NoCut(chunk', Len(chunk'))
        <4>1. l + 1 >= Window
          <5> HIDE DEF l
          <5> QED
            BY <1>1, <2>6
        <4> QED
          BY <2>3, <2>9, <3>1, <4>1
      <3>3. \A k \in 1 .. Len(chunks') : Emitted(chunks'[k]) /\ CutThere(chunks'[k])
        BY <1>2, <2>9
      <3>4. finger'.window = WindowOf(chunk') /\ finger'.print = Direct(WindowOf(chunk'))
        BY <2>5, <2>9
      <3> QED
        BY <1>1, <1>2, <3>2, <3>3, <3>4, FingerKept
    <2> QED
      BY <2>1, <2>8, <2>9
  <1> QED
    BY <1>6, <1>7

LEMMA FingerStarts == Init => FingerInv
  <1> SUFFICES ASSUME Init PROVE FingerInv
    OBVIOUS
  <1>1. /\ params \in Parameters /\ Accepted(params)
        /\ pc = "open" /\ chunk = <<>> /\ chunks = <<>>
    BY DEF Init
  <1>2. ParamsGood
    <2>1. params \in [alphabet : Nat, modulus : Nat]
      BY <1>1, SignatureAssumption
    <2> QED
      BY <1>1, <2>1 DEF ParamsGood, Accepted
  <1>3. Len(chunks) = 0
    BY <1>1, EmptySeq
  <1> QED
    BY <1>1, <1>2, <1>3 DEF FingerInv

(* Every step of generate_signatures() keeps the hash, and cuts only where *)
(* the hash says so.                                                       *)
LEMMA FingerHolds == Spec => []FingerInv
  <1>1. IInv /\ FingerInv /\ [Next]_vars => FingerInv'
    <2> SUFFICES ASSUME IInv, FingerInv, [Next]_vars PROVE FingerInv'
      OBVIOUS
    <2>p. ParamsGood
      BY DEF FingerInv
    <2>1. CASE Open
      <3>1. /\ chunk = <<>> /\ chunk' = <<>> /\ chunks = <<>> /\ chunks' = <<>> /\ params' = params
            /\ pc' # "byte" /\ Len(<<>>) = 0
        BY <2>1, EmptySeq DEF Open, Failed, IInv, PhaseInv
      <3>2. \A k \in 1 .. Len(chunks') :
                Emitted(chunks'[k]) /\ (CutThere(chunks'[k])
                                        \/ (result' = "ok" /\ EndOf(chunks'[k]) = file'.size))
        BY <3>1
      <3> QED
        BY <2>p, <3>1, <3>2, FingerKept
    <2>2. CASE FirstWindow
      <3>1. PICK r \in ReadChunkAt(file, content, Window, 0) : Seed(r)
        BY <2>2 DEF FirstWindow
      <3>2. pc = "first" /\ params' = params
        BY <2>2 DEF FirstWindow
      <3>3. Outcome(r)
        BY <3>2, FirstOutcome
      <3> QED
        BY <3>1, <3>2, <3>3, SeedFinger
    <2>3. CASE NextWindow
      <3>1. PICK r \in ReadChunk(file, content, Window) : Seed(r)
        BY <2>3 DEF NextWindow
      <3>2. pc = "window" /\ params' = params
        BY <2>3 DEF NextWindow
      <3>3. Outcome(r)
        BY <3>2, NextOutcome
      <3> QED
        BY <3>1, <3>2, <3>3, SeedFinger
    <2>4. CASE NextByte
      BY <2>4, NextByteFinger
    <2>5. CASE Change \/ Done \/ UNCHANGED vars
      <3>1. /\ params' = params /\ pc' = pc /\ finger' = finger /\ chunk' = chunk
            /\ chunks' = chunks /\ result' = result /\ file' = file
        BY <2>5 DEF Change, Done, vars
      <3>2. \A k \in 1 .. Len(chunks') :
                Emitted(chunks'[k]) /\ (CutThere(chunks'[k])
                                        \/ (result' = "ok" /\ EndOf(chunks'[k]) = file'.size))
        BY <3>1 DEF FingerInv
      <3>3. /\ chunk' # <<>> => finger'.print = Direct(WindowOf(chunk'))
            /\ pc' = "byte" => /\ Len(chunk') >= Window /\ finger'.window = WindowOf(chunk')
                               /\ NoCut(chunk', Len(chunk'))
        BY <3>1 DEF FingerInv
      <3> QED
        BY <2>p, <3>1, <3>2, <3>3, FingerKept
    <2> QED
      BY <2>1, <2>2, <2>3, <2>4, <2>5 DEF Next
  <1> QED
    BY <1>1, Inductive, FingerStarts, PTL DEF Spec

(* For every base, modulus and width of a word that the constructor        *)
(* accepts, however many bytes a chunk has rolled over: the fingerprint is *)
(* the hash of the last window (RK_finger.hpp:58-87).                      *)
THEOREM RollingKept == Spec => []RollingIsDirect
  <1>1. IInv /\ FingerInv => RollingIsDirect
    BY DEF FingerInv, Emitted, RollingIsDirect
  <1> QED
    BY <1>1, Inductive, FingerHolds, PTL

(* The smallest element is the one that no other is below.                 *)
LEMMA MinIs ==
    ASSUME NEW s \in SUBSET Int, NEW x \in s, \A y \in s : x <= y
    PROVE  Min(s) = x
  <1>1. \A z \in s : (\A y \in s : z <= y) => z = x
    OBVIOUS
  <1> QED
    BY <1>1 DEF Min

(* A chunk ends where the bytes from its start on say that it does,        *)
(* whatever lies before (Signature.hpp:193-236).                           *)
THEOREM CutsLocal == Spec => []CutsAreLocal
  <1>1. IInv /\ FingerInv => CutsAreLocal
    <2> SUFFICES ASSUME IInv, FingerInv, ~changed, NEW k \in 1 .. Len(chunks)
                 PROVE  Len(chunks[k].bytes)
                          = CutOf(SubSeq(content, chunks[k].start + 1, Len(content)))
      BY DEF CutsAreLocal
    <2> DEFINE bytes == chunks[k].bytes
               start == chunks[k].start
               l == Len(bytes)
               n == Len(content)
               rest == SubSeq(content, start + 1, n)
    <2>1. /\ content \in Seq(Byte) /\ n \in Nat /\ bytes \in Seq(Byte) /\ start \in Nat
          /\ l \in Nat \ {0} /\ Says(bytes, start) /\ file.size = n
          /\ Window \in Nat
      BY LenProperties, RollingAssumption
         DEF IInv, ReaderInv, ChunkInv, ContentInv, ChunkGood
    <2>2. /\ chunks[k].signature = Direct(WindowOf(bytes)) /\ NoCut(bytes, l - 1)
          /\ (l > Window /\ Boundary(l, chunks[k].signature)) \/ EndOf(chunks[k]) = file.size
      BY DEF FingerInv, Emitted, CutThere
    <2>3. EndOf(chunks[k]) = start + l
      BY DEF EndOf
    <2>4. start + l <= n /\ \A i \in 1 .. l : bytes[i] = content[start + i]
      BY <2>1 DEF Says
    <2> HIDE DEF bytes, start, l, n
    <2>5. /\ rest \in Seq(Byte) /\ Len(rest) = n - start
          /\ \A i \in 1 .. n - start : rest[i] = content[start + i]
      <3> DEFINE f == start + 1
      <3>1. f \in Int /\ n \in Int /\ f <= n /\ n - f + 1 = n - start /\ f >= 1
        BY <2>1, <2>4
      <3>2. \A i \in 1 .. n - start : f + i - 1 = start + i
        BY <2>1
      <3> HIDE DEF f
      <3>3. \A i \in f .. n : content[i] \in Byte
        BY <2>1, <3>1, ElementOfSeq DEF n
      <3>4. /\ SubSeq(content, f, n) \in Seq(Byte)
            /\ Len(SubSeq(content, f, n)) = IF f <= n THEN n - f + 1 ELSE 0
            /\ \A i \in 1 .. n - f + 1 : SubSeq(content, f, n)[i] = content[f + i - 1]
        BY <3>1, <3>3, SubSeqProperties
      <3>5. /\ SubSeq(content, f, n) \in Seq(Byte) /\ Len(SubSeq(content, f, n)) = n - start
            /\ \A i \in 1 .. n - start : SubSeq(content, f, n)[i] = content[start + i]
        BY <3>1, <3>2, <3>4
      <3> QED
        BY <3>5 DEF f
    <2> HIDE DEF rest
    <2>6. ASSUME NEW j \in Nat, j <= l
          PROVE  SubSeq(rest, 1, j) = SubSeq(bytes, 1, j)
      <3>1. j <= Len(rest) /\ j <= Len(bytes)
        BY <2>1, <2>4, <2>5, <2>6 DEF l
      <3>2. \A i \in 1 .. j : rest[i] = bytes[i]
        BY <2>1, <2>4, <2>5, <2>6
      <3> QED
        BY <2>1, <2>5, <3>1, <3>2, SamePrefix
    <2> DEFINE cuts == {j \in Window + 1 .. Len(rest) :
                           Boundary(j, Direct(WindowOf(SubSeq(rest, 1, j))))}
    <2>7. \A j \in cuts : l <= j
      <3> SUFFICES ASSUME NEW j \in cuts, j < l PROVE FALSE
        BY <2>1, <2>5
      <3>1. j \in Window + 1 .. l - 1 /\ j \in Nat /\ j <= l
        BY <2>1, <2>5
      <3>2. SubSeq(rest, 1, j) = SubSeq(bytes, 1, j)
        BY <2>6, <3>1
      <3> QED
        BY <2>2, <3>1, <3>2 DEF NoCut
    <2>8. l \in {Len(rest)} \cup cuts
      <3>1. CASE l > Window /\ Boundary(l, chunks[k].signature)
        <4>1. l \in Window + 1 .. Len(rest) /\ l \in Nat /\ l <= l
          BY <2>1, <2>4, <2>5, <3>1
        <4>2. SubSeq(rest, 1, l) = bytes
          <5>1. SubSeq(bytes, 1, l) = bytes
            BY <2>1, SubSeqFull DEF l
          <5> QED
            BY <2>6, <4>1, <5>1
        <4> QED
          BY <2>2, <3>1, <4>1, <4>2
      <3>2. CASE EndOf(chunks[k]) = file.size
        <4>1. l = n - start
          BY <2>1, <2>3, <2>4, <3>2
        <4> QED
          BY <2>5, <4>1
      <3> QED
        BY <2>2, <3>1, <3>2
    <2>9. \A j \in {Len(rest)} \cup cuts : l <= j
      BY SMTT(60), <2>1, <2>4, <2>5, <2>7
    <2>10. {Len(rest)} \cup cuts \in SUBSET Int
      BY <2>1, <2>5
    <2> DEFINE all == {Len(rest)} \cup cuts
    <2>11. CutOf(rest) = Min(all)
      BY DEF CutOf
    <2> HIDE DEF cuts, all
    <2>12. Min(all) = l
      BY <2>8, <2>9, <2>10, MinIs DEF all
    <2> QED
      BY <2>11, <2>12 DEF rest, bytes, start, l, n
  <1> QED
    BY <1>1, Inductive, FingerHolds, PTL
=============================================================================
