--------------------------- MODULE RBMLWord_proofs ---------------------------
(***************************************************************************)
(* Facts about machine words of every width.                               *)
(***************************************************************************)
EXTENDS RBMLWord, Recursion_proofs

\* Half the number of words is a positive number.
LEMMA HalfPositive == HALF \in Nat \ {0}
  <1>1. NREGS * NREGS \in Nat \ {0}
    BY WordAssumption
  <1>2. (NREGS * NREGS) * NADDR \in Nat \ {0}
    BY <1>1, WordAssumption
  <1>3. HALF = 128 * ((NREGS * NREGS) * NADDR)
    BY WordAssumption DEF HALF
  <1> QED
    BY <1>2, <1>3

\* The remainder of a number below the modulus is the number.
LEMMA SmallRemainder ==
  ASSUME NEW m \in Nat \ {0}, NEW x \in 0..(m - 1)
  PROVE  x % m = x
  OBVIOUS

\* What is left of any integer is a word.
LEMMA WrapIsWord ==
  ASSUME NEW n \in Int
  PROVE  Wrap(n) \in Word
  <1>1. HALF \in Nat \ {0}
    BY HalfPositive
  <1>2. (n + HALF) % (2 * HALF) \in 0..(2 * HALF - 1)
    BY <1>1
  <1> QED
    BY <1>1, <1>2 DEF Wrap, Word, RBML_WORD_MIN, RBML_WORD_MAX

\* A word survives being stored.
LEMMA WrapWord ==
  ASSUME NEW w \in Word
  PROVE  Wrap(w) = w
  <1>1. HALF \in Nat \ {0}
    BY HalfPositive
  <1>2. w + HALF \in 0..(2 * HALF - 1)
    BY <1>1 DEF Word, RBML_WORD_MIN, RBML_WORD_MAX
  <1>3. (w + HALF) % (2 * HALF) = w + HALF
    BY <1>1, <1>2, SmallRemainder
  <1> QED
    BY <1>1, <1>2, <1>3 DEF Wrap, Word, RBML_WORD_MIN, RBML_WORD_MAX

\* The overflow test of ADD is exact for words of every width: it tells
\* whether the sum is a word, and when it is, the accumulator receives it.
THEOREM AdditionExact ==
  ASSUME NEW a \in Word, NEW b \in Word
  PROVE  /\ AddOverflows(a, b) <=> a + b \notin Word
         /\ ~AddOverflows(a, b) => Wrap(a + b) = a + b
  <1>1. HALF \in Nat \ {0}
    BY HalfPositive
  <1>2. AddOverflows(a, b) <=> a + b \notin Word
    BY <1>1 DEF AddOverflows, Word, RBML_WORD_MIN, RBML_WORD_MAX
  <1> QED
    BY <1>2, WrapWord

-----------------------------------------------------------------------------
(* The range of the operators.                                             *)

\* A power of two is a positive number.
LEMMA Pow2Type == Pow2 \in [Nat -> Nat \ {0}]
  <1> DEFINE V == Nat \ {0}
             step == [p \in Nat \X V |-> 2 * p[2]]
  <1>1. 1 \in V /\ step \in [Nat \X V -> V]
    OBVIOUS
  <1>2. PICK f \in [Nat -> V] : Recursive(f, 1, step)
    <2> HIDE DEF V, step
    <2> QED
      BY <1>1, RecursiveFunction
  <1>3. f = [k \in Nat |-> IF k = 0 THEN 1 ELSE 2 * f[k - 1]]
    <2>1. ASSUME NEW k \in Nat PROVE f[k] = IF k = 0 THEN 1 ELSE 2 * f[k - 1]
      BY <1>2 DEF Recursive
    <2> QED
      BY <1>2, <2>1 DEF Recursive
  <1>4. Pow2 = [k \in Nat |-> IF k = 0 THEN 1 ELSE 2 * Pow2[k - 1]]
    BY <1>3 DEF Pow2
  <1> DEFINE S == {k \in Nat : Pow2[k] \in V}
  <1>5. 0 \in S
    BY <1>4
  <1>6. ASSUME NEW k \in Nat, k \in S PROVE k + 1 \in S
    <2>1. Pow2[k + 1] = 2 * Pow2[k]
      BY <1>4
    <2> QED
      BY <1>6, <2>1
  <1>7. Nat \subseteq S
    <2> HIDE DEF S
    <2> QED
      BY <1>5, <1>6, Induction
  <1> QED
    BY <1>4, <1>7

\* A word made of bits is a word.
LEMMA FromBitsIsWord ==
  ASSUME NEW S
  PROVE  FromBits(S) \in Word
  <1> DEFINE one(k) == IF k - 1 \in S THEN Pow2[k - 1] ELSE 0
             step == [p \in Nat \X Nat |-> p[2] + IF p[1] - 1 \in S /\ p[1] # 0
                                                    THEN Pow2[p[1] - 1] ELSE 0]
             F == CHOOSE f : f = [k \in Nat |-> IF k = 0 THEN 0 ELSE f[k - 1] + one(k)]
  <1>1. step \in [Nat \X Nat -> Nat]
    BY Pow2Type
  <1>2. PICK f \in [Nat -> Nat] : Recursive(f, 0, step)
    <2> HIDE DEF step
    <2> QED
      BY <1>1, RecursiveFunction
  <1>3. f = [k \in Nat |-> IF k = 0 THEN 0 ELSE f[k - 1] + one(k)]
    <2>1. ASSUME NEW k \in Nat PROVE f[k] = IF k = 0 THEN 0 ELSE f[k - 1] + one(k)
      <3>1. CASE k = 0
        <4> HIDE DEF one, step
        <4> QED
          BY <1>2, <3>1 DEF Recursive
      <3>2. CASE k # 0
        <4>1. k - 1 \in Nat /\ f[k - 1] \in Nat
          BY <3>2
        <4>2. step[<<k, f[k - 1]>>] = f[k - 1] + one(k)
          BY <3>2, <4>1
        <4> HIDE DEF one, step
        <4> QED
          BY <1>2, <3>2, <4>2 DEF Recursive
      <3> QED
        BY <3>1, <3>2
    <2> HIDE DEF one
    <2> QED
      BY <1>2, <2>1 DEF Recursive
  <1>4. F = [k \in Nat |-> IF k = 0 THEN 0 ELSE F[k - 1] + one(k)]
    BY <1>3
  <1> DEFINE T == {k \in Nat : F[k] \in Nat}
  <1> HIDE DEF F
  <1>5. 0 \in T
    BY <1>4
  <1>6. ASSUME NEW k \in Nat, k \in T PROVE k + 1 \in T
    <2>1. F[k + 1] = F[k] + one(k + 1)
      <3> HIDE DEF one
      <3> QED
        BY <1>4
    <2>2. one(k + 1) \in Nat
      BY Pow2Type
    <2> QED
      BY <1>6, <2>1, <2>2
  <1>7. F[BITS] \in Int
    <2> HIDE DEF T
    <2>1. Nat \subseteq T
      BY <1>5, <1>6, Induction
    <2> QED
      BY <2>1, WordAssumption DEF T
  <1>8. FromBits(S) = Wrap(F[BITS])
    BY DEF FromBits, F
  <1> QED
    BY <1>7, <1>8, WrapIsWord

\* A word is an integer.
LEMMA WordIsInt == Word \subseteq Int
  BY HalfPositive DEF Word, RBML_WORD_MIN, RBML_WORD_MAX

\* An integer divided by a positive number is an integer nearer to zero.
LEMMA Quotients ==
  ASSUME NEW a \in Int, NEW d \in Nat \ {0}
  PROVE  /\ a \div d \in Int
         /\ a >= 0 => 0 <= a \div d /\ a \div d <= a
         /\ a < 0 => a <= a \div d /\ a \div d < 0
  OBVIOUS

\* The quotient and the remainder of C are integers.
LEMMA CDivType ==
  ASSUME NEW a \in Int, NEW b \in Int, b # 0
  PROVE  CDiv(a, b) \in Int /\ CMod(a, b) \in Int
  <1>1. Magnitude(a) \in Nat /\ Magnitude(b) \in Nat \ {0}
    BY DEF Magnitude
  <1>2. Magnitude(a) \div Magnitude(b) \in Int
    BY <1>1, Quotients
  <1>3. CDiv(a, b) \in Int
    BY <1>2 DEF CDiv
  <1>4. b * CDiv(a, b) \in Int
    BY <1>3
  <1> QED
    BY <1>3, <1>4 DEF CMod

\* The fields of an instruction are what they name: registers and an address.
LEMMA Fields ==
  ASSUME NEW w \in Word
  PROVE  /\ RBML_ARG1(w) \in 0..(NREGS - 1) /\ RBML_ARG2(w) \in 0..(NREGS - 1)
         /\ RBML_ARG3(w) \in 0..(NADDR - 1)
  <1>1. w \in Int /\ HALF \in Nat \ {0}
    BY WordIsInt, HalfPositive
  <1>2. Unsigned(w) \in Int
    BY <1>1 DEF Unsigned
  <1>3. NREGS * NADDR \in Nat \ {0}
    BY WordAssumption
  <1>4. Unsigned(w) \div (NREGS * NADDR) \in Int /\ Unsigned(w) \div NADDR \in Int
    BY <1>2, <1>3, Quotients, WordAssumption
  <1> HIDE DEF Unsigned
  <1> QED
    BY <1>1, <1>4, WordAssumption DEF RBML_ARG1, RBML_ARG2, RBML_ARG3

\* The results of the instructions that work on bits are words.
LEMMA BitOperations ==
  ASSUME NEW a \in Word, NEW b \in Word
  PROVE  /\ BitAnd(a, b) \in Word /\ BitOr(a, b) \in Word /\ BitNot(a) \in Word
         /\ \A n \in ShiftCounts(b) : ShiftLeft(a, n) \in Word /\ ShiftRight(a, n) \in Word
  <1>1. BitAnd(a, b) \in Word /\ BitOr(a, b) \in Word
    BY FromBitsIsWord DEF BitAnd, BitOr
  <1>2. HALF \in Nat \ {0} /\ a \in Int
    BY HalfPositive, WordIsInt
  <1>3. BitNot(a) \in Word
    BY <1>2 DEF BitNot, Word, RBML_WORD_MIN, RBML_WORD_MAX
  <1>4. ASSUME NEW n \in ShiftCounts(b)
        PROVE  ShiftLeft(a, n) \in Word /\ ShiftRight(a, n) \in Word
    <2>1. n \in Nat
      BY WordAssumption DEF ShiftCounts
    <2>2. Pow2[n] \in Nat \ {0}
      BY <2>1, Pow2Type
    <2>3. a * Pow2[n] \in Int
      BY <1>2, <2>2
    <2>4. a \div Pow2[n] \in Int /\ (a >= 0 => 0 <= a \div Pow2[n] /\ a \div Pow2[n] <= a)
          /\ (a < 0 => a <= a \div Pow2[n] /\ a \div Pow2[n] < 0)
      BY <1>2, <2>2, Quotients
    <2>5. a \div Pow2[n] \in Word
      BY <1>2, <2>4 DEF Word, RBML_WORD_MIN, RBML_WORD_MAX
    <2> QED
      BY <2>3, <2>5, WrapIsWord DEF ShiftLeft, ShiftRight
  <1> QED
    BY <1>1, <1>3, <1>4
=============================================================================
