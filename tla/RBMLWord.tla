------------------------------ MODULE RBMLWord ------------------------------
(***************************************************************************)
(* The machine word of rbml.h and the word arithmetic of rbml.c.           *)
(*                                                                         *)
(* A word is a two's complement integer of BITS bits with four fields,     *)
(* from the top: an 8-bit opcode, two register numbers and an address.     *)
(* The program uses 16 registers and 65536 addresses, hence 32 bits; the   *)
(* layout is kept and the two narrow fields are parameters, so that a      *)
(* small instance has every boundary the real word has.                    *)
(***************************************************************************)
EXTENDS Integers

CONSTANTS
  NREGS,   \* how many registers a register field can name (16)
  NADDR,   \* how many addresses the address field can hold (65536)
  BITS     \* the width of a word (32)

HALF == 128 * NREGS * NREGS * NADDR

\* The opcode, two register fields and the address field fill the word.
ASSUME WordAssumption ==
  /\ NREGS \in Nat \ {0}
  /\ NADDR \in Nat \ {0}
  /\ BITS \in Nat \ {0}
  /\ 2^BITS = 2 * HALF

RBML_WORD_MIN == -HALF
RBML_WORD_MAX == HALF - 1

Word == RBML_WORD_MIN .. RBML_WORD_MAX

\* What is left of an integer stored in a word.
Wrap(n) == ((n + HALF) % (2 * HALF)) - HALF

Unsigned(w) == w % (2 * HALF)

-----------------------------------------------------------------------------
(* The fields of an instruction.                                           *)

RBML_INST(op, arg1, arg2, arg3) ==
  Wrap((op % 256) * NREGS * NREGS * NADDR
         + (arg1 % NREGS) * NREGS * NADDR
         + (arg2 % NREGS) * NADDR
         + (arg3 % NADDR))

RBML_OPCODE(w) == Unsigned(w) \div (NREGS * NREGS * NADDR)
RBML_ARG1(w) == (Unsigned(w) \div (NREGS * NADDR)) % NREGS
RBML_ARG2(w) == (Unsigned(w) \div NADDR) % NREGS
RBML_ARG3(w) == w % NADDR

RBML_SET_ARG3(w, arg3) == (w - (w % NADDR)) + (arg3 % NADDR)

-----------------------------------------------------------------------------
(* The integer arithmetic of C that the instructions are written with.     *)

Magnitude(n) == IF n < 0 THEN -n ELSE n

\* Division truncates towards zero; the remainder has the dividend's sign.
CDiv(a, b) ==
  LET q == Magnitude(a) \div Magnitude(b)
  IN  IF (a < 0) = (b < 0) THEN q ELSE -q

CMod(a, b) == a - b * CDiv(a, b)

\* 2^k, which the backends of the proof system know nothing of.
Pow2[k \in Nat] == IF k = 0 THEN 1 ELSE 2 * Pow2[k - 1]

Bit(w, k) == (Unsigned(w) \div Pow2[k]) % 2

\* The word whose one bits are those in S.
FromBits(S) ==
  LET Sum[k \in Nat] ==
        IF k = 0 THEN 0 ELSE Sum[k - 1] + IF k - 1 \in S THEN Pow2[k - 1] ELSE 0
  IN  Wrap(Sum[BITS])

BitAnd(a, b) == FromBits({k \in 0..(BITS - 1) : Bit(a, k) = 1 /\ Bit(b, k) = 1})
BitOr(a, b)  == FromBits({k \in 0..(BITS - 1) : Bit(a, k) = 1 \/ Bit(b, k) = 1})

\* Slip: the complement taken for the negation.
BitNotNegates(a) == -a
BitNot(a) == -a - 1

ShiftLeft(a, k)  == Wrap(a * Pow2[k])
ShiftRight(a, k) == a \div Pow2[k]

\* A count that is negative or not below the width is undefined in C: the
\* processor shifts by some count of its own choosing.
ShiftCounts(k) == IF k \in 0..(BITS - 1) THEN {k} ELSE 0..(BITS - 1)

-----------------------------------------------------------------------------
(* The tests that decide the overflow flag, and the divisions that trap.   *)

\* Slip: the largest word counted as an overflow.
AddOverflowsEarly(a, b) ==
  \/ a > 0 /\ b >= RBML_WORD_MAX - a
  \/ a < 0 /\ b < RBML_WORD_MIN - a

AddOverflows(a, b) ==
  \/ a > 0 /\ b > RBML_WORD_MAX - a
  \/ a < 0 /\ b < RBML_WORD_MIN - a

SubOverflows(a, b) ==
  \/ a > 0 /\ b > RBML_WORD_MAX - a
  \/ a < 0 /\ b < RBML_WORD_MIN - a

MultOverflows(a, b) ==
  /\ a # 0 /\ b # 0
  /\ \/ a > 0 /\ b > CDiv(RBML_WORD_MAX, a)
     \/ a < 0 /\ b < Wrap(CDiv(RBML_WORD_MIN, a))

\* The quotient RBML_WORD_MIN / -1 is not a word: the division is undefined
\* and traps on the processors that check it.
DivTraps(a, b) == a = RBML_WORD_MIN /\ b = -1

\* The overflow test of MULT divides RBML_WORD_MIN by a negative operand.
MultTraps(a, b) == b # 0 /\ DivTraps(RBML_WORD_MIN, a)
=============================================================================
