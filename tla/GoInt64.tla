------------------------------ MODULE GoInt64 ------------------------------
(***************************************************************************)
(* Go's int64 arithmetic, which wraps modulo 2^64 (two's complement), for  *)
(* numbers TLC's 32-bit integers cannot hold.  A word is a sequence of     *)
(* Limbs digits in base Base, least significant first; Base 256 and Limbs  *)
(* 8 give int64.  time.Duration is an int64 count of nanoseconds, so       *)
(* time.Duration(x) * time.Hour is Mul of two words.                       *)
(***************************************************************************)
EXTENDS Naturals, Sequences, SequencesExt

CONSTANTS Base, Limbs

ASSUME Base \in Nat \ {0, 1} /\ Limbs \in Nat \ {0}

Word == [1..Limbs -> 0..(Base - 1)]

\* The word of a natural number below 2^31.
FromNat(n) ==
    LET RECURSIVE Digits(_, _)
        Digits(m, k) == IF k > Limbs THEN <<>> ELSE <<m % Base>> \o Digits(m \div Base, k + 1)
    IN Digits(n, 1)

Zero == FromNat(0)

\* Digit k of the schoolbook product: the sum of a[i] * b[j] with i + j = k + 1.
Column(a, b, k) == FoldLeft(LAMBDA acc, i : acc + a[i] * b[k + 1 - i], 0, [i \in 1..k |-> i])

\* a * b for int64 operands: the product truncated to Limbs digits, which
\* is the two's-complement product whatever the signs.
Mul(a, b) ==
    LET RECURSIVE Digit(_, _)
        Digit(k, carry) ==
            IF k > Limbs THEN <<>>
            ELSE LET t == Column(a, b, k) + carry
                 IN <<t % Base>> \o Digit(k + 1, t \div Base)
    IN Digit(1, 0)

\* The sign bit is the top bit of the last digit.
Negative(a) == a[Limbs] >= Base \div 2

Positive(a) == ~Negative(a) /\ a # Zero

=============================================================================
