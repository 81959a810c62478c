------------------------------ MODULE Arith64 ------------------------------
(***************************************************************************)
(* Arithmetic on 64-bit integers for a processor of 32 bits                *)
(* (freestanding/compat/arith64.c, and the same file in libc/compat): the  *)
(* compiler calls these functions for 64-bit operators.                    *)
(*                                                                         *)
(* Words have BITS bits, a power of two, and halves of half as many.  A    *)
(* word is a number below 2^BITS, of which Signed is the value as a signed *)
(* one.  The bit counts of halves are those of words with LOG one less.    *)
(***************************************************************************)
EXTENDS Integers, Sequences

LOCAL INSTANCE SequencesExt

CONSTANT LOG    \* the logarithm of the width of a word: 6 in the code

ASSUME Arith64Assumption == LOG \in Nat \ {0, 1}

VARIABLES num, den   \* the operands of the call; den = 0 before any

arithVars == <<num, den>>

BITS == 2^LOG
HALF == BITS \div 2
Words == 0 .. 2^BITS - 1

Truncated(n) == n % 2^BITS
Signed(a) == IF a >= 2^(BITS - 1) THEN a - 2^BITS ELSE a
hi(a) == a \div 2^HALF
lo(a) == a % 2^HALF
Word(h, l) == (h % 2^HALF) * 2^HALF + (l % 2^HALF)

(* Invert and increment a if b is negative. *)
arith64_neg(a, b) == IF Signed(b) < 0 THEN Truncated(2^BITS - 1 - a + 1) ELSE a
absvdi2(a) == arith64_neg(a, a)

-----------------------------------------------------------------------------
(* Shifts, by the halves of a word *)

ashldi3(a, b) ==
    LET s == b % BITS
    IN  CASE s >= HALF -> Word(lo(a) * 2^(s - HALF), 0)
          [] s = 0 -> a
          [] OTHER -> Word(lo(a) \div 2^(HALF - s) + hi(a) * 2^s, lo(a) * 2^s)

(* What a logical and an arithmetic shift put in the low half. *)
Lowered(a, s) == ((hi(a) * 2^(HALF - s)) % 2^HALF) + lo(a) \div 2^s

lshrdi3(a, b) ==
    LET s == b % BITS
    IN  CASE s >= HALF -> Word(0, hi(a) \div 2^(s - HALF))
          [] s = 0 -> a
          [] OTHER -> Word(hi(a) \div 2^s, Lowered(a, s))

SignedHalf(h) == IF h >= 2^(HALF - 1) THEN h - 2^HALF ELSE h

ashrdi3(a, b) ==
    LET s == b % BITS
    IN  CASE s >= HALF -> Word(SignedHalf(hi(a)) \div 2^(HALF - 1), SignedHalf(hi(a)) \div 2^(s - HALF))
          [] s = 0 -> a
          [] OTHER -> Word(SignedHalf(hi(a)) \div 2^s, Lowered(a, s))

-----------------------------------------------------------------------------
(* Counts of zeros: drop the upper (lower) half of what is left while it   *)
(* is zero.                                                                *)

Widths == [i \in 1..LOG |-> 2^(LOG - i)]

clzdi2(a) ==
    FoldLeft(LAMBDA st, k : IF st.a \div 2^(BITS - k) = 0
                            THEN [n |-> st.n + k, a |-> Truncated(st.a * 2^k)]
                            ELSE st,
             [n |-> 0, a |-> a], Widths).n

ctzdi2(a) ==
    FoldLeft(LAMBDA st, k : IF st.a % 2^k = 0
                            THEN [n |-> st.n + k, a |-> st.a \div 2^k]
                            ELSE st,
             [n |-> 0, a |-> a], Widths).n

ffsdi2(a) == IF a = 0 THEN 0 ELSE ctzdi2(a) + 1

-----------------------------------------------------------------------------
(* Division; the divisor zero raises an exception. *)

(* One bit of the long division: rem takes in the next bit of the          *)
(* numerator, a the last bit of the quotient; wrap is the sign of          *)
(* b - rem - 1, all ones (here 1) or 0.                                    *)
DivisionStep(st, b) ==
    LET rem == Truncated(st.rem * 2) + st.a \div 2^(BITS - 1)
        wrap == IF Signed(Truncated(b - rem - 1)) < 0 THEN 1 ELSE 0
    IN  [rem |-> Truncated(rem - b * wrap), a |-> Truncated(st.a * 2) + st.wrap, wrap |-> wrap]

LongDivision(a, b, bits) ==
    FoldLeft(LAMBDA st, i : DivisionStep(st, b),
             [rem |-> a \div 2^bits, a |-> Truncated(a * 2^(BITS - bits)), wrap |-> 0],
             [i \in 1..bits |-> i])

Divided(st) == [q |-> Truncated(st.a * 2) + st.wrap, r |-> st.rem]

divmoddi4(a, b) ==
    CASE b > a -> [q |-> 0, r |-> a]
      [] b = 1 -> [q |-> a, r |-> 0]
      [] b <= a /\ b # 1 /\ hi(b) = 0 /\ hi(a) = 0 -> [q |-> lo(a) \div lo(b), r |-> lo(a) % lo(b)]
      [] OTHER -> Divided(LongDivision(a, b, clzdi2(b) - clzdi2(a) + 1))

udivdi3(a, b) == divmoddi4(a, b).q
umoddi3(a, b) == divmoddi4(a, b).r

(* The signs differ if the sign bit of a ^ b is set. *)
divdi3(a, b) ==
    LET q == divmoddi4(absvdi2(a), absvdi2(b)).q
    IN  IF (Signed(a) < 0) # (Signed(b) < 0) THEN arith64_neg(q, 2^(BITS - 1)) ELSE q

moddi3(a, b) == arith64_neg(divmoddi4(absvdi2(a), absvdi2(b)).r, a)

(* NAME_Fault is NAME with a slip that the property at the end must notice.*)
udivmoddi4_LargerOnly(a, b) ==
    LET shift == CHOOSE s \in 0 .. BITS - 1 : b * 2^s \in 2^(BITS - 1) .. 2^BITS - 1
    IN  FoldLeft(LAMBDA st, i : IF b * 2^(shift - i) < st.r
                                THEN [q |-> st.q + 2^(shift - i), r |-> st.r - b * 2^(shift - i)]
                                ELSE st,
                 [q |-> 0, r |-> a], [i \in 1 .. shift + 1 |-> i - 1])

(* Left-justify the divisor, then subtract it where it fits while it is    *)
(* shifted back.                                                           *)
udivmoddi4(a, b) ==
    LET shift == CHOOSE s \in 0 .. BITS - 1 : b * 2^s \in 2^(BITS - 1) .. 2^BITS - 1
    IN  FoldLeft(LAMBDA st, i : IF b * 2^(shift - i) <= st.r
                                THEN [q |-> st.q + 2^(shift - i), r |-> st.r - b * 2^(shift - i)]
                                ELSE st,
                 [q |-> 0, r |-> a], [i \in 1 .. shift + 1 |-> i - 1])

-----------------------------------------------------------------------------
ArithInit == num = 0 /\ den = 0

Operands ==
    /\ ArithInit
    /\ num' \in Words /\ den' \in Words \ {0}

-----------------------------------------------------------------------------
(* C's operators on 64-bit words: shifts lose the bits shifted out and     *)
(* keep the sign where they must, division of unsigned and of signed words *)
(* leaves a remainder with the sign of the numerator and smaller than the  *)
(* divisor, whichever of the two unsigned algorithms is linked.  (The      *)
(* least number divided by -1 overflows to itself.)                        *)
ArithmeticIsExact ==
    den # 0 =>
    LET magnitude(n) == IF n < 0 THEN -n ELSE n
        q == Signed(divdi3(num, den))
        r == Signed(moddi3(num, den))
        s == den % BITS
        leading == clzdi2(den)
    IN  /\ \A d \in {divmoddi4(num, den), udivmoddi4(num, den)} :
              d.q * den + d.r = num /\ d.r \in 0 .. den - 1
        /\ \/ Signed(num) = -2^(BITS - 1) /\ Signed(den) = -1
           \/ q * Signed(den) + r = Signed(num)
        /\ magnitude(r) < magnitude(Signed(den)) /\ r * Signed(num) >= 0
        /\ ashldi3(num, den) = Truncated(num * 2^s)
        /\ lshrdi3(num, den) = num \div 2^s
        /\ Signed(ashrdi3(num, den)) = Signed(num) \div 2^s
        /\ den \in 2^(BITS - 1 - leading) .. 2^(BITS - leading) - 1
        /\ \E odd \in Words : odd % 2 = 1 /\ den = odd * 2^(ffsdi2(den) - 1)
============================================================================
