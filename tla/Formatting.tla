----------------------------- MODULE Formatting -----------------------------
(***************************************************************************)
(* Formatted text: vsnprintf of the freestanding library, with which the   *)
(* kernel writes its log, and the libc's, which printf uses, one           *)
(* conversion at a time.  The two differ in %r, which only the first has.  *)
(*                                                                         *)
(* Characters are their codes.  An int has INT_BITS bits, fewer than the   *)
(* words of Arith64.  The arguments are a few numbers and strings at the   *)
(* limits; a text has at most MaxConversions conversions.                  *)
(***************************************************************************)
EXTENDS Arith64, FiniteSets

LOCAL INSTANCE SequencesExt

CONSTANTS
    INT_BITS,
    Cells,              \* the memory at the buffer, which may be smaller
    MaxConversions

ASSUME FormattingAssumption ==
    /\ INT_BITS \in 5 .. BITS - 1 /\ Cells \in Nat \ {0} /\ MaxConversions \in Nat

VARIABLES
    library,        \* which vsnprintf
    maxsize, buf, idx,
    converted,      \* number of conversions done
    result,         \* what it returned; NotYet before
    meant           \* history: the text as its format says

formatVars == <<library, maxsize, buf, idx, converted, result, meant>>

NUL == 0
Untouched == -1
NotYet == -1
INT_MAX == 2^(INT_BITS - 1) - 1
UINT_MAX == 2^INT_BITS - 1

(* The codes of % - 0 x A a c r z and of (null). *)
Percent == 37
Minus == 45
Zero == 48
LowerX == 120
UpperA == 65
LowerA == 97
Null == <<40, 110, 117, 108, 108, 41>>

FormatInit ==
    /\ library \in {"freestanding", "libc"}
    /\ maxsize \in 0 .. Cells - 1
    /\ buf = [i \in 0 .. Cells - 1 |-> Untouched]
    /\ idx = 0 /\ converted = 0 /\ result = NotYet /\ meant = << >>

-----------------------------------------------------------------------------
(* bputc, bputs and bputud, on a record of buf and idx *)

(* NAME_Fault is NAME with a slip that the property at the end must notice.*)
bputc_PastEnd(out, c) ==
    [buf |-> IF maxsize > 0 /\ out.idx <= maxsize THEN [out.buf EXCEPT ![out.idx] = c] ELSE out.buf,
     idx |-> out.idx + 1]

bputc(out, c) ==
    [buf |-> IF maxsize > 0 /\ out.idx < maxsize - 1 THEN [out.buf EXCEPT ![out.idx] = c] ELSE out.buf,
     idx |-> out.idx + 1]

bputs(out, s) == FoldLeft(bputc, out, s)

Digit(d, upper) == CASE d < 10 -> Zero + d
                     [] d >= 10 /\ upper -> UpperA + d - 10
                     [] OTHER -> LowerA + d - 10

(* The digits of v, last digit first, by 64-bit division; at most BITS of  *)
(* them fit in the array.                                                  *)
Digits(v, base, upper) ==
    FoldLeft(LAMBDA st, i : IF st.v = 0 THEN st
                            ELSE [tmp |-> Append(st.tmp, Digit(umoddi3(st.v, base), upper)),
                                  v |-> udivdi3(st.v, base)],
             [tmp |-> << >>, v |-> v], [i \in 1..BITS |-> i]).tmp

bputud(out, v, base, upper) ==
    bputs(out, IF v = 0 THEN <<Zero>> ELSE Reverse(Digits(v, base, upper)))

-----------------------------------------------------------------------------
(* Conversions *)

Strings == {<<LowerA>>, <<UpperA, LowerX, UpperA>>}
UnsignedInts == {0, 9, 10, UINT_MAX}
Ints == {0, INT_MAX, -1, -(INT_MAX + 1)}

Out == [buf |-> buf, idx |-> idx]

(* What the text should say: the numeral of v without leading zeros. *)
Numeral(v, base, upper) ==
    LET length == CHOOSE n \in 1..BITS : v < base^n /\ (n = 1 \/ base^(n - 1) <= v)
    IN  [i \in 1..length |-> Digit((v \div base^(length - i)) % base, upper)]

(* A conversion writes out and, as history, should have written piece. *)
Converts(out, piece) ==
    /\ result = NotYet /\ converted < MaxConversions
    /\ converted' = converted + 1
    /\ buf' = out.buf /\ idx' = out.idx
    /\ meant' = meant \o piece
    /\ UNCHANGED <<library, maxsize, result>>

(* An ordinary character, %%, %c (of a letter, or of NUL), and %f, which   *)
(* writes nothing.                                                         *)
SingleCharacter ==
    \/ \E c \in {LowerA, Percent, NUL} : Converts(bputc(Out, c), <<c>>)
    \/ Converts(Out, << >>)

String ==
    \/ \E s \in Strings : Converts(bputs(Out, s), s)
    \/ Converts(bputs(Out, Null), Null)

(* %d and %i negate a 64-bit copy, so that the least int has a numeral. *)
SignedNumber ==
    \E v \in Ints :
        IF v < 0
        THEN Converts(bputud(bputc(Out, Minus), Truncated(-v), 10, FALSE),
                      <<Minus>> \o Numeral(-v, 10, FALSE))
        ELSE Converts(bputud(Out, v, 10, FALSE), Numeral(v, 10, FALSE))

(* %u, %x, %X and %p *)
UnsignedNumber ==
    \E v \in UnsignedInts :
        \/ Converts(bputud(Out, v, 10, FALSE), Numeral(v, 10, FALSE))
        \/ \E upper \in BOOLEAN : Converts(bputud(Out, v, 16, upper), Numeral(v, 16, upper))
        \/ Converts(bputud(bputs(Out, <<Zero, LowerX>>), v, 16, FALSE),
                    <<Zero, LowerX>> \o Numeral(v, 16, FALSE))

(* %r, for the freestanding library only *)
LongPointer ==
    /\ library = "freestanding"
    /\ \E v \in {UINT_MAX + 1, 2^BITS - 1} :
          Converts(bputud(bputs(Out, <<Zero, LowerX>>), v, 16, FALSE),
                   <<Zero, LowerX>> \o Numeral(v, 16, FALSE))

(* An unknown conversion is shown as it stands; %r for the libc. *)
Unknown ==
    \E c \in {122} \cup (IF library = "libc" THEN {114} ELSE {}) :
        Converts(bputc(bputc(Out, Percent), c), <<Percent, c>>)

(* The end of the format, which may be a single %. *)
Terminate ==
    /\ result = NotYet
    /\ buf' = IF maxsize = 0 THEN buf
              ELSE [buf EXCEPT ![IF idx >= maxsize THEN maxsize - 1 ELSE idx] = NUL]
    /\ result' = IF idx > INT_MAX THEN INT_MAX ELSE idx
    /\ UNCHANGED <<library, maxsize, idx, converted, meant>>

FormatNext ==
    \/ SingleCharacter \/ String \/ SignedNumber \/ UnsignedNumber
    \/ LongPointer \/ Unknown \/ Terminate

-----------------------------------------------------------------------------
(* vsnprintf writes what the format says, as far as it fits, then NUL, and *)
(* nothing behind it, not even for a buffer of no size, and returns the    *)
(* length of the whole text: every caller can tell that it was cut.        *)
FormatFits ==
    result # NotYet =>
        LET kept == IF Len(meant) < maxsize THEN Len(meant) ELSE maxsize - 1
        IN  /\ result = Len(meant)
            /\ \A i \in 0 .. Cells - 1 :
                  buf[i] = CASE i < kept -> meant[i + 1]
                             [] i = kept -> NUL
                             [] i > kept -> Untouched
=============================================================================
