---------------------------------- MODULE Price ----------------------------------
(***************************************************************************)
(* pkg/price: decimal strings to integers at a fixed scale, and back.      *)
(*                                                                         *)
(* A decimal string is the record of what its characters say: a sign, the  *)
(* digits as written with leading and trailing zeros, how many of them     *)
(* come after the point, and the exponent.  The strings parse turns down   *)
(* at sight are records of another kind, which is the error it returns.    *)
(* The width of an integer is a parameter, 19 digits and 2^63 - 1 in Go.   *)
(***************************************************************************)
EXTENDS Integers, SequencesExt

CONSTANTS
    PriceExp, SizeExp, RateExp,     \* the three scales
    MaxDigits,                      \* maxInt64Digits
    MaxInt                          \* math.MaxInt64

\* The powers of ten.
TenTo[n \in Nat] == IF n = 0 THEN 1 ELSE 10 * TenTo[n - 1]

ASSUME PriceAssumption ==
    /\ PriceExp \in Int /\ SizeExp \in Int /\ RateExp \in Int
    /\ PriceExp <= 0 /\ SizeExp <= 0 /\ RateExp <= 0
    /\ MaxDigits \in Nat /\ MaxInt \in Nat
    /\ MaxInt < TenTo[MaxDigits] /\ 10 * MaxInt >= TenTo[MaxDigits]

Digits == Seq(0..9)

\* The decimal strings, and those that are none.
Decimals == [kind : STRING \ {""}, negative : BOOLEAN, digits : Digits, frac : Nat, exp : Int]

Number(negative, digits, frac, exp) ==
    [kind |-> "number", negative |-> negative, digits |-> digits, frac |-> frac, exp |-> exp]

NotANumber(kind) == [kind |-> kind, negative |-> FALSE, digits |-> <<>>, frac |-> 0, exp |-> 0]

ErrEmpty     == NotANumber("ErrEmpty")
ErrSyntax    == NotANumber("ErrSyntax")
ErrNotFinite == NotANumber("ErrNotFinite")

\* strconv.ParseInt on a run of digits, before its range check.
ValueOf(digits) ==
    LET upTo[n \in 0..Len(digits)] == IF n = 0 THEN 0 ELSE 10 * upTo[n - 1] + digits[n]
    IN  upTo[Len(digits)]

\* Leading zeros are never appended: no digits at all means zero.
Significant(digits) ==
    LET nonzero == {n \in 1..Len(digits) : digits[n] # 0}
    IN  IF nonzero = {} THEN <<>> ELSE SubSeq(digits, Min(nonzero), Len(digits))

Accept(v) == [err |-> "", v |-> v]
Refuse(err) == [err |-> err, v |-> 0]

\* The digits moved to the scale: to the right some are dropped, to the left
\* zeros are appended.
Shifted(digits, shift) ==
    IF shift < 0 THEN SubSeq(digits, 1, Len(digits) + shift)
    ELSE digits \o [n \in 1..shift |-> 0]

DropsDigits(digits, shift) ==
    \/ -shift >= Len(digits)
    \/ \E n \in (Len(digits) + shift + 1)..Len(digits) : digits[n] # 0

TooLarge(digits, shift) ==
    \/ Len(digits) + shift > MaxDigits
    \/ ValueOf(Shifted(digits, shift)) > MaxInt

\* Mutant: digits that do not fit the scale are cut off.
parseTruncating(s, scaleExp, signed) ==
    LET digits == Significant(s.digits)
        shift == s.exp - s.frac - scaleExp
    IN  IF s.kind # "number" THEN Refuse(s.kind)
        ELSE IF digits = <<>> THEN Accept(0)
        ELSE IF s.negative /\ ~signed THEN Refuse("ErrNegative")
        ELSE IF shift < 0 /\ -shift >= Len(digits) THEN Accept(0)
        ELSE IF TooLarge(digits, shift) THEN Refuse("ErrOutOfRange")
        ELSE Accept((IF s.negative THEN -1 ELSE 1) * ValueOf(Shifted(digits, shift)))

\* parse: exactly the value the venue wrote, or an error.
parse(s, scaleExp, signed) ==
    LET digits == Significant(s.digits)
        shift == s.exp - s.frac - scaleExp
    IN  IF s.kind # "number" THEN Refuse(s.kind)
        ELSE IF digits = <<>> THEN Accept(0)
        ELSE IF s.negative /\ ~signed THEN Refuse("ErrNegative")
        ELSE IF shift < 0 /\ DropsDigits(digits, shift) THEN Refuse("ErrPrecisionLoss")
        ELSE IF TooLarge(digits, shift) THEN Refuse("ErrOutOfRange")
        ELSE Accept((IF s.negative THEN -1 ELSE 1) * ValueOf(Shifted(digits, shift)))

ParsePrice(s) == parse(s, PriceExp, FALSE)
ParseSize(s)  == parse(s, SizeExp, FALSE)
ParseRate(s)  == parse(s, RateExp, TRUE)

\* format: at least one digit before the point, no trailing zero after it.
format(v, scaleExp) ==
    LET u == IF v < 0 THEN -v ELSE v
        scale == -scaleExp
        width == CHOOSE w \in 1..(MaxDigits + scale + 1) :
                     /\ w > scale /\ u < TenTo[w]
                     /\ w = scale + 1 \/ u >= TenTo[w - 1]
        d == [n \in 1..width |-> (u \div TenTo[width - n]) % 10]
        kept == {0} \cup {k \in 1..scale : d[width - scale + k] # 0}
    IN  Number(v < 0, SubSeq(d, 1, width - scale + Max(kept)), Max(kept), 0)

-----------------------------------------------------------------------------

\* The number s stands for is exactly v at 10^scaleExp.
Denotes(s, v, scaleExp) ==
    LET n == (IF s.negative THEN -1 ELSE 1) * ValueOf(s.digits)
        shift == s.exp - s.frac - scaleExp
    IN  IF shift < 0 THEN v * TenTo[-shift] = n ELSE v = n * TenTo[shift]

\* parse answers the exact value and format gives it back; where it answers with
\* an error no value that may be carried is the exact one.
ParsedExactly(s, scaleExp, signed) ==
    LET result == parse(s, scaleExp, signed)
        Carried == IF signed THEN -MaxInt..MaxInt ELSE 0..MaxInt
    IN  IF result.err = ""
        THEN /\ result.v \in Carried
             /\ Denotes(s, result.v, scaleExp)
             /\ parse(format(result.v, scaleExp), scaleExp, signed) = result
        ELSE s.kind = "number" => \A v \in Carried : ~Denotes(s, v, scaleExp)
=============================================================================
