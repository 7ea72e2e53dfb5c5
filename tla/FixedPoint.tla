----------------------------- MODULE FixedPoint -----------------------------
(* The fixed-point decimal of domain/src/decimal.rs on a small word: a value *)
(* is a raw integer over 10^Scale, kept in Bits bits.  In the code Scale is  *)
(* 18, Bits 128, MaxDigits 38 and Prec 28.  Results are checked against      *)
(* their definitions over the integers, for every pair of operands the       *)
(* constants give.                                                           *)
(*                                                                           *)
(* A decimal text is digits / 10^places, with an exponent when it is parsed  *)
(* leniently; that its characters are digits is left out.                    *)
EXTENDS Integers

CONSTANTS
    Scale, Bits, MaxDigits, Prec,
    MaxExponent,    \* largest exponent the lenient parser takes
    Others,         \* the second operands
    MaxPlaces       \* bound: decimal places of a text or of a rounding

VARIABLES x, y, places

fixedVars == <<x, y, places>>

Pow10[n \in Nat] == IF n = 0 THEN 1 ELSE 10 * Pow10[n - 1]
Unit == Pow10[Scale]
MAX == 2^(Bits - 1) - 1
MIN == -(2^(Bits - 1))
Words == MIN..MAX

FixedInit == x = MIN /\ y = 0 /\ places = 0

(* The enumeration of the operands. *)
NextOperand == x < MAX /\ x' = x + 1 /\ UNCHANGED <<y, places>>
NextPair == x = MIN /\ y' \in Others /\ places' \in 0..MaxPlaces /\ UNCHANGED x
FixedNext == NextOperand \/ NextPair

-----------------------------------------------------------------------------
(* Rust's integer division truncates. *)
Abs(n) == IF n < 0 THEN -n ELSE n
Sign(n) == IF n < 0 THEN -1 ELSE 1
Quot(a, b) == Sign(a) * Sign(b) * (Abs(a) \div Abs(b))
Rem(a, b) == a - b * Quot(a, b)
Saturated(v) == IF v < MIN THEN MIN ELSE IF v > MAX THEN MAX ELSE v
Wrapped(v) == ((v - MIN) % 2^Bits) + MIN
SatAbs(a) == Saturated(Abs(a))

Mul(a, b) == Saturated(Quot(a * b + Sign(a * b) * (Unit \div 2), Unit))
Div(a, b) ==
    Saturated(Sign(a) * Sign(b) * ((Abs(a) * Unit + Abs(b) \div 2) \div Abs(b)))
Floor(a) ==
    Saturated(Unit * (Quot(a, Unit) - (IF Rem(a, Unit) < 0 THEN 1 ELSE 0)))
Ceil(a) ==
    Saturated(Unit * (Quot(a, Unit) + (IF Rem(a, Unit) > 0 THEN 1 ELSE 0)))
FloorToStep(a, step) == Mul(Floor(Div(a, step)), step)
CeilToStep(a, step) == Mul(Ceil(Div(a, step)), step)

Quantize(a, n) ==
    IF n >= Scale THEN a ELSE Quot(a, Pow10[Scale - n]) * Pow10[Scale - n]
RoundToPlaces(a, n) ==
    IF n >= Scale THEN a
    ELSE LET grain == Pow10[Scale - n]
         IN  Sign(a) * grain * (Saturated(SatAbs(a) + grain \div 2) \div grain)

Digits(n) == CHOOSE d \in 0..(2 * Bits) : n < Pow10[d] /\ (d = 0 \/ n >= Pow10[d - 1])
Zeros(n, limit) ==      \* trailing zeros, counted up to limit
    CHOOSE z \in 0..limit : /\ n % Pow10[z] = 0
                            /\ z = limit \/ n % Pow10[z + 1] # 0

(* as_tuple, round_significant_half_even and its rebuild at Scale. *)
AsTuple(a) ==
    LET z == IF a = 0 THEN 0 ELSE Zeros(Abs(a), Scale)
    IN  [coeff |-> Quot(a, Pow10[z]), exp |-> z - Scale]
RoundSignificant(a) ==
    LET t    == AsTuple(a)
        c    == Abs(t.coeff)
        drop == Digits(c) - Prec
        q    == c \div Pow10[drop]
        rest == c % Pow10[drop]
        half == Pow10[drop] \div 2
        up   == rest > half \/ (rest = half /\ q % 2 = 1)
        exp  == t.exp + drop
    IN  IF a = 0 \/ drop <= 0 THEN a
        ELSE Sign(a) * (q + (IF up THEN 1 ELSE 0))
               * Pow10[IF exp >= 0 THEN exp ELSE Scale + exp]

WithExponent(c, e) ==
    IF e >= 0 THEN c * Pow10[e]
    ELSE IF -e > Scale THEN Quot(c, Pow10[-e]) ELSE c * Pow10[Scale + e]

-----------------------------------------------------------------------------
(* Parsing.  from_parts refuses too many digits and an integer part beyond   *)
(* the word; the sum of the two parts is not checked, and a release build    *)
(* wraps it.                                                                 *)
Refused == [ok |-> FALSE]
Parsed(raw) == [ok |-> TRUE, raw |-> raw]

FromParts(digits, k, neg) ==
    LET int  == digits \div Pow10[k]
        frac == digits % Pow10[k]
        significant == (IF int = 0 THEN 1 ELSE Digits(int)) + k - Zeros(frac, k)
        raw  == Wrapped(int * Unit + frac * Pow10[Scale - k])
    IN  IF \/ k > Scale \/ significant > MaxDigits \/ int * Unit > MAX
        THEN Refused
        ELSE Parsed(IF neg THEN Saturated(-raw) ELSE raw)

Strict(digits, k, neg) == FromParts(digits, k, neg)

(* apply_exponent moves the point; what is beyond Scale places is cut. *)
Lenient(digits, k, neg, e) ==
    LET point == k - e
        d     == IF point < 0 THEN digits * Pow10[-point] ELSE digits
        p     == IF point < 0 THEN 0 ELSE point
    IN  IF Abs(e) > MaxExponent THEN Refused
        ELSE IF p > Scale THEN FromParts(d \div Pow10[p - Scale], Scale, neg)
        ELSE FromParts(d, p, neg)

(* Display rounds to Prec digits and trims zeros; to_exact_string does not   *)
(* round.  Both show raw / 10^Scale.                                         *)
Shown(raw) ==
    LET z == Zeros(Abs(raw), Scale)
    IN  [digits |-> Abs(raw) \div Pow10[z], k |-> Scale - z, neg |-> raw < 0]
Display(a) == Shown(RoundSignificant(a))
ToExactString(a) == Shown(a)

-----------------------------------------------------------------------------
(* The definitions over the integers.                                        *)

(* r is num / den rounded to nearest, ties away from zero. *)
Nearest(r, num, den) ==
    LET off == num - r * den
    IN  /\ 2 * Abs(off) <= Abs(den)
        /\ 2 * Abs(off) = Abs(den) => Abs(r * den) >= Abs(num)

(* A product or quotient is the nearest value, or the end of the word on the *)
(* side where the exact result lies (mul, div).                              *)
ProductsNearest ==
    /\ \/ Nearest(Mul(x, y), x * y, Unit)
       \/ Mul(x, y) = MAX /\ x * y > MAX * Unit
       \/ Mul(x, y) = MIN /\ x * y < MIN * Unit
    /\ y = 0 \/ \/ Nearest(Div(x, y), x * Unit, y)
                \/ Div(x, y) = MAX /\ x * y > 0 /\ Abs(x) * Unit > MAX * Abs(y)
                \/ Div(x, y) = MIN /\ x * y < 0 /\ Abs(x) * Unit > MAX * Abs(y)

(* A price or size stepped down is the greatest multiple of the step that is *)
(* not above it, and stepped up the least not below, for steps up to 1 whose *)
(* quotient fits (floor_to_step, ceil_to_step: the bounds a quote and an     *)
(* order size rely on although the quotient is rounded first).               *)
StepsBracket ==
    /\ 0 < y /\ y <= Unit
    /\ Abs(x) * Unit + y * Unit < MAX * y
    => LET down == FloorToStep(x, y)
           up   == CeilToStep(x, y)
       IN  /\ down % y = 0 /\ down <= x /\ x < down + y
           /\ up % y = 0 /\ up - y < x /\ x <= up

(* The rounding to significant digits keeps Prec of them, is nearest, and    *)
(* settles a tie on the even digit.                                          *)
SignificantHalfEven ==
    LET r == RoundSignificant(x)
        d == Digits(Abs(x)) - Prec
        g == Pow10[IF d < 0 THEN 0 ELSE d]
    IN  /\ r \in Words /\ r % g = 0
        /\ 2 * Abs(r - x) <= g
        /\ 2 * Abs(r - x) = g => (r \div g) % 2 = 0

(* The text is y's exponent applied to x's digits. *)
Text == [digits |-> Abs(x), k |-> places, neg |-> x < 0]
Fits(digits, k) == digits * Unit <= MAX * Pow10[k]

(* A text the strict parser accepts is the value it denotes, and it accepts  *)
(* what to_exact_string shows of any value within the digit limit, as well   *)
(* as every displayed value; the lenient parser agrees with the strict one   *)
(* where there is no exponent.                                               *)
ParsingExact ==
    LET strict  == Strict(Text.digits, places, Text.neg)
        lenient == Lenient(Text.digits, places, Text.neg, 0)
        exact   == ToExactString(x)
        display == Display(x)
    IN  /\ strict.ok /\ Fits(Text.digits, places)
           => strict.raw * Pow10[places] = x * Unit
        /\ strict.ok => lenient = strict
        /\ Digits(Abs(AsTuple(x).coeff)) <= MaxDigits /\ x # 0
           => Strict(exact.digits, exact.k, exact.neg) = Parsed(x)
        /\ Strict(display.digits, display.k, display.neg) = Parsed(RoundSignificant(x))

(* A leniently parsed text is the value it denotes cut toward zero. *)
LenientCuts ==
    LET l == Lenient(Text.digits, places, Text.neg, y)
        e == y - places
        num == Abs(x) * Unit * Pow10[IF e > 0 THEN e ELSE 0]
        den == Pow10[IF e < 0 THEN -e ELSE 0]
    IN  l.ok /\ num <= MAX * den => l.raw = Sign(x) * (num \div den)

(* Quantizing cuts toward zero, rounding goes to the nearest with ties away   *)
(* from zero; what as_tuple takes apart with_exponent puts together again    *)
(* while the exponent is negative.                                           *)
PlacesExact ==
    LET grain == Pow10[IF places >= Scale THEN 0 ELSE Scale - places]
        cut   == Quantize(x, places)
        t     == AsTuple(x)
    IN  /\ cut % grain = 0 /\ Abs(cut) <= Abs(x) /\ Abs(x) - Abs(cut) < grain
        /\ Abs(x) + grain <= MAX =>
             Nearest(Quot(RoundToPlaces(x, places), grain), x, grain)
               /\ RoundToPlaces(x, places) % grain = 0
        /\ t.exp < 0 => WithExponent(t.coeff, t.exp) = x

FixedSound ==
    /\ ProductsNearest /\ StepsBracket /\ SignificantHalfEven
    /\ PlacesExact /\ ParsingExact /\ LenientCuts
=============================================================================
