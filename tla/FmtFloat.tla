------------------------------- MODULE FmtFloat -------------------------------
(***************************************************************************)
(* fmt: how a floating-point number is printed with a given precision.     *)
(* format_float multiplies the number by a cached power of ten, which may *)
(* cost it one unit of error, and lets grisu_gen_digits produce digits as  *)
(* long as that error cannot change them; when it could, fallback_format   *)
(* starts again with the exact quotient of two bigints.  The widths are    *)
(* constants: a bigint keeps bigits of Bits bits (32 in the code), an fp   *)
(* has a significand of FpSize bits (64).  2^Bits is larger than 10, as in *)
(* the code, for divmod_assign counts on it.                               *)
(***************************************************************************)
EXTENDS Integers, Sequences

CONSTANTS Bits, FpSize,         \* bits of a bigit, fp::significand_size
          GrisuMinExp,          \* min_exp, 4 - FpSize as in the code
          CachedExps,           \* the decimal exponents of the cached powers
          SigBits, FloatExps,   \* bits of the stored significand, exponents of a float
          MaxDigits,            \* max_double_digits, 767 in the code
          MaxPrecision          \* bound

VARIABLES
    value,    \* the number printed, f * 2^e
    spec,     \* [precision, fixed, showpoint]
    gen,      \* grisu_gen_digits: [one, integral, fractional, error], the handler's exp10
    precision,\* fixed_handler::precision, then fallback_format's num_digits
    big,      \* fallback_format: [num, den], bigints
    buf, exp, \* digits so far (10 while a carry is on its way), exponent
    pc,
    unit      \* history: exponent of the last digit that is asked for
vars == <<value, spec, gen, precision, big, buf, exp, pc, unit>>

(***************************************************************************)
(* bigint: b, the bigits, the least significant one first; e, how many     *)
(* zero bigits are left out below them.                                    *)
(***************************************************************************)
Base == 2 ^ Bits
Larger(a, c) == IF a > c THEN a ELSE c
Smaller(a, c) == IF a < c THEN a ELSE c

\* bigint::assign(uint64_t): a double_bigit gives one bigit or two.
Bigits(n) == IF n < Base THEN <<n>> ELSE <<n % Base, n \div Base>>
BigAssign(n) == [b |-> Bigits(n), e |-> 0]
num_bigits(x) == Len(x.b) + x.e

RECURSIVE remove_leading_zeros(_)
remove_leading_zeros(x) ==
    IF Len(x.b) > 1 /\ x.b[Len(x.b)] = 0
    THEN remove_leading_zeros([x EXCEPT !.b = SubSeq(@, 1, Len(@) - 1)])
    ELSE x

\* multiply(uint32_t): the carry is a bigit.
multiply(x, v) ==
    LET n == Len(x.b)
        carry[i \in 0..n] == IF i = 0 THEN 0 ELSE (x.b[i] * v + carry[i - 1]) \div Base
        low == [i \in 1..n |-> (x.b[i] * v + carry[i - 1]) % Base]
    IN [x EXCEPT !.b = IF carry[n] = 0 THEN low ELSE Append(low, carry[n])]

\* multiply(uint64_t): the factor has two halves and the carry is a double bigit.
multiply64(x, v) ==
    LET n == Len(x.b)
        lower == v % Base
        upper == v \div Base
        carry[i \in 0..n] ==
            IF i = 0 THEN 0
            ELSE (x.b[i] * upper + (x.b[i] * lower + (carry[i - 1] % Base)) \div Base
                  + (carry[i - 1] \div Base)) % (Base * Base)
        low == [i \in 1..n |-> (x.b[i] * lower + (carry[i - 1] % Base)) % Base]
    IN [x EXCEPT !.b = IF carry[n] = 0 THEN low ELSE low \o Bigits(carry[n])]

\* operator<<=: whole bigits go to the exponent.
ShiftLeft(x, shift) ==
    LET k == shift % Bits
        n == Len(x.b)
        carry(i) == IF i = 0 THEN 0 ELSE x.b[i] \div 2 ^ (Bits - k)
        low == [i \in 1..n |-> ((x.b[i] * 2 ^ k) % Base) + carry(i - 1)]
        e == x.e + shift \div Bits
    IN IF k = 0 THEN [x EXCEPT !.e = e]
       ELSE [b |-> IF carry(n) = 0 THEN low ELSE Append(low, carry(n)), e |-> e]

\* The bigit of weight Base^i, i from 0.
get_bigit(x, i) == IF i >= x.e /\ i < num_bigits(x) THEN x.b[i - x.e + 1] ELSE 0

\* compare: the longer one is larger; then the first bigit that differs, from the
\* top, then what is left of the one with more bigits stored.
compare(x, y) ==
    LET n == Smaller(Len(x.b), Len(y.b))
        xb(k) == x.b[Len(x.b) + 1 - k]
        yb(k) == y.b[Len(y.b) + 1 - k]
        differ == {k \in 1..n : xb(k) # yb(k)}
        first == CHOOSE k \in differ : \A j \in differ : k <= j
        sign(a, c) == IF a > c THEN 1 ELSE IF a < c THEN -1 ELSE 0
    IN IF num_bigits(x) # num_bigits(y) THEN sign(num_bigits(x), num_bigits(y))
       ELSE IF differ # {} THEN sign(xb(first), yb(first))
       ELSE sign(Len(x.b), Len(y.b))

\* The loop of add_compare: what z has over at one bigit is lent to the next one, and
\* more than one can never be made up.
RECURSIVE AddCompareFrom(_, _, _, _, _, _)
AddCompareFrom(x, y, z, i, min, borrow) ==
    IF i < min THEN IF borrow # 0 THEN -1 ELSE 0
    ELSE LET sum == get_bigit(x, i) + get_bigit(y, i)
             have == get_bigit(z, i) + borrow
         IN IF sum > have THEN 1
            ELSE IF have - sum > 1 THEN -1
            ELSE AddCompareFrom(x, y, z, i - 1, min, (have - sum) * Base)

\* add_compare: x + y against z.
add_compare(x, y, z) ==
    LET max == Larger(num_bigits(x), num_bigits(y))
    IN IF max + 1 < num_bigits(z) THEN -1
       ELSE IF max > num_bigits(z) THEN 1
       ELSE AddCompareFrom(x, y, z, num_bigits(z) - 1, Smaller(Smaller(x.e, y.e), z.e), 0)

\* square: bigit k of the result is the sum of the products of weight k and the carry.
square(x) ==
    LET n == Len(x.b)
        terms[k \in 0..(2 * n - 1), i \in -1..(n - 1)] ==
            IF i < 0 THEN 0
            ELSE terms[k, i - 1] + (IF k - i \in 0..(n - 1) THEN x.b[i + 1] * x.b[k - i + 1] ELSE 0)
        sum[k \in -1..(2 * n - 1)] ==
            IF k < 0 THEN 0 ELSE terms[k, n - 1] + (sum[k - 1] \div Base)
    IN remove_leading_zeros([b |-> [k \in 1..(2 * n) |-> sum[k - 1] % Base], e |-> 2 * x.e])

\* assign_pow10: 5^n by squaring, from the top bit of n, then n shifts.
RECURSIVE Pow5(_)
Pow5(n) ==
    IF n = 1 THEN BigAssign(5)
    ELSE LET sq == square(Pow5(n \div 2)) IN IF n % 2 = 1 THEN multiply(sq, 5) ELSE sq
assign_pow10(n) == IF n = 0 THEN BigAssign(1) ELSE ShiftLeft(Pow5(n), n)

\* align: zero bigits take the place of a larger exponent.
align(x, y) ==
    IF x.e <= y.e THEN x
    ELSE [b |-> [i \in 1..(x.e - y.e) |-> 0] \o x.b, e |-> y.e]

\* subtract_aligned: the borrow that is left is taken from the next bigit until it is
\* gone, always the same bigit, so that one must not be 0.
subtract_aligned(x, y) ==
    LET from == y.e - x.e
        n == Len(y.b)
        less(i, borrow) == x.b[from + i] - y.b[i] - borrow
        borrow[i \in 0..n] == IF i = 0 THEN 0 ELSE IF less(i, borrow[i - 1]) < 0 THEN 1 ELSE 0
        top == from + n + 1
        done == [i \in DOMAIN x.b |->
                    IF i \in (from + 1)..(from + n) THEN less(i - from, borrow[i - from - 1]) % Base
                    ELSE IF i = top /\ borrow[n] = 1
                         THEN IF x.b[i] = 0 THEN Base - 2 ELSE x.b[i] - 1
                    ELSE x.b[i]]
    IN remove_leading_zeros([x EXCEPT !.b = done])

\* divmod_assign: subtractions are counted.
RECURSIVE Subtractions(_, _, _)
Subtractions(x, y, quotient) ==
    LET rest == subtract_aligned(x, y)
    IN IF compare(rest, y) >= 0 THEN Subtractions(rest, y, quotient + 1)
       ELSE [quotient |-> quotient + 1, rest |-> rest]
divmod_assign(x, y) ==
    IF compare(x, y) < 0 THEN [quotient |-> 0, rest |-> x] ELSE Subtractions(align(x, y), y, 0)

-----------------------------------------------------------------------------
\* fp::assign, zero included: a subnormal has the smallest exponent.
MinExp == CHOOSE e \in FloatExps : \A d \in FloatExps : e <= d
Implicit == 2 ^ SigBits
Floats == [f : 0..(Implicit - 1), e : {MinExp}] \cup [f : Implicit..(2 * Implicit - 1), e : FloatExps]
is_predecessor_closer == value.f = Implicit /\ value.e > MinExp

Zero == BigAssign(0)
Numer == value.f * 2 ^ Larger(value.e, 0)        \* the number, as a fraction
Denom == 2 ^ Larger(0 - value.e, 0)
count_digits(n) == IF n < 10 THEN 1 ELSE IF n < 100 THEN 2 ELSE IF n < 1000 THEN 3 ELSE 4

\* format_float is called with any precision: write passes on the precision 0 of the
\* general format.
Init ==
    /\ value \in Floats
    /\ spec \in [precision : 0..MaxPrecision, fixed : BOOLEAN, showpoint : BOOLEAN]
    /\ gen = [one |-> 1, integral |-> 0, fractional |-> 0, error |-> 1, exp10 |-> 0]
    /\ precision = spec.precision /\ big = [num |-> Zero, den |-> Zero]
    /\ buf = <<>> /\ exp = 0 /\ unit = 0 /\ pc = "start"

\* format_float of 0.
FormatZero ==
    /\ pc = "start" /\ value.f = 0
    /\ IF spec.precision <= 0 \/ ~spec.fixed
       THEN buf' = <<0>> /\ exp' = 0
       ELSE buf' = [i \in 1..spec.precision |-> 0] /\ exp' = 0 - spec.precision
    /\ unit' = exp' /\ pc' = "done"
    /\ UNCHANGED <<value, spec, gen, precision, big>>

\* get_round_direction that counts the error in one direction only.
get_round_direction_up(divisor, rest, error) ==
    IF rest <= divisor - rest /\ error * 2 <= divisor - rest * 2 THEN "down" ELSE "up"

\* get_round_direction: is rest nearer to 0 or to divisor, whatever the error.
get_round_direction(divisor, rest, error) ==
    IF rest <= divisor - rest /\ error * 2 <= divisor - rest * 2 THEN "down"
    ELSE IF rest >= error /\ rest - error >= divisor - (rest - error) THEN "up"
    ELSE "unknown"

Significands == (2 ^ (FpSize - 1))..(2 ^ FpSize - 1)

\* normalize: the significand fills its bits.
normalize(x) ==
    LET k == CHOOSE k \in 0..FpSize : x.f * 2 ^ k \in Significands
    IN [f |-> x.f * 2 ^ k, e |-> x.e - k]

\* The table of the cached powers: 10^c rounded to an fp.
CachedPowers ==
    [c \in CachedExps |->
        LET n(k) == 10 ^ Larger(c, 0) * 2 ^ Larger(k, 0)
            d(k) == 10 ^ Larger(0 - c, 0) * 2 ^ Larger(0 - k, 0)
            f(k) == (2 * n(k) + d(k)) \div (2 * d(k))
            shift == CHOOSE k \in (0 - FpSize)..(2 * FpSize) : f(k) \in Significands
        IN [f |-> f(shift), e |-> 0 - shift]]

\* get_cached_power: the first one whose exponent is large enough.
get_cached_power(min_exponent) ==
    LET enough == {c \in CachedExps : CachedPowers[c].e >= min_exponent}
    IN CHOOSE c \in enough : \A d \in enough : c <= d

\* multiply and operator* of fp: the upper half of the product, rounded half up.
Product(x, y) ==
    LET p == x.f * y.f
    IN [f |-> (p \div 2 ^ FpSize) + ((p \div 2 ^ (FpSize - 1)) % 2), e |-> x.e + y.e + FpSize]

\* fixed_handler::on_start: no digit at all may be wanted; a number of one digit more
\* than that is rounded at once.  A tenth of the number stands for it, with ten times
\* the error.
on_start(want, divisor, tenth) ==
    IF ~spec.fixed \/ want > 0 THEN "more"
    ELSE IF want < 0 THEN "done" ELSE get_round_direction(divisor, tenth, 10)

\* The beginning of grisu_gen_digits: what is in front of the point and behind it.
Parts(scaled) ==
    LET one == 2 ^ (0 - scaled.e)
    IN [one |-> one, integral |-> scaled.f \div one, fractional |-> scaled.f % one]

\* format_float up to the first digit: the precision is limited, and in the fixed format
\* counted from the first digit on.
Start ==
    /\ pc = "start" /\ value.f # 0
    /\ LET x == normalize(value)
           c == get_cached_power(GrisuMinExp - (x.e + FpSize))
           scaled == Product(x, CachedPowers[c])
           parts == Parts(scaled)
           digits == count_digits(parts.integral)
           limited == Smaller(spec.precision, MaxDigits)
           want == IF spec.fixed THEN limited + digits - c ELSE limited
           r == on_start(want, 10 ^ (digits - 1) * parts.one, scaled.f \div 10)
       IN /\ gen' = [one |-> parts.one, integral |-> parts.integral,
                     fractional |-> parts.fractional, error |-> 1, exp10 |-> 0 - c]
          /\ precision' = want /\ exp' = digits
          /\ unit' = IF spec.fixed THEN 0 - limited ELSE digits - c - Larger(limited, 1)
          /\ buf' = CASE r = "up" -> <<1>> [] r = "down" -> <<0>> [] OTHER -> <<>>
          /\ pc' = CASE r = "more" -> "integral" [] r = "unknown" -> "fallback" [] OTHER -> "trim"
    /\ UNCHANGED <<value, spec, big>>

RECURSIVE Propagate(_, _)
Propagate(b, i) ==
    IF i > 1 /\ b[i] > 9 THEN Propagate([b EXCEPT ![i] = 0, ![i - 1] = @ + 1], i - 1) ELSE b

\* The end of on_digit: the last digit asked for is rounded, with its carry.
Rounded(b, divisor, rest, error) ==
    LET dir == get_round_direction(divisor, rest, error)
        up == Propagate([b EXCEPT ![Len(b)] = @ + 1], Len(b))
        over == up[1] > 9
        first == [up EXCEPT ![1] = IF over THEN 1 ELSE @]
    IN CASE dir = "down" -> [result |-> "done", buf |-> b, exp10 |-> gen.exp10]
         [] dir = "unknown" -> [result |-> "error", buf |-> b, exp10 |-> gen.exp10]
         [] dir = "up" -> [result |-> "done",
                           buf |-> IF over /\ spec.fixed THEN Append(first, 0) ELSE first,
                           exp10 |-> IF over /\ ~spec.fixed THEN gen.exp10 + 1 ELSE gen.exp10]

\* fixed_handler::on_digit: the digit is kept; behind the point the error must stay
\* below what is left, and below half of the divisor before it is rounded.
on_digit(digit, divisor, rest, error, integral) ==
    LET b == Append(buf, digit)
        lost == \/ error >= rest
                \/ Len(b) >= precision /\ (error >= divisor \/ error >= divisor - error)
    IN IF ~integral /\ lost THEN [result |-> "error", buf |-> b, exp10 |-> gen.exp10]
       ELSE IF Len(b) < precision THEN [result |-> "more", buf |-> b, exp10 |-> gen.exp10]
       ELSE Rounded(b, divisor, rest, error)

\* After a digit: on an error the exponent of the first digit goes to fallback_format,
\* at the end the exponent of the last one to the caller.
After(r, e, more) ==
    /\ pc' = CASE r.result = "more" -> more [] r.result = "error" -> "fallback" [] OTHER -> "trim"
    /\ buf' = r.buf /\ exp' = e

\* One turn of the loop over the integral part.
IntegralDigit ==
    /\ pc = "integral"
    /\ LET power == 10 ^ (exp - 1)
           left == gen.integral % power
           r == on_digit(gen.integral \div power, power * gen.one, left * gen.one + gen.fractional, 1, TRUE)
       IN /\ gen' = [gen EXCEPT !.integral = left, !.exp10 = r.exp10]
          /\ After(r, exp - 1, IF exp > 1 THEN "integral" ELSE "fractional")
    /\ UNCHANGED <<value, spec, precision, big, unit>>

\* One turn of the loop over the fractional part: the error grows with the digits.
FractionalDigit ==
    /\ pc = "fractional"
    /\ LET ten == gen.fractional * 10
           r == on_digit(ten \div gen.one, gen.one, ten % gen.one, gen.error * 10, FALSE)
       IN /\ gen' = [gen EXCEPT !.fractional = ten % gen.one, !.error = @ * 10, !.exp10 = r.exp10]
          /\ After(r, exp - 1, "fractional")
    /\ UNCHANGED <<value, spec, precision, big, unit>>

-----------------------------------------------------------------------------
\* fallback_format up to the digits: numerator / denominator * 10^exp10 is the number.
\* lower and upper are for the shortest form, which format_float leaves to Dragonbox.
Fallback ==
    /\ pc = "fallback"
    /\ LET exp10 == exp + Len(buf) + gen.exp10 - 1
           shift == IF is_predecessor_closer THEN 2 ELSE 1
           significand == value.f * 2 ^ shift
       IN /\ big' = IF value.e >= 0
                    THEN [num |-> ShiftLeft(BigAssign(significand), value.e),
                          den |-> ShiftLeft(assign_pow10(exp10), shift)]
                    ELSE IF exp10 < 0
                    THEN [num |-> multiply64(assign_pow10(0 - exp10), significand),
                          den |-> ShiftLeft(BigAssign(1), shift - value.e)]
                    ELSE [num |-> BigAssign(significand),
                          den |-> ShiftLeft(assign_pow10(exp10), shift - value.e)]
          /\ exp' = exp10 - (precision - 1)
    /\ buf' = <<>> /\ pc' = IF precision = 0 THEN "none" ELSE "digits"
    /\ UNCHANGED <<value, spec, gen, precision, unit>>

\* No digit is wanted: 1 when the number is more than half of the next power.
FallbackNone ==
    /\ pc = "none"
    /\ LET den == multiply(big.den, 10)
       IN /\ big' = [big EXCEPT !.den = den]
          /\ buf' = <<IF add_compare(big.num, big.num, den) > 0 THEN 1 ELSE 0>>
    /\ pc' = "trim"
    /\ UNCHANGED <<value, spec, gen, precision, exp, unit>>

\* A digit before the last one.
FallbackDigit ==
    /\ pc = "digits" /\ Len(buf) < precision - 1
    /\ LET r == divmod_assign(big.num, big.den)
       IN /\ buf' = Append(buf, r.quotient)
          /\ big' = [big EXCEPT !.num = multiply(r.rest, 10)]
    /\ UNCHANGED <<value, spec, gen, precision, exp, pc, unit>>

\* The last digit is rounded, half to even; a 9 hands the carry on.
FallbackLast ==
    /\ pc = "digits" /\ Len(buf) = precision - 1
    /\ LET r == divmod_assign(big.num, big.den)
           half == add_compare(r.rest, r.rest, big.den)
           up == half > 0 \/ (half = 0 /\ r.quotient % 2 # 0)
           b == Append(buf, IF up THEN r.quotient + 1 ELSE r.quotient)
           carried == IF up /\ r.quotient = 9 THEN Propagate(b, Len(b)) ELSE b
           over == carried[1] = 10
       IN /\ big' = [big EXCEPT !.num = r.rest]
          /\ buf' = [carried EXCEPT ![1] = IF over THEN 1 ELSE @]
          /\ exp' = IF over THEN exp + 1 ELSE exp
    /\ pc' = "trim"
    /\ UNCHANGED <<value, spec, gen, precision, unit>>

RECURSIVE Zeros(_)
Zeros(b) == IF b # <<>> /\ b[Len(b)] = 0 THEN 1 + Zeros(SubSeq(b, 1, Len(b) - 1)) ELSE 0

\* The end of format_float: without a fixed number of places trailing zeros go.
Trim ==
    /\ pc = "trim"
    /\ LET zeros == IF spec.fixed \/ spec.showpoint THEN 0 ELSE Zeros(buf)
       IN /\ buf' = SubSeq(buf, 1, Len(buf) - zeros)
          /\ exp' = exp + zeros + (IF big.den = Zero THEN gen.exp10 ELSE 0)
    /\ pc' = "done"
    /\ UNCHANGED <<value, spec, gen, precision, big, unit>>

Next ==
    \/ FormatZero \/ Start \/ IntegralDigit \/ FractionalDigit \/ Trim
    \/ Fallback \/ FallbackNone \/ FallbackDigit \/ FallbackLast

Spec == Init /\ [][Next]_vars

-----------------------------------------------------------------------------
RECURSIVE Number(_)
Number(b) == IF b = <<>> THEN 0 ELSE 10 * Number(SubSeq(b, 1, Len(b) - 1)) + b[Len(b)]
RECURSIVE BigValue(_)
BigValue(x) ==
    (IF x.b = <<>> THEN 0 ELSE x.b[1] + Base * BigValue([b |-> Tail(x.b), e |-> 0])) * Base ^ x.e
Ten(x) == 10 ^ (x + 5)    \* powers of ten from 10^-5 on, as integers

\* Whatever path prints the digits (the error of the cached power stayed harmless, or
\* the bigints took over, with every carry and borrow between bigits), the result is
\* the decimal nearest to the number, ties to even, among those of the asked-for length
\* or of MaxDigits digits or places where that is less: format-inl.h:2471 cuts the
\* precision, and a fixed format with more places may print 0 for a small number.
\* Excepted is precision 0 without the fixed format when it reaches fallback_format,
\* which takes it for "no digit" although format-inl.h:1598 says that one is required:
\* it does for a tie, and 0.25 is then printed as 0.
NearestDecimal ==
    (pc = "done" /\ (spec.fixed \/ spec.precision > 0 \/ big.den = Zero)) =>
        LET printed == Number(buf) * Ten(exp)
            last == Ten(unit)
            off == printed * Denom - Numer * 100000
        IN /\ printed % last = 0
           /\ 2 * off <= last * Denom /\ (0 - 2) * off <= last * Denom
           /\ (2 * off = last * Denom \/ (0 - 2) * off = last * Denom) =>
                (printed \div last) % 2 = 0

\* The comment in fallback_format: the digits so far and numerator / denominator make up
\* the number.
QuotientIsTheNumber ==
    pc = "digits" =>
        LET place == exp + precision - 1 - Len(buf)
        IN (Number(buf) * 10 * BigValue(big.den) + BigValue(big.num)) * 10 ^ Larger(place, 0) * Denom
             = Numer * BigValue(big.den) * 10 ^ Larger(0 - place, 0)

\* What grisu_gen_digits is told: the scaled value is off by less than the error of one
\* unit, and its integral part is not 0 (format-inl.h:1514).
ScaledWithinError ==
    (pc = "integral" /\ buf = <<>>) =>
        LET n == Numer * 10 ^ Larger(0 - gen.exp10, 0) * gen.one
            d == Denom * 10 ^ Larger(gen.exp10, 0)
            off == (gen.integral * gen.one + gen.fractional) * d - n
        IN off < d /\ 0 - off < d /\ gen.integral # 0

\* Printing a floating-point number begins with an error of less than one unit, keeps
\* the comment's equation and ends in the nearest decimal.
FmtFloatSound == ScaledWithinError /\ NearestDecimal /\ QuotientIsTheNumber
==============================================================================
