------------------------------ MODULE Decimals ------------------------------
(***************************************************************************)
(* Decimal floating point as Python's decimal module computes it: a number *)
(* is coefficient * 10^exponent, and every operation rounds its exact      *)
(* result to the precision of the context, half to even.  The default      *)
(* context of the program has 28 digits; Digits is the bound of a model.   *)
(***************************************************************************)
EXTENDS Integers, Folds

CONSTANT Digits  \* precision of the context

Ten == [n \in 0 .. 9 |-> 10 ^ n]

Num(c, e) == [c |-> c, e |-> e]
Zero == Num(0, 0)
Whole(n) == Num(n, 0)

Size(n) == IF n < 0 THEN - n ELSE n

\* Decimal digits of a natural number.
Length(n) == IF n = 0 THEN 1 ELSE CHOOSE k \in 1 .. 9 : Ten[k - 1] <= n /\ (k = 9 \/ n < Ten[k])

\* n / d to an integer: away from zero, toward zero, or to the nearest one with
\* ties to even or away from zero.
Nearest(n, d, mode) ==
    LET q == Size(n) \div d
        r == Size(n) % d
        tie == mode = "ROUND_HALF_UP" \/ q % 2 = 1
        up == CASE mode = "ROUND_UP" -> r > 0
                [] mode = "ROUND_DOWN" -> FALSE
                [] OTHER -> 2 * r > d \/ (2 * r = d /\ tie)
        size == IF up THEN q + 1 ELSE q
    IN  IF n < 0 THEN - size ELSE size

\* An exact integer multiple of 10^e, in the precision of the context.
Fit(n, e) ==
    LET over == Length(Size(n)) - Digits IN
    IF over <= 0 THEN Num(n, e) ELSE Num(Nearest(n, Ten[over], "ROUND_HALF_EVEN"), e + over)

Times(a, b) == Fit(a.c * b.c, a.e + b.e)

Plus(a, b) ==
    LET e == IF a.e < b.e THEN a.e ELSE b.e
    IN  Fit(a.c * Ten[a.e - e] + b.c * Ten[b.e - e], e)

\* The quotient is rounded once, from its exact value.
Over(a, b) ==
    LET n == a.c * Ten[Digits + 1]
        spare == Length(Size(n) \div b.c) - Digits
        drop == IF spare > 0 THEN spare ELSE 0
    IN  Num(Nearest(n, b.c * Ten[drop], "ROUND_HALF_EVEN"), a.e - b.e - (Digits + 1) + drop)

\* quantize: whole units of 10^-scale.
Quantized(a, scale, mode) ==
    IF a.e + scale >= 0 THEN a.c * Ten[a.e + scale] ELSE Nearest(a.c, Ten[- (a.e + scale)], mode)

\* The integer part and whether anything is left.
Truncated(a) == IF a.e >= 0 THEN a.c * Ten[a.e] ELSE a.c \div Ten[- a.e]
HasFraction(a) == a.e < 0 /\ a.c % Ten[- a.e] # 0
=============================================================================
