------------------------------- MODULE IvArith -------------------------------
(***************************************************************************)
(* Integer arithmetic, pp.c, pp_hot.c and sv.c under PERL_PRESERVE_IVUV.   *)
(* A number is a signed IV, an unsigned UV (SvIsUV) or a floating NV, and  *)
(* the operators have to stay with integers wherever the result is one     *)
(* that fits: an NV cannot hold all of them.  They detect overflow in      *)
(* unsigned arithmetic, with a sign flag for each operand.                 *)
(*                                                                         *)
(* sv is a variable that the operators assign to; what the floating point  *)
(* operators make of a number is not modelled (Double).                    *)
(***************************************************************************)
EXTENDS Integers

CONSTANTS
  H,             \* 2 to the number of bits in half a UV
  Bits,          \* IV_BITS
  PreservesBits, \* NV_PRESERVES_UV_BITS
  BigPower       \* powers are raised whose number of bits does not fit a UV

M == H * H       \* UV_MAX + 1

ASSUME ArithAssumption ==
  /\ H \in Nat \ {0} /\ H % 2 = 0
  /\ Bits \in Nat /\ PreservesBits \in 0 .. Bits
  /\ BigPower \in BOOLEAN

ASSUME BitsAssumption ==
  /\ 2 ^ Bits = M
  /\ 2 ^ 0 = 1 /\ \A k \in 1 .. Bits : 2 ^ k = 2 ^ (k - 1) * 2

VARIABLE sv

IV_MIN == -(M \div 2)
IV_MAX == M \div 2 - 1
UV_MAX == M - 1

\* What a scalar holds.
IV(n) == [is |-> "IV", n |-> n]
UV(n) == [is |-> "UV", n |-> n]
Double == [is |-> "NV", n |-> 0]

Integer == [is : {"IV"}, n : IV_MIN .. IV_MAX] \cup [is : {"UV"}, n : 0 .. UV_MAX]

ArithTypeOK == sv \in Integer \cup {Double}

ArithInit == sv = IV(0)

\* The casts (UV)n and (IV)n.
AsUV(n) == n % M
AsIV(n) == IF AsUV(n) > IV_MAX THEN AsUV(n) - M ELSE AsUV(n)

\* sv_setuv(): an unsigned number that fits an IV becomes one.
SETu(u) == IF u <= IV_MAX THEN IV(u) ELSE UV(u)

\* An operand as a sign flag and an absolute value (auvok and auv).
uvok(a) == a.is = "UV" \/ a.n >= 0
auv(a) == IF uvok(a) THEN a.n ELSE AsUV(0 - a.n)

\* -u, if an IV can hold it
Negated(u) == IF u <= M \div 2 THEN IV(0 - u) ELSE Double

Signed(ok, u) == IF ok THEN SETu(u) ELSE Negated(u)

-----------------------------------------------------------------------------
(* The operators.                                                          *)

\* x and y with their signs are added: the absolute values are, if the signs
\* agree, unless the sum wraps; else they are subtracted.
SumOf(xok, x, yok, y) ==
  IF xok = yok
    THEN IF AsUV(x + y) >= x THEN Signed(xok, AsUV(x + y)) ELSE Double
    ELSE IF x >= y THEN Signed(xok, AsUV(x - y)) ELSE Signed(~xok, AsUV(y - x))

\* The top two bits are equal: adding two such IVs does not overflow.
Small(a) == a.is = "IV" /\ AsUV(a.n) \div (M \div 4) \in {0, 3}

pp_add(a, b) ==
  IF Small(a) /\ Small(b) THEN IV(AsIV(a.n + b.n))
  ELSE SumOf(uvok(a), auv(a), uvok(b), auv(b))

pp_subtract(a, b) ==
  IF Small(a) /\ Small(b) THEN IV(AsIV(a.n - b.n))
  ELSE SumOf(uvok(a), auv(a), ~uvok(b), auv(b))

\* The top half, and the top bit of the lower one, are all equal.
HalfSized(a) == a.is = "IV" /\ -(H \div 2) <= a.n /\ a.n < H \div 2

\* Mutant: the carry out of the last addition is not noticed.
LongTimesShortCarry(x, y, ok) ==
  LET middle == (x \div H) * y
  IN  IF middle < H THEN Signed(ok, AsUV((x % H) * y + AsUV(middle * H))) ELSE Double

\* One absolute value has a high half, x, and a low one; the other is y.
LongTimesShort(x, y, ok) ==
  LET middle == (x \div H) * y
      product == AsUV((x % H) * y + AsUV(middle * H))
  IN  IF middle < H /\ product >= middle * H THEN Signed(ok, product) ELSE Double

pp_multiply(a, b) ==
  LET x == auv(a)
      y == auv(b)
      ok == uvok(a) = uvok(b)
  IN  CASE HalfSized(a) /\ HalfSized(b) -> IV(AsIV(a.n * b.n))
        [] ~(HalfSized(a) /\ HalfSized(b)) /\ x >= H /\ y >= H -> Double
        [] ~(HalfSized(a) /\ HalfSized(b)) /\ x < H /\ y < H -> Signed(ok, AsUV(x * y))
        [] x < H /\ y >= H -> LongTimesShort(y, x, ok)
        [] x >= H /\ y < H -> LongTimesShort(x, y, ok)

\* Tried only if a double could not hold the dividend.
pp_divide(a, b) ==
  LET x == auv(a)
      y == auv(b)
  IN  IF x >= y /\ x > 2 ^ PreservesBits /\ x % y = 0
        THEN Signed(uvok(a) = uvok(b), x \div y)
        ELSE Double

\* The remainder has the sign of the divisor.
pp_modulo(a, b) ==
  LET rest == auv(a) % auv(b)
      ans == IF uvok(a) # uvok(b) /\ rest # 0 THEN auv(b) - rest ELSE rest
  IN  CASE uvok(b) -> SETu(ans)
        [] ~uvok(b) /\ ans <= M \div 2 -> IV(AsIV(0 - ans))
        [] OTHER -> Double

\* The bits of a number: 0 of 0.
BitsOf(u) == CHOOSE k \in 0 .. Bits : u < 2 ^ k /\ \A j \in 0 .. k - 1 : u >= 2 ^ j

\* Squaring and multiplying in a UV.
UVPower(base, power) ==
  LET p[k \in Nat] == IF k = 0 THEN 1 ELSE AsUV(p[k - 1] * base) IN p[power]

\* Powers of a power of two are left to floating point; the others are
\* multiplied out if the bits of the base, times the power, fit.
pp_pow(a, b) ==
  LET base == auv(a)
      isTwos == base \in {0} \cup {2 ^ k : k \in 0 .. Bits - 1}
  IN  IF uvok(b) /\ ~isTwos /\ AsUV(b.n * BitsOf(base)) <= Bits
        THEN Signed(uvok(a) \/ b.n % 2 = 0, UVPower(base, b.n))
        ELSE Double

pp_negate(a) ==
  CASE a.is = "UV" /\ a.n = M \div 2 -> IV(IV_MIN)
    [] a.is = "UV" /\ a.n <= IV_MAX -> IV(0 - a.n)
    [] a.is = "UV" /\ a.n > M \div 2 -> Double
    [] a.is = "IV" -> IF a.n = IV_MIN THEN SETu(M \div 2) ELSE IV(0 - a.n)

pp_abs(a) == SETu(IF uvok(a) THEN a.n ELSE AsUV(0 - (a.n + 1)) + 1)

\* A UV stays one, however small it gets.
sv_inc(a) ==
  CASE a.is = "UV" -> IF a.n = UV_MAX THEN Double ELSE UV(a.n + 1)
    [] a.is = "IV" -> IF a.n = IV_MAX THEN SETu(IV_MAX + 1) ELSE IV(a.n + 1)

sv_dec(a) ==
  CASE a.is = "UV" -> IF a.n = 0 THEN IV(-1) ELSE UV(a.n - 1)
    [] a.is = "IV" -> IF a.n = IV_MIN THEN Double ELSE IV(a.n - 1)

do_ncmp(a, b) ==
  LET Cmp(x, y) == IF x > y THEN 1 ELSE IF x < y THEN -1 ELSE 0
  IN  CASE a.is = b.is -> Cmp(a.n, b.n)
        [] a.is = "IV" /\ b.is = "UV" -> IF a.n < 0 THEN -1 ELSE Cmp(AsUV(a.n), b.n)
        [] a.is = "UV" /\ b.is = "IV" -> IF b.n < 0 THEN 1 ELSE Cmp(a.n, AsUV(b.n))

\* The shift amount: clipped, negative for the other direction.
shift_amount(b) ==
  IF b.n > Bits THEN Bits ELSE IF b.n < -Bits THEN -Bits ELSE b.n

\* u << shift; a negative amount shifts to the right.
uv_shift(u, shift) ==
  CASE shift >= Bits \/ -shift >= Bits -> 0
    [] shift >= 0 /\ shift < Bits -> AsUV(u * 2 ^ shift)
    [] OTHER -> u \div (2 ^ (-shift))

\* The same under "use integer".
iv_shift(i, shift) ==
  CASE shift >= Bits \/ -shift >= Bits -> IF i < 0 /\ shift < 0 THEN -1 ELSE 0
    [] shift >= 0 /\ shift < Bits -> AsIV(AsUV(i) * 2 ^ shift)
    [] OTHER -> i \div (2 ^ (-shift))

pp_left_shift(a, b) == SETu(uv_shift(AsUV(a.n), shift_amount(b)))
pp_right_shift(a, b) == SETu(uv_shift(AsUV(a.n), 0 - shift_amount(b)))

-----------------------------------------------------------------------------
(* The actions: sv is one operand and takes the result.  (What a power is, *)
(* PowerIsExact says; sv ** b is not assigned.)                            *)

Held == sv.is # "NV"

Add(b) == Held /\ sv' = pp_add(sv, b)
Subtract(b) == Held /\ sv' = pp_subtract(sv, b)
Multiply(b) == Held /\ sv' = pp_multiply(sv, b)
Divide(b) == Held /\ b.n # 0 /\ sv' = pp_divide(sv, b)
Modulo(b) == Held /\ b.n # 0 /\ sv' = pp_modulo(sv, b)
Negate == Held /\ sv' = pp_negate(sv)
AbsoluteValue == Held /\ sv' = pp_abs(sv)
Inc == Held /\ sv' = sv_inc(sv)
Dec == Held /\ sv' = sv_dec(sv)
LeftShift(b) == Held /\ sv' = pp_left_shift(sv, b)
RightShift(b) == Held /\ sv' = pp_right_shift(sv, b)
IntegerShift(b) == Held /\ sv' = IV(iv_shift(AsIV(sv.n), shift_amount(b)))

ArithNext ==
  \/ \E b \in Integer : Add(b) \/ Subtract(b) \/ Multiply(b) \/ Divide(b) \/ Modulo(b)
  \/ \E b \in Integer : LeftShift(b) \/ RightShift(b) \/ IntegerShift(b)
  \/ Negate \/ AbsoluteValue \/ Inc \/ Dec

ArithSpec == ArithInit /\ [][ArithNext]_sv

-----------------------------------------------------------------------------
(* Properties: about the number that sv holds, whatever led to it, and any *)
(* second operand.                                                         *)

\* The number n if it is the result of an operator.
Is(result, n) ==
  IF n \in IV_MIN .. UV_MAX THEN result \in Integer /\ result.n = n ELSE result = Double

\* A sum, difference, product, negation, absolute value, successor or
\* predecessor that some integer type can hold is that integer; if none can,
\* it is left to floating point and never wraps.
SumIsExact ==
  Held => \A b \in Integer : /\ Is(pp_add(sv, b), sv.n + b.n)
                             /\ Is(pp_subtract(sv, b), sv.n - b.n)

ProductIsExact ==
  Held => \A b \in Integer : Is(pp_multiply(sv, b), sv.n * b.n)

SuccessorIsExact ==
  Held => /\ Is(sv_inc(sv), sv.n + 1) /\ Is(sv_dec(sv), sv.n - 1)
          /\ Is(pp_negate(sv), 0 - sv.n)
          /\ Is(pp_abs(sv), IF sv.n < 0 THEN 0 - sv.n ELSE sv.n)

\* "$m % $n" is congruent to $m, has the sign of $n and is closer to zero; a
\* quotient that is an integer is the exact one.
RemainderIsExact ==
  Held => \A b \in {i \in Integer : i.n # 0} :
    /\ LET r == pp_modulo(sv, b)
       IN  /\ r \in Integer /\ (r.n - sv.n) % auv(b) = 0 /\ auv(r) < auv(b)
           /\ r.n > 0 => b.n > 0
           /\ r.n < 0 => b.n < 0
    /\ LET q == pp_divide(sv, b) IN q # Double => q \in Integer /\ q.n * b.n = sv.n

\* Two shifts amount to one by their sum, also where that is the width of a
\* UV or more.
ShiftsCompose ==
  Held => \A k, l \in 0 .. Bits :
    /\ uv_shift(uv_shift(AsUV(sv.n), k), l) = uv_shift(AsUV(sv.n), k + l)
    /\ uv_shift(uv_shift(AsUV(sv.n), -k), -l) = uv_shift(AsUV(sv.n), -(k + l))
    /\ iv_shift(iv_shift(AsIV(sv.n), -k), -l) = iv_shift(AsIV(sv.n), -(k + l))

\* The number of bits of sv ** b, at most, fits a UV.
MayRaise(b) == BigPower \/ b.n * BitsOf(auv(sv)) < M

\* "result will definitely fit in UV, so use UV math" (pp_pow): a power that
\* is an integer is the exact one.  The exact one is counted up to M.
PowerIsExact ==
  Held => \A b \in {i \in Integer : MayRaise(i)} :
    LET q == pp_pow(sv, b)
        exact[k \in Nat] == IF k = 0 THEN 1
                            ELSE IF exact[k - 1] >= M THEN M ELSE exact[k - 1] * auv(sv)
    IN  q # Double => q.n = IF uvok(sv) \/ b.n % 2 = 0 THEN exact[b.n] ELSE -exact[b.n]

\* Signed and unsigned numbers are ordered as numbers.
ComparesAsNumbers ==
  Held => \A b \in Integer : /\ do_ncmp(sv, b) = 1 <=> sv.n > b.n
                             /\ do_ncmp(sv, b) = 0 <=> sv.n = b.n

\* What the integer branches of the operators answer, for any operands at
\* either end of either width, is the number that arithmetic gives.
ArithmeticIsExact ==
  /\ SumIsExact /\ ProductIsExact /\ SuccessorIsExact /\ RemainderIsExact
  /\ ShiftsCompose /\ PowerIsExact /\ ComparesAsNumbers

=============================================================================
