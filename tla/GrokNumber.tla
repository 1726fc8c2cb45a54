------------------------------ MODULE GrokNumber ------------------------------
(***************************************************************************)
(* The digits of a text become a number, numeric.c: grok_number() for      *)
(* decimal, grok_bin_oct_hex(), and grok_atoUV(), then sv_2iv() for a      *)
(* string that is used as a number.  The digits are multiplied up in a UV; *)
(* the first ones, too few to overflow, without a check.                   *)
(*                                                                         *)
(* A character is a digit or an underscore; white space, radix point,      *)
(* exponent, "Inf" and trailing garbage are left out, and an NV is exact.  *)
(***************************************************************************)
EXTENDS IvArith

CONSTANTS
  Base,        \* of grok_bin_oct_hex()
  LogBase,     \* Base is 2 ^ LogBase
  Unrolled,    \* the digits that each function takes without a check
  MaxExact,    \* bound: the number that is written
  MaxDigits    \* bound: its digits, leading zeros included

Fns == {"grok_number", "grok_bin_oct_hex", "grok_atoUV"}

BaseOf(fn) == IF fn = "grok_bin_oct_hex" THEN Base ELSE 10

ASSUME GrokAssumption ==
  /\ Base \in Nat /\ Base > 1 /\ LogBase \in Nat /\ MaxExact \in Nat /\ MaxDigits \in Nat
  /\ M % Base = 0 /\ M > 10
  /\ Unrolled \in [Fns -> Nat]
  /\ \A fn \in Fns : \A n \in 0 .. Unrolled[fn] :
       /\ BaseOf(fn) ^ n \in 1 .. M
       /\ n > 0 => BaseOf(fn) ^ n = BaseOf(fn) ^ (n - 1) * BaseOf(fn)

ASSUME LogBaseAssumption == Base = 2 ^ LogBase

VARIABLES
  text,    \* the state of the function that reads the text
  exact    \* what a reader makes of the digits so far: no variable of the code

grok_vars == <<text, exact>>

GrokTypeOK ==
  /\ exact \in Nat
  /\ text \in [fn : Fns, neg : BOOLEAN, digits : Nat, unrolled : BOOLEAN,
               value : 0 .. UV_MAX, value_nv : Nat, factor : Nat, overflowed : BOOLEAN]
  /\ text.overflowed => ~text.unrolled

GrokInit ==
  /\ exact = 0
  /\ text \in [fn : Fns, neg : BOOLEAN, digits : {0}, unrolled : {TRUE},
               value : {0}, value_nv : {0}, factor : {LogBase}, overflowed : {FALSE}]
  /\ text.neg => text.fn = "grok_number"

B == BaseOf(text.fn)

-----------------------------------------------------------------------------
(* A digit more in a UV.                                                   *)

\* Mutant: the digit is not looked at when the value is the last that fits.
FitsLoose(d) == text.value <= UV_MAX \div B

\* value * B + d does not overflow (max_div; uv_max_div_10, uv_max_mod_10).
Fits(d) ==
  IF text.fn = "grok_bin_oct_hex" THEN text.value <= UV_MAX \div B
  ELSE \/ text.value < UV_MAX \div B
       \/ text.value = UV_MAX \div B /\ d <= UV_MAX % B

Multiplied(d) == AsUV(text.value * B + d)

\* Without a check.  factor becomes LogBase << digits, by the end.
Unchecked(d) ==
  [text EXCEPT !.value = Multiplied(d), !.digits = @ + 1, !.factor = 2 * @]

\* What has been read is added to value_nv, and value starts again.
Restarted(d) ==
  [text EXCEPT !.value_nv = @ * text.factor + text.value, !.value = d,
               !.factor = B, !.overflowed = TRUE]

\* Once a number is known to be too large, grok_number() skips its digits
\* and grok_atoUV() has failed.
Checked(d) ==
  LET next == CASE text.fn = "grok_bin_oct_hex" /\ ~Fits(d) -> Restarted(d)
                [] text.fn = "grok_bin_oct_hex" /\ Fits(d) ->
                     [text EXCEPT !.value = Multiplied(d), !.factor = @ * B]
                [] text.fn # "grok_bin_oct_hex" /\ (text.overflowed \/ ~Fits(d)) ->
                     [text EXCEPT !.overflowed = TRUE]
                [] OTHER -> [text EXCEPT !.value = Multiplied(d)]
  IN  [next EXCEPT !.unrolled = FALSE, !.digits = @ + 1]

\* What sv_2iv() makes of a string of the digits so far.
sv_2iuv_common ==
  IF text.overflowed THEN Double ELSE Signed(~text.neg, text.value)

-----------------------------------------------------------------------------
(* The actions.                                                            *)

Read(d, next) ==
  /\ exact * B + d < MaxExact /\ text.digits < MaxDigits
  /\ d < B
  /\ text' = next
  /\ exact' = exact * B + d

\* grok_atoUV() wants no leading zero.
Digit(d) ==
  /\ text.fn = "grok_atoUV" /\ text.digits > 0 => exact > 0
  /\ Read(d, IF text.unrolled /\ text.digits < Unrolled[text.fn] THEN Unchecked(d)
                                                                ELSE Checked(d))

\* An underscore and a digit: the first one ends the unchecked digits.
Underscore(d) ==
  /\ text.fn = "grok_bin_oct_hex"
  /\ Read(d, Checked(d))

GrokNext == \E d \in 0 .. B - 1 : Digit(d) \/ Underscore(d)

GrokSpec == GrokInit /\ [][GrokNext]_grok_vars

-----------------------------------------------------------------------------
(* Properties.                                                             *)

\* Before and after overflow: what has been read is the number that is
\* written, and it counts as too large for a UV exactly if it is.
ReadsTheNumber ==
  /\ text.overflowed <=> exact > UV_MAX
  /\ ~text.overflowed => text.value = exact
  /\ text.overflowed /\ text.fn = "grok_bin_oct_hex" =>
       text.value_nv * text.factor + text.value = exact

\* A string of digits becomes the integer that is written, if some integer
\* type holds it.
StringIsNumber ==
  text.digits > 0 => Is(sv_2iuv_common, IF text.neg THEN 0 - exact ELSE exact)

\* A text becomes the number it spells, in an integer type or flagged as too
\* large for one, at every length and with either sign.
TextIsItsNumber == ReadsTheNumber /\ StringIsNumber

=============================================================================
