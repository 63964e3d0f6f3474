------------------------------ MODULE Decimals ------------------------------
(***************************************************************************)
(* Numbers as text: parse_fixed and format_fixed (domain/src/money.rs),    *)
(* the way an amount takes from a request into raw units and back onto a   *)
(* page, and pct (ui/src/api.ts), which shows a return as a percentage.    *)
(* A text is its signs ("none" when it has none), a run of digits, and the *)
(* runs that follow a dot each; a run is its value and its width, 0 when   *)
(* it is empty.                                                            *)
(***************************************************************************)
EXTENDS Money, Digits, Sequences

CONSTANTS
  ScaleDigits,           \* SCALE_DIGITS
  Dp,                    \* the decimals of a percentage
  Wholes, Fractions,     \* the runs of digits before and after a dot
  Signs                  \* what can stand before the digits

ASSUME DecimalsAssumption ==
  /\ ScaleDigits \in Nat \ {0} /\ Dp \in Nat
  /\ \A run \in Wholes \cup Fractions : run.width \in Nat /\ run.value \in 0..TenTo(run.width) - 1
  /\ {"none", "+", "-"} \subseteq Signs

Scale == TenTo(ScaleDigits)
Empty == [value |-> 0, width |-> 0]

(* padded: there are blanks before it, after it or both.  stray: somewhere *)
(* within it there is a character, a blank too, that is no digit, dot or   *)
(* sign.                                                                   *)
Texts ==
  [sign : Signs, whole : Wholes \cup {Empty}, padded : BOOLEAN, stray : BOOLEAN,
   dots : {<<>>} \cup {<<f>> : f \in Fractions \cup {Empty}}
            \cup {<<f, g>> : f \in Fractions, g \in {Empty}}]

ASSUME NoTextAssumption == None \notin Texts

FractionOf(t) == IF t.dots = <<>> THEN Empty ELSE t.dots[1]

-----------------------------------------------------------------------------
(* str::trim.                                                              *)
Trimmed(t) == [t EXCEPT !.padded = FALSE]

(* What has a number at all: one sign at most, digits on both sides of a   *)
(* dot, no second dot, nothing else.                                       *)
IsDecimal(t) ==
  /\ ~ t.padded /\ ~ t.stray /\ t.sign \in {"none", "+", "-"}
  /\ t.whole.width > 0 /\ Len(t.dots) <= 1
  /\ t.dots # <<>> => t.dots[1].width > 0

Admitted(t, allow_negative) == IsDecimal(t) /\ (t.sign = "-" => allow_negative)

(* Mutant: digits beyond the scale are cut off.                            *)
ParseFixedCuts(t, allow_negative) ==
  LET f == FractionOf(t)
      frac == IF f.width > ScaleDigits THEN f.value \div TenTo(f.width - ScaleDigits)
              ELSE f.value * TenTo(ScaleDigits - f.width)
      raw == t.whole.value * Scale + frac
  IN  IF ~ (Admitted(Trimmed(t), allow_negative) /\ Fits(raw)) THEN None
      ELSE IF t.sign = "-" THEN - raw ELSE raw

(* parse_fixed; None for each of its errors.                               *)
ParseFixed(t, allow_negative) ==
  LET f == FractionOf(t)
      raw == t.whole.value * Scale + f.value * TenTo(ScaleDigits - f.width)
  IN  IF ~ (Admitted(Trimmed(t), allow_negative) /\ f.width <= ScaleDigits /\ Fits(raw))
      THEN None
      ELSE IF t.sign = "-" THEN - raw ELSE raw

(* Money::parse and Px::parse.                                             *)
ParseMoney(t) == ParseFixed(t, TRUE)
ParsePx(t) == LET raw == ParseFixed(t, FALSE) IN IF raw \in Pxs THEN raw ELSE None

(* Mutant: the digits after the dot lose their leading zeros.              *)
FormatFixedUnpadded(raw) ==
  LET size == IF raw < 0 THEN - raw ELSE raw
  IN  [sign |-> IF raw < 0 THEN "-" ELSE "none", padded |-> FALSE, stray |-> FALSE,
       whole |-> [value |-> size \div Scale, width |-> Width(size \div Scale)],
       dots |-> <<[value |-> size % Scale, width |-> Width(size % Scale)]>>]

FormatFixed(raw) ==
  LET size == IF raw < 0 THEN - raw ELSE raw
  IN  [sign |-> IF raw < 0 THEN "-" ELSE "none", padded |-> FALSE, stray |-> FALSE,
       whole |-> [value |-> size \div Scale, width |-> Width(size \div Scale)],
       dots |-> <<[value |-> size % Scale, width |-> ScaleDigits]>>]

-----------------------------------------------------------------------------
(* The digits of a text as one number, and the power of ten it is over.    *)
Digits(t) == t.whole.value * TenTo(FractionOf(t).width) + FractionOf(t).value
Over(t) == TenTo(FractionOf(t).width)

Signed(negative, size) ==
  [sign |-> IF size = 0 THEN "none" ELSE IF negative THEN "-" ELSE "+", size |-> size]

(* Mutant: the digits that do not fit are dropped.                         *)
PctCut(t) == Signed(t.sign = "-", (Digits(t) * TenTo(2 + Dp)) \div Over(t))

(* pct: the digits that fit, one more unit if the next digit is 5 or more. *)
Pct(t) ==
  LET fit == (Digits(t) * TenTo(2 + Dp)) \div Over(t)
      next == ((Digits(t) * TenTo(3 + Dp)) \div Over(t)) % 10
  IN  Signed(t.sign = "-", IF next >= 5 THEN fit + 1 ELSE fit)

(* rust_decimal's round_dp to the same decimals: a tie goes to the even.   *)
RoundDp(t) ==
  LET fit == (Digits(t) * TenTo(2 + Dp)) \div Over(t)
      rest == (Digits(t) * TenTo(2 + Dp)) % Over(t)
      up == 2 * rest > Over(t) \/ (2 * rest = Over(t) /\ fit % 2 = 1)
  IN  Signed(t.sign = "-", IF up THEN fit + 1 ELSE fit)

-----------------------------------------------------------------------------
VARIABLES
  text,      \* an amount in a request, or a return in an answer
  raw,       \* the units the server takes the amount for
  shown,     \* how it writes them
  percent    \* how the cockpit shows the return

decimal_vars == <<text, raw, shown, percent>>

DecimalsInit == text \in Texts /\ raw = None /\ shown = None /\ percent = None

Take ==
  /\ raw = None
  /\ raw' \in {ParseMoney(text), ParsePx(text)} \ {None}
  /\ UNCHANGED <<text, shown, percent>>

Show ==
  /\ raw # None /\ shown = None
  /\ shown' = FormatFixed(raw)
  /\ UNCHANGED <<text, raw, percent>>

(* A Decimal is printed without a plus, and always has a whole part.       *)
ShowReturn ==
  /\ percent = None /\ raw = None
  /\ IsDecimal(text) /\ text.sign # "+"
  /\ percent' = Pct(text)
  /\ UNCHANGED <<text, raw, shown>>

DecimalsNext == Take \/ Show \/ ShowReturn

DecimalsSpec == DecimalsInit /\ [][DecimalsNext]_decimal_vars
=============================================================================
