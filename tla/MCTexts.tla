------------------------------- MODULE MCTexts ------------------------------
(***************************************************************************)
(* What travels as text: a day in every spelling of up to MaxWidth digits  *)
(* a number, or a number of any shape, with amounts up to and past the     *)
(* largest and returns whose next digits are below, at and above the half. *)
(***************************************************************************)
EXTENDS Calendar, Decimals

SomeDigits == {0, 1, 4, 5, 9}

SomeWholes ==
  {[value |-> v, width |-> w] : v \in {0, 1, 9}, w \in 1..2}
    \cup {[value |-> v, width |-> 2] : v \in {12, 13, 99}}

RunOf(digits, w) ==
  LET value[n \in 0..w] == IF n = 0 THEN 0 ELSE 10 * value[n - 1] + digits[n]
  IN  [value |-> value[w], width |-> w]

SomeFractions ==
  UNION {{RunOf(digits, w) : digits \in [1..w -> SomeDigits]} : w \in 1..4}

SomeSigns == {"none", "+", "-", "--", "-+"}

DayIdle == asked = NoDay /\ day = NoDay /\ row = NoDay /\ back = NoDay
NumberIdle == text = None /\ raw = None /\ shown = None /\ percent = None

TextsSpec ==
  /\ (CalendarInit /\ NumberIdle) \/ (DecimalsInit /\ DayIdle)
  /\ [][\/ NumberIdle /\ CalendarNext /\ UNCHANGED decimal_vars
        \/ DayIdle /\ DecimalsNext /\ UNCHANGED calendar_vars]_<<calendar_vars, decimal_vars>>

-----------------------------------------------------------------------------
Plain(t) == t.sign = "none" /\ t.year.blanks = 0 /\ t.month.blanks = 0 /\ t.day.blanks = 0

(* Of digits and dashes alone only the form the journal writes is taken:   *)
(* the length check leaves a short year, month or day nothing to make up   *)
(* for a missing digit elsewhere.                                          *)
PlainTextIsCanonical == row # NoDay /\ Plain(asked) => row = asked

(* A day that was accepted with a plain year is read back from its row as  *)
(* the very day that was closed.                                           *)
DaysReadBack ==
  row # NoDay /\ asked.sign = "none" =>
    /\ Parse(row) = day
    /\ back # NoDay => back = day

(* So every closed day is one day, before and after a restart.             *)
DaysAreKept == PlainTextIsCanonical /\ DaysReadBack

(* A day has one accepted spelling.  Not so: see the README.               *)
OneSpelling == row # NoDay => row = asked
(* No amount is guessed: a text that is accepted says exactly the number   *)
(* that is kept, to the last of its digits, and nothing is made of one     *)
(* with another sign or dot, with another character than blanks around it, *)
(* or without digits around its dot (money.rs, parse_fixed).               *)
NothingIsGuessed ==
  raw # None =>
    /\ ~ text.stray /\ text.sign \in {"none", "+", "-"} /\ text.whole # Empty
    /\ Len(text.dots) <= 1 /\ (text.dots # <<>> => text.dots[1] # Empty)
    /\ raw * Over(text) = Scale * (IF text.sign = "-" THEN - Digits(text) ELSE Digits(text))

(* Every amount the server shows is one it accepts, and takes for the same *)
(* amount; a price it shows is accepted as a price.                        *)
AmountsReadBack ==
  shown # None =>
    /\ ParseMoney(shown) = raw
    /\ raw > 0 => ParsePx(shown) = raw

(* So an amount is one amount, coming and going.                           *)
AmountsAreKept == NothingIsGuessed /\ AmountsReadBack

(* The cockpit's percentage is the nearest one, and only one shown as      *)
(* nothing has no sign.                                                    *)
PercentsAreNearest ==
  percent # None =>
    LET exact == Digits(text) * TenTo(2 + Dp)
        gap == percent.size * Over(text) - exact
    IN  /\ -Over(text) <= 2 * gap /\ 2 * gap <= Over(text)
        /\ percent.sign = "-" => text.sign = "-"
        /\ percent.sign = "+" => text.sign # "-"
        /\ percent.sign = "none" <=> percent.size = 0

(* The percentage is rounded as the backend's round_dp rounds (api.ts).    *)
(* Not so at a tie: see the README.                                        *)
PercentsRoundAsTheBackend == percent # None => percent = RoundDp(text)
=============================================================================
