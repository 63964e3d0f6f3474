------------------------------ MODULE Calendar ------------------------------
(***************************************************************************)
(* A trading day as text (domain/src/time.rs): TradingDay::parse, the form *)
(* Display gives it, and the way a day takes from a request into a journal *)
(* row and, at the next start, back.  A text is a year, a month and a day  *)
(* between dashes, each with the blanks before it and its digits counted;  *)
(* a year may have a sign, or "none".  What chrono accepts and prints is   *)
(* external.                                                               *)
(***************************************************************************)
EXTENDS Digits

CONSTANTS NoDay, Years, MonthNumbers, DayNumbers, MaxBlanks, MaxWidth

ASSUME CalendarAssumption ==
  /\ Years \subseteq Nat /\ MonthNumbers \subseteq Nat /\ DayNumbers \subseteq Nat
  /\ MaxBlanks \in Nat /\ MaxWidth \in Nat
  /\ NoDay \notin [year : Int, month : Int, day : Int]

(* A number as it is written: the blanks before it and its digits.         *)
Numerals(values) ==
  {f \in [value : values, width : 1..MaxWidth, blanks : 0..MaxBlanks] :
     f.value < TenTo(f.width)}

DayTexts == [sign : {"none", "+", "-"}, year : Numerals(Years),
             month : Numerals(MonthNumbers), day : Numerals(DayNumbers)]

ASSUME NoDayAssumption == NoDay \notin DayTexts

Size(f) == f.blanks + f.width
Length(t) == (IF t.sign = "none" THEN 0 ELSE 1) + Size(t.year) + 1 + Size(t.month)
                + 1 + Size(t.day)

-----------------------------------------------------------------------------
(***************************************************************************)
(* chrono: the calendar, NaiveDate::parse_from_str with %Y-%m-%d, which    *)
(* passes over blanks and limits the digits of a year without a sign only, *)
(* and its opposite, which gives a year of five digits or below zero a     *)
(* sign.                                                                   *)
(***************************************************************************)
Leap(y) == y % 4 = 0 /\ (y % 100 # 0 \/ y % 400 = 0)
DaysIn(y, m) == CASE m \in {4, 6, 9, 11} -> 30
                  [] m = 2 -> IF Leap(y) THEN 29 ELSE 28
                  [] OTHER -> 31

YearOf(t) == IF t.sign = "-" THEN - t.year.value ELSE t.year.value

IsDate(t) ==
  /\ t.sign = "none" => t.year.width <= 4
  /\ t.month.width <= 2 /\ t.month.value \in 1..12
  /\ t.day.width <= 2 /\ t.day.value \in 1..DaysIn(YearOf(t), t.month.value)

DateOf(t) == [year |-> YearOf(t), month |-> t.month.value, day |-> t.day.value]

Padded(n, w) == [value |-> n, width |-> IF Width(n) < w THEN w ELSE Width(n),
                 blanks |-> 0]

(* Mutant: a year is printed without its leading zeros.                    *)
DisplayUnpadded(d) ==
  LET size == IF d.year < 0 THEN - d.year ELSE d.year
  IN  [sign |-> IF d.year \in 0..9999 THEN "none" ELSE IF d.year < 0 THEN "-" ELSE "+",
       year |-> Padded(size, 1), month |-> Padded(d.month, 2), day |-> Padded(d.day, 2)]

Display(d) ==
  LET size == IF d.year < 0 THEN - d.year ELSE d.year
  IN  [sign |-> IF d.year \in 0..9999 THEN "none" ELSE IF d.year < 0 THEN "-" ELSE "+",
       year |-> Padded(size, 4), month |-> Padded(d.month, 2), day |-> Padded(d.day, 2)]

-----------------------------------------------------------------------------
(* Mutant: the length is not looked at.                                    *)
ParseAnyLength(t) == IF IsDate(t) THEN DateOf(t) ELSE NoDay

(* TradingDay::parse.                                                      *)
Parse(t) == IF Length(t) = 10 /\ IsDate(t) THEN DateOf(t) ELSE NoDay

VARIABLES
  asked,   \* the day of a request
  day,     \* what the server takes it for
  row,     \* the day in the journal row
  back     \* what the next start reads there; NoDay also before it does

calendar_vars == <<asked, day, row, back>>

CalendarInit == asked \in DayTexts /\ day = NoDay /\ row = NoDay /\ back = NoDay

Ask == /\ day = NoDay /\ Parse(asked) # NoDay
       /\ day' = Parse(asked)
       /\ UNCHANGED <<asked, row, back>>

Journal == /\ day # NoDay /\ row = NoDay
           /\ row' = Display(day)
           /\ UNCHANGED <<asked, day, back>>

Reopen == /\ row # NoDay /\ back = NoDay /\ Parse(row) # NoDay
          /\ back' = Parse(row)
          /\ UNCHANGED <<asked, day, row>>

CalendarNext == Ask \/ Journal \/ Reopen

CalendarSpec == CalendarInit /\ [][CalendarNext]_calendar_vars
=============================================================================
