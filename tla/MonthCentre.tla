----------------------------- MODULE MonthCentre -----------------------------
(***************************************************************************)
(* Interpolation of twelve monthly fields between the centres of the       *)
(* months.  Time is counted in half days from the first of January of      *)
(* FirstYear, the unit in which every month centre is whole.               *)
(***************************************************************************)
EXTENDS Integers, Functions

CONSTANT FirstYear    \* a year before that of any time

ASSUME FirstYearAssumption == FirstYear \in Nat

Leap(year) == year % 4 = 0 /\ (year % 100 # 0 \/ year % 400 = 0)
Days(year, month) ==
  CASE month \in {4, 6, 9, 11} -> 30
    [] month = 2 -> IF Leap(year) THEN 29 ELSE 28
    [] OTHER -> 31

MonthStart(year, month) ==
  2 * (SumFunction([y \in FirstYear .. year - 1 |-> IF Leap(y) THEN 366 ELSE 365])
       + SumFunction([m \in 1 .. month - 1 |-> Days(year, m)]))

Within(time, year, month) ==
  time - MonthStart(year, month) \in 0 .. 2 * Days(year, month) - 1

(* The months on either side (0 is January) and how far between their      *)
(* centres the time is, as done half days of span.                         *)
MonthCentreInterpolation(time) ==
  LET year  == CHOOSE y \in FirstYear .. FirstYear + 3 :
                 \E m \in 1 .. 12 : Within(time, y, m)
      month == CHOOSE m \in 1 .. 12 : Within(time, year, m)
      start == MonthStart(year, month)
      next  == IF month = 12 THEN MonthStart(year + 1, 1)
               ELSE MonthStart(year, month + 1)
      following == IF month >= 11 THEN MonthStart(year + 1, (month + 2) % 12)
                   ELSE MonthStart(year, month + 2)
      previous  == IF month = 1 THEN MonthStart(year - 1, 12)
                   ELSE MonthStart(year, month - 1)
      centre == start + (next - start) \div 2
      after  == next + (following - next) \div 2
      before == previous + (start - previous) \div 2
  IN  IF time >= centre
      THEN [first |-> month - 1, second |-> month % 12,
            done |-> time - centre, span |-> after - centre]
      ELSE [first |-> (month + 10) % 12, second |-> month - 1,
            done |-> time - before, span |-> centre - before]

(* YearPhase: how far a time is into its year, of how long a one.          *)
YearPhase(time) ==
  LET year  == CHOOSE y \in FirstYear .. FirstYear + 3 :
                 \E m \in 1 .. 12 : Within(time, y, m)
      start == MonthStart(year, 1)
  IN  [done |-> time - start, span |-> MonthStart(year + 1, 1) - start]
=============================================================================
