-------------------------------- MODULE Clock --------------------------------
(***************************************************************************)
(* The calendar every request reads with date.today().  Days are integers; *)
(* a year is a run of YearLength days, which is all the code takes from a  *)
(* date when it numbers a booking.                                         *)
(***************************************************************************)
EXTENDS Integers

CONSTANTS
  Horizon,      \* last day explored (a bound: the calendar has none)
  YearLength    \* days in a year (scaled down)

ASSUME ClockAssumption ==
  /\ Horizon \in Nat
  /\ YearLength \in Nat \ {0}

VARIABLE today

Days == 0..Horizon
YearOf(day) == day \div YearLength
Years == {YearOf(day) : day \in Days}

Tick == /\ today < Horizon
        /\ today' = today + 1

==============================================================================
