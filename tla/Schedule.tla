------------------------------- MODULE Schedule -------------------------------
(***************************************************************************)
(* The instalments a booking implies (bookings/schedule.py).  Amounts are  *)
(* whole cents, as the Numeric(14, 2) columns hold them.  A schedule is    *)
(* the sequence of its instalments in sort_order; labels and the currency  *)
(* are left out, because one booking has one currency.                     *)
(***************************************************************************)
EXTENDS Integers

Instalments == [dueOn : Int, amount : Int]

\* build returns a full payment, or a deposit and a balance.
Schedules == [1..1 -> Instalments] \cup [1..2 -> Instalments]

Positive(n) == IF n > 0 THEN n ELSE 0

\* quantize(CENTS, ROUND_HALF_UP) of a quotient of non-negative integers.
RoundHalfUp(numerator, denominator) ==
  (2 * numerator + denominator) \div (2 * denominator)

Deposit(total, pct) == RoundHalfUp(total * pct, 100)

BalanceDay(travelFrom, daysBefore) == travelFrom - Positive(daysBefore)

\* Every other input is refused (ScheduleRefused).
CanBuild(total, pct) == total > 0 /\ pct \in 1..100

\* Mutant: the balance as a second percentage.
BuildTwoPercentages(total, pct, travelFrom, daysBefore, day) ==
  << [dueOn |-> day, amount |-> Deposit(total, pct)],
     [dueOn |-> BalanceDay(travelFrom, daysBefore), amount |-> Deposit(total, 100 - pct)] >>

Build(total, pct, travelFrom, daysBefore, day) ==
  LET deposit == Deposit(total, pct)
      balanceOn == BalanceDay(travelFrom, daysBefore)
  IN  IF total - deposit <= 0 \/ balanceOn <= day
      THEN << [dueOn |-> day, amount |-> total] >>
      ELSE << [dueOn |-> day, amount |-> deposit],
              [dueOn |-> balanceOn, amount |-> total - deposit] >>

\* The order of (due_on, sort_order).
Earlier(schedule, i, j) ==
  \/ schedule[i].dueOn < schedule[j].dueOn
  \/ schedule[i].dueOn = schedule[j].dueOn /\ i < j

\* The instalment is_confirmable measures against.
Opening(schedule) ==
  schedule[CHOOSE i \in DOMAIN schedule :
             \A j \in DOMAIN schedule \ {i} : Earlier(schedule, i, j)]

IsConfirmable(schedule, received) == received >= Opening(schedule).amount

==============================================================================
