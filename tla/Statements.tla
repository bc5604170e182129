------------------------------ MODULE Statements ------------------------------
(***************************************************************************)
(* What a booking has paid, owes and is late with (owed in                 *)
(* bookings/schedule.py, position and due in bookings/service.py): figures *)
(* computed on demand from the rows of Bookings and the day.               *)
(***************************************************************************)
EXTENDS Bookings, SequencesExt

CONSTANT WithinDays   \* how far ahead the list of what is due looks

\* The route refuses a negative number of days.
ASSUME StatementsAssumption == WithinDays \in Nat

\* Indices of the instalments, oldest first.
OldestFirst(schedule) ==
  CHOOSE order \in [DOMAIN schedule -> DOMAIN schedule] :
    \A i, j \in DOMAIN schedule : i < j => Earlier(schedule, order[i], order[j])

\* Mutant: an instalment paid to the cent is still due.
MoreThanCovers(running, one) == running > one.amount

Covers(running, one) == running >= one.amount

\* Money is put to the instalments in turn, and to none after the first it does
\* not cover.
Cover(schedule, day, walk, i) ==
  LET one == schedule[i]
  IN  IF Covers(walk.running, one)
      THEN [walk EXCEPT !.running = @ - one.amount]
      ELSE [running |-> 0,
            nextDue |-> IF walk.nextDue = 0 THEN i ELSE walk.nextDue,
            overdue |-> walk.overdue \cup (IF one.dueOn < day THEN {i} ELSE {})]

Walk(schedule, received, day) ==
  FoldLeft(LAMBDA walk, i : Cover(schedule, day, walk, i),
           [running |-> received, nextDue |-> 0, overdue |-> {}],
           OldestFirst(schedule))

\* owed: nextDue and overdue name instalments, and nextDue is 0 for none.
Owed(schedule, received, total, day) ==
  LET walk == Walk(schedule, received, day)
  IN  [balance |-> Positive(total - received),
       overpaid |-> Positive(received - total),
       nextDue |-> walk.nextDue,
       overdue |-> walk.overdue]

Position(b) ==
  Owed(booking[b].schedule, booking[b].received, booking[b].terms.total, today)

\* Mutant: only what is late is chased.
DueWhenLate ==
  {b \in BookingIds : /\ Active(b)
                       /\ Position(b).balance > 0
                       /\ Position(b).overdue # {}}

\* The morning list.
Due ==
  {b \in BookingIds :
     /\ Active(b)
     /\ LET position == Position(b)
            next == position.nextDue
        IN  /\ position.balance > 0
            /\ \/ position.overdue # {}
               \/ next # 0 /\ booking[b].schedule[next].dueOn - today <= WithinDays}

-------------------------------------------------------------------------------
Booked == {b \in BookingIds : Exists(b)}

\* What some of the instalments come to.
Asked(schedule, some) ==
  SumFunctionOnSet([i \in DOMAIN schedule |-> schedule[i].amount], some)

Total(schedule) == Asked(schedule, DOMAIN schedule)

\* What was asked for up to and including an instalment.
AskedBy(schedule, i) ==
  Asked(schedule, {j \in DOMAIN schedule : schedule[j].dueOn <= schedule[i].dueOn})

\* The walk over the instalments finds the first one whose running total the
\* money received does not reach, and every instalment late from it on.
WalkFindsTheShortfall ==
  \A b \in Booked :
    LET due == booking[b].schedule
        short == {i \in DOMAIN due : AskedBy(due, i) > booking[b].received}
        position == Position(b)
    IN  /\ position.nextDue = IF short = {} THEN 0
                              ELSE CHOOSE i \in short : \A j \in short : i <= j
        /\ position.overdue = {i \in short : due[i].dueOn < today}

\* "Instalments must sum to the total, exactly", so an account with nothing
\* left to pay is one with no balance, and never "a client owing a cent forever".
SettledMeansNothingDue ==
  \A b \in Booked : /\ Total(booking[b].schedule) = booking[b].terms.total
                    /\ Position(b).balance = 0 <=> Position(b).nextDue = 0

\* "A booking that reaches the airport unpaid is a loss": from WithinDays before
\* arrival on, an active booking with a balance is on the morning list.
UnpaidIsChased ==
  \A b \in Booked :
    /\ Active(b)
    /\ Position(b).balance > 0
    /\ booking[b].terms.arrival - today <= WithinDays
    => b \in Due

\* Recording money never makes an instalment late that was not, and never
\* brings back one that was covered.
PaymentsOnlySettle ==
  [][\A b \in Booked :
       today' = today =>
         /\ Position(b)'.overdue \subseteq Position(b).overdue
         /\ Position(b).nextDue = 0 => Position(b)'.nextDue = 0]_vars

==============================================================================
