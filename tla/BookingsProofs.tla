---------------------------- MODULE BookingsProofs ----------------------------
(***************************************************************************)
(* Theorems about Bookings and about what a booking is said to owe, for    *)
(* any number of requests, bookings, terms, payments and days.  A schedule *)
(* has one instalment or two, so the walk over it is unfolded.             *)
(***************************************************************************)
EXTENDS BookingsProps, Statements, SumProofs, FunctionTheorems

-------------------------------------------------------------------------------
(***************************************************************************)
(* Schedules                                                               *)
(***************************************************************************)

LEMMA QuotientIsInt ==
  ASSUME NEW n \in Int, NEW d \in Nat \ {0}
  PROVE  n \div d \in Int
OBVIOUS

LEMMA DepositIsInt ==
  ASSUME NEW total \in Int, NEW pct \in Int
  PROVE  Deposit(total, pct) \in Int
<1>1. total * pct \in Int
  OBVIOUS
<1>2. 2 * (total * pct) + 100 \in Int /\ 2 * 100 \in Nat \ {0}
  BY <1>1
<1>. QED
  BY <1>2, QuotientIsInt DEF Deposit, RoundHalfUp

\* build returns a schedule, whatever the figures and the dates.
LEMMA BuildIsSchedule ==
  ASSUME NEW total \in Int, NEW pct \in Int, NEW travelFrom \in Int,
         NEW daysBefore \in Int, NEW day \in Int
  PROVE  Build(total, pct, travelFrom, daysBefore, day) \in Schedules
<1>. DEFINE deposit == Deposit(total, pct)
            balanceOn == BalanceDay(travelFrom, daysBefore)
            full == [dueOn |-> day, amount |-> total]
            first == [dueOn |-> day, amount |-> deposit]
            second == [dueOn |-> balanceOn, amount |-> total - deposit]
<1>1. deposit \in Int
  BY DepositIsInt
<1>2. balanceOn \in Int
  BY DEF BalanceDay, Positive
<1>3. full \in Instalments /\ first \in Instalments /\ second \in Instalments
  BY <1>1, <1>2 DEF Instalments
<1>. HIDE DEF deposit, balanceOn, full, first, second
<1>4. <<full>> \in [1..1 -> Instalments]
  BY <1>3
<1>5. <<first, second>> \in [1..2 -> Instalments]
  BY <1>3
<1>6. \/ Build(total, pct, travelFrom, daysBefore, day) = <<full>>
      \/ Build(total, pct, travelFrom, daysBefore, day) = <<first, second>>
  BY DEF Build, full, first, second, deposit, balanceOn
<1>. QED
  BY <1>4, <1>5, <1>6 DEF Schedules

\* There is an instalment due before every other, and Opening is it.
LEMMA OpeningIsThere ==
  ASSUME NEW schedule \in Schedules
  PROVE  \E i \in DOMAIN schedule : Opening(schedule) = schedule[i]
<1>. DEFINE IsFirst(i) == \A j \in DOMAIN schedule \ {i} : Earlier(schedule, i, j)
<1>1. \E i \in DOMAIN schedule : IsFirst(i)
  <2>1. CASE schedule \in [1..1 -> Instalments]
    BY <2>1
  <2>2. CASE schedule \in [1..2 -> Instalments]
    <3>1. DOMAIN schedule = {1, 2}
      BY <2>2
    <3>2. schedule[1].dueOn \in Int /\ schedule[2].dueOn \in Int
      BY <2>2 DEF Instalments
    <3>3. IsFirst(1) \/ IsFirst(2)
      BY <3>1, <3>2 DEF Earlier
    <3>. QED
      BY <3>1, <3>3
  <2>. QED
    BY <2>1, <2>2 DEF Schedules
<1>2. Opening(schedule) = schedule[CHOOSE i \in DOMAIN schedule : IsFirst(i)]
  BY DEF Opening
<1>. HIDE DEF IsFirst
<1>3. (CHOOSE i \in DOMAIN schedule : IsFirst(i)) \in DOMAIN schedule
  BY <1>1
<1>. QED
  BY <1>2, <1>3

LEMMA OpeningIsInstalment ==
  ASSUME NEW schedule \in Schedules
  PROVE  Opening(schedule) \in Instalments
BY OpeningIsThere DEF Schedules

\* Money on top of what confirms a booking still confirms it.
LEMMA MoreConfirms ==
  ASSUME NEW schedule \in Schedules, NEW received \in Int, NEW more \in Int,
         received <= more, IsConfirmable(schedule, received)
  PROVE  IsConfirmable(schedule, more)
<1>1. Opening(schedule).amount \in Int
  BY OpeningIsInstalment DEF Instalments
<1>. QED
  BY <1>1 DEF IsConfirmable

-------------------------------------------------------------------------------
(***************************************************************************)
(* The shape of the state                                                  *)
(***************************************************************************)

LEMMA YearsOfDays == \A day \in Days : YearOf(day) \in Years
BY DEF Years

LEMMA ZeroIsAYear == 0 \in Days /\ 0 \in Years
<1>1. 0 \in Days /\ YearOf(0) = 0
  BY ClockAssumption DEF Days, YearOf
<1>. QED
  BY <1>1, YearsOfDays

LEMMA IdleIsRequest == Idle \in Requests /\ WellFormed(Idle)
BY ZeroIsAYear DEF Idle, Requests, Phases, WellFormed

LEMMA InitTypeOK == Init => TypeOK
BY ZeroIsAYear, IdleIsRequest DEF Init, BookingInit, TypeOK

\* A booking that exists is a row.
LEMMA ExistingIsRow ==
  ASSUME TypeOK, NEW b \in BookingIds, Exists(b)
  PROVE  booking[b] \in Rows
BY DEF TypeOK, Exists, NoBooking

\* A step that leaves the bookings alone, and gives each request a shape it
\* may have, keeps the requests well formed.
LEMMA RequestStep ==
  ASSUME TypeOK, NEW s \in Sessions, NEW r \in Requests,
         req' = [req EXCEPT ![s] = r], UNCHANGED booking, WellFormed(r)
  PROVE  /\ req' \in [Sessions -> Requests]
         /\ \A t \in Sessions : WellFormed(req[t])'
<1>1. req' \in [Sessions -> Requests]
  BY DEF TypeOK
<1>2. ASSUME NEW t \in Sessions PROVE WellFormed(req[t])'
  <2>1. CASE t = s
    BY <2>1 DEF TypeOK, WellFormed
  <2>2. CASE t # s
    BY <2>2 DEF TypeOK, WellFormed
  <2>. QED
    BY <2>1, <2>2
<1>. QED
  BY <1>1, <1>2

\* A step that ends a request and gives one booking a row does too.
LEMMA RowStep ==
  ASSUME TypeOK, NEW s \in Sessions, NEW b \in BookingIds, NEW row \in Rows,
         req' = [req EXCEPT ![s] = Idle], booking' = [booking EXCEPT ![b] = row]
  PROVE  /\ booking' \in [BookingIds -> Rows \cup {NoBooking}]
         /\ req' \in [Sessions -> Requests]
         /\ \A t \in Sessions : WellFormed(req[t])'
<1>1. booking' \in [BookingIds -> Rows \cup {NoBooking}]
  BY DEF TypeOK
<1>3. req' \in [Sessions -> Requests]
  BY IdleIsRequest DEF TypeOK
<1>4. \A c \in BookingIds : booking[c] \in Rows => booking'[c] \in Rows
  BY DEF TypeOK
<1>5. ASSUME NEW t \in Sessions PROVE WellFormed(req[t])'
  <2>1. CASE t = s
    BY <2>1, IdleIsRequest DEF TypeOK, WellFormed, Idle
  <2>2. CASE t # s
    <3>1. req'[t] = req[t] /\ WellFormed(req[t])
      BY <2>2 DEF TypeOK
    <3>. QED
      BY <3>1, <1>4 DEF WellFormed
  <2>. QED
    BY <2>1, <2>2
<1>. QED
  BY <1>1, <1>3, <1>5

LEMMA RollBackTypeOK ==
  ASSUME TypeOK, NEW s \in Sessions, UNCHANGED today, RollBack(s)
  PROVE  TypeOK'
<1>1. /\ req' \in [Sessions -> Requests]
      /\ \A t \in Sessions : WellFormed(req[t])'
  BY IdleIsRequest, RequestStep DEF RollBack
<1>2. lock' \in [Years -> Sessions \cup {None}]
  BY DEF RollBack, TypeOK
<1>. QED
  BY <1>1, <1>2 DEF TypeOK, RollBack

LEMMA BeginTypeOK ==
  ASSUME TypeOK, NEW s \in Sessions, UNCHANGED today, Begin(s)
  PROVE  TypeOK'
<1>. DEFINE Goal == /\ req' \in [Sessions -> Requests]
                    /\ \A t \in Sessions : WellFormed(req[t])'
<1>1. SUFFICES Goal
  BY DEF TypeOK, Begin, BeginWork, BeginCreate, BeginPayment, BeginCancel,
         BeginComplete
<1>2. ASSUME NEW q \in Quotes, NEW t \in Terms, BeginCreate(s, q, t)
      PROVE  Goal
  <2>. DEFINE due == Build(t.total, DepositPct, t.arrival, BalanceDays, today)
              r == [Idle EXCEPT !.pc = "numbering", !.quote = q, !.terms = t,
                                !.schedule = due, !.year = YearOf(today)]
  <2>1. due \in Schedules
    BY BookingsAssumption, BuildIsSchedule DEF TypeOK, Days
  <2>2. YearOf(today) \in Years
    BY YearsOfDays DEF TypeOK
  <2>. HIDE DEF due
  <2>3. r \in Requests /\ WellFormed(r)
    BY <2>1, <2>2 DEF Idle, Requests, Phases, WellFormed
  <2>4. req' = [req EXCEPT ![s] = r] /\ UNCHANGED booking
    BY <1>2 DEF BeginCreate, due
  <2>. QED
    BY <2>3, <2>4, RequestStep
<1>3. ASSUME NEW b \in BookingIds, NEW a \in Amounts, BeginPayment(s, b, a)
      PROVE  Goal
  <2>. DEFINE r == [Idle EXCEPT !.pc = "paying", !.booking = b, !.amount = a]
  <2>1. booking[b] \in Rows
    BY <1>3, ExistingIsRow DEF BeginPayment, Payable
  <2>2. r \in Requests /\ WellFormed(r)
    BY <2>1, BookingsAssumption, ZeroIsAYear DEF Idle, Requests, Phases, WellFormed
  <2>. QED
    BY <1>3, <2>2, RequestStep DEF BeginPayment
<1>4. ASSUME NEW b \in BookingIds, NEW pc \in {"cancelling", "completing"}, Active(b),
             req' = [req EXCEPT ![s] = [Idle EXCEPT !.pc = pc, !.booking = b]],
             UNCHANGED booking
      PROVE  Goal
  <2>. DEFINE r == [Idle EXCEPT !.pc = pc, !.booking = b]
  <2>1. booking[b] \in Rows
    BY <1>4, ExistingIsRow DEF Active, ACTIVE_STATUSES, Exists
  <2>2. r \in Requests /\ WellFormed(r)
    BY <2>1, ZeroIsAYear DEF Idle, Requests, Phases, WellFormed
  <2>. QED
    BY <1>4, <2>2, RequestStep
<1>5. ASSUME NEW b \in BookingIds, BeginCancel(s, b) \/ BeginComplete(s, b)
      PROVE  Goal
  BY <1>4, <1>5 DEF BeginCancel, BeginComplete, Cancellable
<1>. QED
  BY <1>2, <1>3, <1>5 DEF Begin, BeginWork

\* A request under way on a booking that exists.
LEMMA WorkIsOnARow ==
  ASSUME TypeOK, NEW s \in Sessions,
         req[s].pc \in {"paying", "paid", "cancelling", "completing"}
  PROVE  /\ req[s] \in Requests
         /\ req[s].booking \in BookingIds
         /\ booking[req[s].booking] \in Rows
BY DEF TypeOK, WellFormed

LEMMA PaidIsRow ==
  ASSUME NEW row \in Rows, NEW r \in Requests
  PROVE  Paid(row, r) \in Rows
<1>1. row.received + r.amount \in Nat
  BY DEF Rows, Requests
<1>2. (IF r.confirms THEN "confirmed" ELSE row.status) \in Statuses
  BY DEF Rows, Statuses
<1>. QED
  BY <1>1, <1>2 DEF Paid, Rows

LEMMA StepTypeOK ==
  ASSUME TypeOK, NEW s \in Sessions, UNCHANGED today, Step(s)
  PROVE  TypeOK'
<1>. DEFINE r == req[s]
<1>0. r \in Requests /\ WellFormed(r) /\ r.year \in Years
  BY DEF TypeOK, Requests
<1>1. CASE MissCounter(s)
  <2>. DEFINE next == [r EXCEPT !.pc = "inserting"]
  <2>1. next \in Requests /\ WellFormed(next)
    BY <1>0, <1>1 DEF MissCounter, Requests, Phases, WellFormed
  <2>2. req' = [req EXCEPT ![s] = next] /\ UNCHANGED booking
    BY <1>1 DEF MissCounter
  <2>. QED
    BY <1>1, <2>1, <2>2, RequestStep DEF MissCounter, TypeOK
<1>2. CASE LockCounter(s)
  <2>. DEFINE number == counter[r.year] + 1
              next == [r EXCEPT !.pc = "numbered", !.number = number]
  <2>1. number \in Nat /\ number > 0
    BY <1>0 DEF TypeOK
  <2>3. req' = [req EXCEPT ![s] = next] /\ UNCHANGED booking
    BY <1>2 DEF LockCounter
  <2>. HIDE DEF number
  <2>2. next \in Requests /\ WellFormed(next)
    BY <1>0, <1>2, <2>1 DEF LockCounter, Requests, Phases, WellFormed
  <2>4. lock' \in [Years -> Sessions \cup {None}]
    BY <1>0, <1>2 DEF LockCounter, TypeOK
  <2>. QED
    BY <1>2, <2>2, <2>3, <2>4, RequestStep DEF LockCounter, TypeOK
<1>3. CASE Refuse(s)
  BY <1>3, RollBackTypeOK DEF Refuse
<1>4. ASSUME NEW b \in BookingIds, CommitCreate(s, b) PROVE TypeOK'
  <2>. DEFINE row == [status |-> "provisional", quote |-> r.quote, terms |-> r.terms,
                      schedule |-> r.schedule, year |-> r.year,
                      number |-> r.number, received |-> 0]
  <2>1. r.number \in Nat \ {0}
    BY <1>0, <1>4 DEF CommitCreate, Requests, WellFormed
  <2>2. row \in Rows
    BY <1>0, <1>4, <2>1 DEF CommitCreate, WellFormed, Rows, Statuses
  <2>3. counter' \in [Years -> Nat] /\ lock' \in [Years -> Sessions \cup {None}]
    BY <1>0, <1>4, <2>1 DEF CommitCreate, TypeOK
  <2>4. booking' = [booking EXCEPT ![b] = row] /\ req' = [req EXCEPT ![s] = Idle]
    BY <1>4 DEF CommitCreate
  <2>. QED
    BY <2>2, <2>3, <2>4, RowStep DEF TypeOK
<1>5. CASE WeighPayment(s)
  <2>. DEFINE confirms == /\ booking[r.booking].status = "provisional"
                          /\ IsConfirmable(booking[r.booking].schedule,
                                           Received(booking[r.booking], r.amount))
              next == [r EXCEPT !.pc = "paid", !.confirms = confirms]
  <2>1. next \in Requests /\ WellFormed(next)
    BY <1>0, <1>5, WorkIsOnARow DEF WeighPayment, Requests, Phases, WellFormed
  <2>2. req' = [req EXCEPT ![s] = next] /\ UNCHANGED booking
    BY <1>5 DEF WeighPayment
  <2>. QED
    BY <1>5, <2>1, <2>2, RequestStep DEF WeighPayment, TypeOK
<1>6. ASSUME NEW row \in Rows, r.booking \in BookingIds,
             booking' = [booking EXCEPT ![r.booking] = row],
             req' = [req EXCEPT ![s] = Idle], UNCHANGED <<counter, lock>>
      PROVE  TypeOK'
  BY <1>6, RowStep DEF TypeOK
<1>7. CASE CommitPayment(s)
  <2>1. Paid(booking[r.booking], r) \in Rows
    BY <1>0, <1>7, PaidIsRow, WorkIsOnARow DEF CommitPayment
  <2>. QED
    BY <1>6, <1>7, <2>1, WorkIsOnARow DEF CommitPayment
<1>8. ASSUME NEW status \in Statuses, r.pc \in {"cancelling", "completing"},
             booking' = [booking EXCEPT ![r.booking].status = status],
             req' = [req EXCEPT ![s] = Idle], UNCHANGED <<counter, lock>>
      PROVE  TypeOK'
  <2>. DEFINE row == [booking[r.booking] EXCEPT !.status = status]
  <2>1. row \in Rows /\ r.booking \in BookingIds
    BY <1>8, WorkIsOnARow DEF Rows
  <2>2. booking' = [booking EXCEPT ![r.booking] = row]
    BY <1>8
  <2>. QED
    BY <1>6, <1>8, <2>1, <2>2
<1>9. CASE CommitCancel(s) \/ CommitComplete(s)
  BY <1>8, <1>9 DEF CommitCancel, CommitComplete, Statuses
<1>. QED
  BY <1>1, <1>2, <1>3, <1>4, <1>5, <1>7, <1>9 DEF Step

LEMMA TickTypeOK ==
  ASSUME TypeOK, UNCHANGED bookingVars, today' \in Days
  PROVE  TypeOK'
BY DEF TypeOK, bookingVars, WellFormed

LEMMA NextTypeOK == TypeOK /\ [Next]_vars => TypeOK'
<1>. SUFFICES ASSUME TypeOK, [Next]_vars PROVE TypeOK'
  OBVIOUS
<1>1. ASSUME UNCHANGED today, NEW s \in Sessions, Begin(s) \/ Step(s) \/ Crash(s)
      PROVE  TypeOK'
  BY <1>1, BeginTypeOK, StepTypeOK, RollBackTypeOK DEF Crash
<1>2. ASSUME UNCHANGED bookingVars, Tick PROVE TypeOK'
  <2>1. today' \in Days
    BY <1>2, ClockAssumption DEF Tick, TypeOK, Days
  <2>. QED
    BY <1>2, <2>1, TickTypeOK
<1>3. CASE UNCHANGED vars
  BY <1>3, TickTypeOK DEF vars, TypeOK
<1>. QED
  BY <1>1, <1>2, <1>3 DEF Next, BookingNext

\* Every table and request keeps its shape, for any number of requests.
THEOREM BookingsTypeCorrect == Spec => []TypeOK
BY InitTypeOK, NextTypeOK, PTL DEF Spec

-------------------------------------------------------------------------------
(***************************************************************************)
(* A confirmed booking has its deposit                                     *)
(***************************************************************************)

\* What a request that has weighed a payment will write stays justified while
\* it waits to commit: rivals only add money.
Justified(row, r) ==
  r.pc = "paid" /\ r.confirms =>
    IsConfirmable(row.schedule, Received(row, r.amount))

WeighedRight(s) == Justified(booking[req[s].booking], req[s])

Secured(row) ==
  row.status = "confirmed" => IsConfirmable(row.schedule, row.received)

DepositInv == (\A b \in BookingIds : Secured(booking[b])) /\ \A s \in Sessions : WeighedRight(s)

\* A row that keeps its schedule and loses no money.
Grows(b) ==
  /\ booking'[b].schedule = booking[b].schedule
  /\ booking'[b].received \in Nat
  /\ booking[b].received <= booking'[b].received

\* A rival's step: this request does not move, and its booking only grows.
LEMMA RivalKeepsWeighed ==
  ASSUME TypeOK, NEW t \in Sessions, WeighedRight(t), req'[t] = req[t],
         req[t].pc = "paid" => Grows(req[t].booking)
  PROVE  WeighedRight(t)'
<1>. SUFFICES ASSUME req[t].pc = "paid", req[t].confirms
              PROVE  Justified(booking'[req[t].booking], req[t])
  BY DEF WeighedRight, Justified
<1>. DEFINE row == booking[req[t].booking]
            next == booking'[req[t].booking]
<1>1. row \in Rows /\ req[t] \in Requests
  BY WorkIsOnARow
<1>2. /\ row.schedule \in Schedules
      /\ row.received \in Nat
      /\ req[t].amount \in Nat
  BY <1>1 DEF Rows, Requests
<1>3. IsConfirmable(row.schedule, row.received + req[t].amount)
  BY DEF WeighedRight, Justified, Received
<1>4. next.schedule = row.schedule /\ next.received \in Nat /\ row.received <= next.received
  BY DEF Grows
<1>5. IsConfirmable(row.schedule, next.received + req[t].amount)
  BY <1>2, <1>3, <1>4, MoreConfirms
<1>. QED
  BY <1>4, <1>5 DEF Justified, Received

\* A step that moves one request and no booking.
LEMMA RequestKeepsDeposits ==
  ASSUME TypeOK, DepositInv, NEW s \in Sessions, NEW r, UNCHANGED booking,
         req' = [req EXCEPT ![s] = r],
         r.pc = "paid" => Justified(booking[r.booking], r)
  PROVE  DepositInv'
<1>1. \A b \in BookingIds : Secured(booking'[b])
  BY DEF DepositInv
<1>2. ASSUME NEW t \in Sessions PROVE Justified(booking'[req'[t].booking], req'[t])
  <2>1. CASE t = s
    <3>1. req'[t] = r
      BY <2>1 DEF TypeOK
    <3>2. Justified(booking[r.booking], r)
      BY DEF Justified
    <3>. QED
      BY <3>1, <3>2
  <2>2. CASE t # s
    <3>1. req'[t] = req[t] /\ WeighedRight(t)
      BY <2>2 DEF TypeOK, DepositInv
    <3>. QED
      BY <3>1 DEF WeighedRight
  <2>. QED
    BY <2>1, <2>2
<1>. QED
  BY <1>1, <1>2 DEF DepositInv, WeighedRight

\* A step that ends a request and writes one row.
LEMMA RowKeepsDeposits ==
  ASSUME TypeOK, DepositInv, NEW s \in Sessions, NEW b \in BookingIds, NEW row,
         booking' = [booking EXCEPT ![b] = row], req' = [req EXCEPT ![s] = Idle],
         Secured(row),
         booking[b] \in Rows => /\ row.schedule = booking[b].schedule
                                /\ row.received \in Nat
                                /\ booking[b].received <= row.received
  PROVE  DepositInv'
<1>1. ASSUME NEW c \in BookingIds PROVE Secured(booking'[c])
  BY DEF DepositInv, TypeOK
<1>2. ASSUME NEW t \in Sessions PROVE WeighedRight(t)'
  <2>1. CASE t = s
    <3>1. req'[t] = Idle
      BY <2>1 DEF TypeOK
    <3>2. Justified(booking'[req'[t].booking], Idle)
      BY DEF Justified, Idle
    <3>. QED
      BY <3>1, <3>2 DEF WeighedRight
  <2>2. CASE t # s
    <3>1. req'[t] = req[t] /\ WeighedRight(t)
      BY <2>2 DEF TypeOK, DepositInv
    <3>2. ASSUME req[t].pc = "paid" PROVE Grows(req[t].booking)
      <4>1. req[t].booking \in BookingIds /\ booking[req[t].booking] \in Rows
        BY <3>2, WorkIsOnARow
      <4>2. CASE req[t].booking = b
        BY <4>1, <4>2 DEF Grows, TypeOK
      <4>3. CASE req[t].booking # b
        <5>1. booking'[req[t].booking] = booking[req[t].booking]
          BY <4>3
        <5>. QED
          BY <4>1, <5>1 DEF Grows, Rows
      <4>. QED
        BY <4>2, <4>3
    <3>. QED
      BY <3>1, <3>2, RivalKeepsWeighed
  <2>. QED
    BY <2>1, <2>2
<1>. QED
  BY <1>1, <1>2 DEF DepositInv

LEMMA InitDeposits == Init => DepositInv
BY DEF Init, BookingInit, DepositInv, Secured, WeighedRight, Justified, Idle, NoBooking

LEMMA StepDeposits ==
  ASSUME TypeOK, DepositInv, NEW s \in Sessions, Begin(s) \/ Step(s) \/ Crash(s)
  PROVE  DepositInv'
<1>. DEFINE r == req[s]
            row == booking[r.booking]
<1>0. r \in Requests
  BY DEF TypeOK
<1>1. CASE Begin(s)
  <2>1. ASSUME NEW q \in Quotes, NEW t \in Terms, BeginCreate(s, q, t) PROVE DepositInv'
    BY <2>1, RequestKeepsDeposits DEF BeginCreate, Idle
  <2>2. ASSUME NEW b \in BookingIds, NEW a \in Amounts, BeginPayment(s, b, a)
        PROVE  DepositInv'
    BY <2>2, RequestKeepsDeposits DEF BeginPayment, Idle
  <2>3. ASSUME NEW b \in BookingIds, BeginCancel(s, b) PROVE DepositInv'
    BY <2>3, RequestKeepsDeposits DEF BeginCancel, Idle
  <2>4. ASSUME NEW b \in BookingIds, BeginComplete(s, b) PROVE DepositInv'
    BY <2>4, RequestKeepsDeposits DEF BeginComplete, Idle
  <2>. QED
    BY <1>1, <2>1, <2>2, <2>3, <2>4 DEF Begin, BeginWork
<1>2. CASE RollBack(s)
  BY <1>2, RequestKeepsDeposits DEF RollBack, Idle
<1>3. CASE MissCounter(s) \/ LockCounter(s)
  <2>1. CASE MissCounter(s)
    <3>. DEFINE next == [r EXCEPT !.pc = "inserting"]
    <3>1. next.pc # "paid"
      BY <1>0 DEF Requests
    <3>. QED
      BY <2>1, <3>1, RequestKeepsDeposits DEF MissCounter
  <2>2. CASE LockCounter(s)
    <3>. DEFINE next == [r EXCEPT !.pc = "numbered", !.number = counter[r.year] + 1]
    <3>1. next.pc # "paid"
      BY <1>0 DEF Requests
    <3>. QED
      BY <2>2, <3>1, RequestKeepsDeposits DEF LockCounter
  <2>. QED
    BY <1>3, <2>1, <2>2
<1>4. ASSUME NEW b \in BookingIds, CommitCreate(s, b) PROVE DepositInv'
  <2>. DEFINE new == [status |-> "provisional", quote |-> r.quote, terms |-> r.terms,
                      schedule |-> r.schedule, year |-> r.year,
                      number |-> r.number, received |-> 0]
  <2>1. booking' = [booking EXCEPT ![b] = new] /\ req' = [req EXCEPT ![s] = Idle]
    BY <1>4 DEF CommitCreate
  <2>2. Secured(new)
    BY DEF Secured
  <2>3. booking[b] \notin Rows
    BY <1>4 DEF CommitCreate, Exists, Rows, Statuses
  <2>. QED
    BY <2>1, <2>2, <2>3, RowKeepsDeposits
<1>5. CASE WeighPayment(s)
  <2>. DEFINE confirms == /\ row.status = "provisional"
                          /\ IsConfirmable(row.schedule, Received(row, r.amount))
              next == [r EXCEPT !.pc = "paid", !.confirms = confirms]
  <2>1. req' = [req EXCEPT ![s] = next] /\ UNCHANGED booking
    BY <1>5 DEF WeighPayment
  <2>2. r \in Requests
    BY DEF TypeOK
  <2>3. /\ next.booking = r.booking
        /\ next.amount = r.amount
        /\ next.confirms = confirms
    BY <2>2 DEF Requests
  <2>4. Justified(booking[next.booking], next)
    BY <2>3 DEF Justified
  <2>. QED
    BY <2>1, <2>4, RequestKeepsDeposits
<1>6. CASE CommitPayment(s)
  <2>1. /\ r \in Requests
        /\ r.booking \in BookingIds
        /\ row \in Rows
        /\ WeighedRight(s)
    BY <1>6, WorkIsOnARow DEF CommitPayment, DepositInv
  <2>2. /\ row.received \in Nat
        /\ r.amount \in Nat
        /\ row.schedule \in Schedules
    BY <2>1 DEF Rows, Requests
  <2>3. /\ Paid(row, r).received = row.received + r.amount
        /\ Paid(row, r).schedule = row.schedule
        /\ Paid(row, r).status = IF r.confirms THEN "confirmed" ELSE row.status
    BY <2>1 DEF Paid, Rows
  <2>4. Secured(Paid(row, r))
    <3>1. CASE r.confirms
      BY <1>6, <2>1, <2>3, <3>1 DEF CommitPayment, WeighedRight, Justified, Received, Secured
    <3>2. CASE ~r.confirms
      <4>1. Secured(row)
        BY <2>1 DEF DepositInv
      <4>. QED
        BY <2>2, <2>3, <3>2, <4>1, MoreConfirms DEF Secured
    <3>. QED
      BY <3>1, <3>2
  <2>. DEFINE next == Paid(row, r)
  <2>5. booking' = [booking EXCEPT ![r.booking] = next] /\ req' = [req EXCEPT ![s] = Idle]
    BY <1>6 DEF CommitPayment
  <2>6. next.received \in Nat /\ row.received <= next.received
    BY <2>2, <2>3
  <2>. HIDE DEF next
  <2>. QED
    BY <2>1, <2>3, <2>4, <2>5, <2>6, RowKeepsDeposits DEF next
<1>7. CASE CommitCancel(s) \/ CommitComplete(s)
  <2>1. r.booking \in BookingIds /\ row \in Rows
    BY <1>7, WorkIsOnARow DEF CommitCancel, CommitComplete
  <2>2. PICK status \in {"cancelled", "completed"} :
          /\ booking' = [booking EXCEPT ![r.booking].status = status]
          /\ req' = [req EXCEPT ![s] = Idle]
    BY <1>7 DEF CommitCancel, CommitComplete
  <2>. DEFINE next == [row EXCEPT !.status = status]
  <2>3. booking' = [booking EXCEPT ![r.booking] = next]
    BY <2>2 DEF TypeOK
  <2>4. next.schedule = row.schedule /\ next.received = row.received /\ row.received \in Nat
    BY <2>1 DEF Rows
  <2>5. Secured(next)
    BY <2>1, <2>2 DEF Secured, Rows
  <2>6. row.received <= next.received
    BY <2>4
  <2>. HIDE DEF next
  <2>. QED
    BY <2>1, <2>2, <2>3, <2>4, <2>5, <2>6, RowKeepsDeposits
<1>. QED
  BY <1>1, <1>2, <1>3, <1>4, <1>5, <1>6, <1>7 DEF Step, Refuse, Crash

\* The clock moves, or nothing does.
LEMMA StillDeposits ==
  ASSUME DepositInv, UNCHANGED bookingVars
  PROVE  DepositInv'
BY DEF DepositInv, bookingVars, WeighedRight

\* "Confirmed: the deposit has landed", for any number of requests, amounts and
\* schedules, although a payment is weighed before it is committed.
THEOREM ConfirmedIsPaid == Spec => []ConfirmedHasDeposit
<1>1. TypeOK /\ DepositInv /\ [Next]_vars => DepositInv'
  BY StepDeposits, StillDeposits DEF Next, BookingNext, vars, bookingVars
<1>2. DepositInv => ConfirmedHasDeposit
  BY DEF DepositInv, Secured, ConfirmedHasDeposit
<1>. QED
  BY InitDeposits, BookingsTypeCorrect, <1>1, <1>2, PTL DEF Spec

-------------------------------------------------------------------------------
(***************************************************************************)
(* References                                                              *)
(*                                                                         *)
(* The numbers handed out in a year are 1..n, each to one booking, for any *)
(* number of concurrent requests.  The argument is the row lock: between   *)
(* the moment a request reads the counter and the commit that writes it,   *)
(* nobody else's commit can touch it.                                      *)
(***************************************************************************)

Numbered(y) == {b \in BookingIds : Exists(b) /\ booking[b].year = y}

\* No number beyond the counter, none twice, none left out.
NumberInv ==
  \A y \in Years :
    /\ \A b \in Numbered(y) : booking[b].number \in 1..counter[y]
    /\ \A b, c \in Numbered(y) : booking[b].number = booking[c].number => b = c
    /\ \A n \in 1..counter[y] : \E b \in Numbered(y) : booking[b].number = n

\* A request that has been given a number holds the row it came from.
HoldsItsNumber(r, s) ==
  r.pc = "numbered" => lock[r.year] = s /\ r.number = counter[r.year] + 1

LockInv == \A s \in Sessions : HoldsItsNumber(req[s], s)

LEMMA NumbersAreCounted == TypeOK /\ NumberInv => ReferencesAreGapless
<1>. SUFFICES ASSUME TypeOK, NumberInv, NEW y \in Years
              PROVE  /\ {booking[b].number : b \in Numbered(y)} = 1..counter[y]
                     /\ Cardinality(Numbered(y)) = counter[y]
  BY DEF ReferencesAreGapless, Numbered
<1>. DEFINE S == Numbered(y)
            T == 1..counter[y]
            f == [b \in S |-> booking[b].number]
<1>1. /\ \A b \in S : booking[b].number \in T
      /\ \A b, c \in S : booking[b].number = booking[c].number => b = c
      /\ \A n \in T : \E b \in S : booking[b].number = n
  BY DEF NumberInv
<1>2. counter[y] \in Nat
  BY DEF TypeOK
<1>. HIDE DEF S, T
<1>3. {booking[b].number : b \in S} = T
  BY <1>1
<1>4. f \in Bijection(S, T)
  <2>1. f \in [S -> T]
    BY <1>1
  <2>2. \A a, b \in S : f[a] = f[b] => a = b
    BY <1>1
  <2>3. \A n \in T : \E b \in S : f[b] = n
    BY <1>1
  <2>. QED
    BY <2>1, <2>2, <2>3, Fun_IsBij
<1>5. ExistsBijection(T, S)
  BY <1>4, Fun_ExistsBij, Fun_ExistsBijSymmetric
<1>6. Cardinality(S) = counter[y]
  BY <1>2, <1>5, FS_CountingElements DEF T
<1>. QED
  BY <1>3, <1>6 DEF S, T

\* A step that creates no booking and writes no counter.
LEMMA NumbersStay ==
  ASSUME NumberInv, UNCHANGED counter,
         \A b \in BookingIds : /\ Exists(b)' <=> Exists(b)
                               /\ booking'[b].year = booking[b].year
                               /\ booking'[b].number = booking[b].number
  PROVE  NumberInv'
<1>1. \A y \in Years : Numbered(y)' = Numbered(y)
  BY DEF Numbered
<1>2. \A y \in Years : \A b \in Numbered(y) : booking'[b].number = booking[b].number
  BY DEF Numbered
<1>. QED
  BY <1>1, <1>2 DEF NumberInv

\* A step that moves one request and writes neither lock nor counter.
LEMMA LocksStay ==
  ASSUME TypeOK, LockInv, NEW s \in Sessions, NEW r, UNCHANGED <<counter, lock>>,
         req' = [req EXCEPT ![s] = r], r.pc # "numbered"
  PROVE  LockInv'
<1>. SUFFICES ASSUME NEW t \in Sessions PROVE HoldsItsNumber(req[t], t)'
  BY DEF LockInv
<1>1. CASE t = s
  BY <1>1 DEF TypeOK, HoldsItsNumber
<1>2. CASE t # s
  <2>1. req'[t] = req[t] /\ HoldsItsNumber(req[t], t)
    BY <1>2 DEF TypeOK, LockInv
  <2>. QED
    BY <2>1 DEF HoldsItsNumber
<1>. QED
  BY <1>1, <1>2

\* A step that writes one row's status or money and ends the request.
LEMMA WorkKeepsNumbers ==
  ASSUME TypeOK, NumberInv, LockInv, NEW s \in Sessions, NEW b \in BookingIds,
         NEW row \in Rows, booking[b] \in Rows,
         row.year = booking[b].year, row.number = booking[b].number,
         booking' = [booking EXCEPT ![b] = row], req' = [req EXCEPT ![s] = Idle],
         UNCHANGED <<counter, lock>>
  PROVE  NumberInv' /\ LockInv'
<1>1. \A c \in BookingIds : /\ Exists(c)' <=> Exists(c)
                            /\ booking'[c].year = booking[c].year
                            /\ booking'[c].number = booking[c].number
  <2>1. row.status # "absent" /\ booking[b].status # "absent"
    BY DEF Rows, Statuses
  <2>. QED
    BY <2>1 DEF TypeOK, Exists
<1>2. Idle.pc # "numbered"
  BY DEF Idle
<1>. QED
  BY <1>1, <1>2, NumbersStay, LocksStay

LEMMA RollBackKeepsNumbers ==
  ASSUME TypeOK, NumberInv, LockInv, NEW s \in Sessions, RollBack(s)
  PROVE  NumberInv' /\ LockInv'
<1>1. NumberInv'
  BY NumbersStay DEF RollBack, Exists
<1>2. ASSUME NEW t \in Sessions PROVE HoldsItsNumber(req[t], t)'
  <2>1. CASE t = s
    BY <2>1 DEF RollBack, TypeOK, HoldsItsNumber, Idle
  <2>2. CASE t # s
    <3>1. req'[t] = req[t] /\ HoldsItsNumber(req[t], t) /\ req[t].year \in Years
      BY <2>2 DEF RollBack, TypeOK, LockInv, Requests
    <3>. QED
      BY <2>2, <3>1 DEF RollBack, HoldsItsNumber
  <2>. QED
    BY <2>1, <2>2
<1>. QED
  BY <1>1, <1>2 DEF LockInv

\* Nobody else holds the row that is locked, so nobody else has a number of
\* that year.
LEMMA LockKeepsNumbers ==
  ASSUME TypeOK, NumberInv, LockInv, NEW s \in Sessions, LockCounter(s)
  PROVE  NumberInv' /\ LockInv'
<1>. DEFINE year == req[s].year
<1>1. NumberInv'
  BY NumbersStay DEF LockCounter, Exists
<1>2. req[s] \in Requests /\ year \in Years
  BY DEF TypeOK, Requests
<1>3. ASSUME NEW t \in Sessions PROVE HoldsItsNumber(req[t], t)'
  <2>1. CASE t = s
    <3>1. req'[t].year = year /\ req'[t].number = counter[year] + 1
      BY <1>2, <2>1 DEF LockCounter, TypeOK, Requests
    <3>2. lock'[year] = t
      BY <1>2, <2>1 DEF LockCounter, TypeOK
    <3>. QED
      BY <3>1, <3>2 DEF LockCounter, HoldsItsNumber
  <2>2. CASE t # s
    <3>1. req'[t] = req[t] /\ HoldsItsNumber(req[t], t)
      BY <2>2 DEF LockCounter, TypeOK, LockInv
    <3>2. lock[year] # t
      BY BookingsAssumption DEF LockCounter, Unlocked
    <3>3. req[t].pc = "numbered" => req[t].year # year
      BY <3>1, <3>2 DEF HoldsItsNumber
    <3>4. req[t].year \in Years
      BY DEF TypeOK, Requests
    <3>. QED
      BY <3>1, <3>3, <3>4 DEF LockCounter, HoldsItsNumber, TypeOK
  <2>. QED
    BY <2>1, <2>2
<1>. QED
  BY <1>1, <1>3 DEF LockInv

\* The new booking takes the next number of its year, and the counter follows.
LEMMA CreateKeepsNumbers ==
  ASSUME TypeOK, NumberInv, LockInv, NEW s \in Sessions,
         NEW b \in BookingIds, CommitCreate(s, b)
  PROVE  NumberInv' /\ LockInv'
<1>. DEFINE year == req[s].year
            number == req[s].number
<1>1. /\ req[s] \in Requests
      /\ year \in Years
      /\ lock[year] = s
      /\ number = counter[year] + 1
      /\ counter[year] \in Nat
  BY DEF CommitCreate, TypeOK, Requests, LockInv, HoldsItsNumber
<1>2. /\ ~Exists(b)
      /\ booking'[b].status = "provisional"
      /\ booking'[b].year = year
      /\ booking'[b].number = number
      /\ \A c \in BookingIds \ {b} : booking'[c] = booking[c]
  BY DEF CommitCreate, TypeOK
<1>3. /\ counter'[year] = number
      /\ \A y \in Years \ {year} : counter'[y] = counter[y] /\ lock'[y] = lock[y]
  BY <1>1 DEF CommitCreate, TypeOK
<1>. HIDE DEF year, number
<1>4. \A y \in Years : /\ b \notin Numbered(y)
                       /\ y = year => Numbered(y)' = Numbered(y) \cup {b}
                       /\ y # year => Numbered(y)' = Numbered(y)
  <2>. SUFFICES ASSUME NEW y \in Years
                PROVE  /\ b \notin Numbered(y)
                       /\ y = year => Numbered(y)' = Numbered(y) \cup {b}
                       /\ y # year => Numbered(y)' = Numbered(y)
    OBVIOUS
  <2>1. b \notin Numbered(y)
    BY <1>2 DEF Numbered
  <2>2. \A c \in BookingIds \ {b} : c \in Numbered(y)' <=> c \in Numbered(y)
    BY <1>2 DEF Numbered, Exists
  <2>3. b \in Numbered(y)' <=> y = year
    BY <1>2 DEF Numbered, Exists
  <2>4. Numbered(y) \subseteq BookingIds /\ Numbered(y)' \subseteq BookingIds
    BY DEF Numbered
  <2>. QED
    BY <2>1, <2>2, <2>3, <2>4
<1>5. \A y \in Years : \A c \in Numbered(y) : booking'[c] = booking[c] /\ c \in BookingIds
  BY <1>2, <1>4 DEF Numbered
<1>6. NumberInv'
  <2>. SUFFICES ASSUME NEW y \in Years
                PROVE  /\ \A c \in Numbered(y)' : booking'[c].number \in 1..counter'[y]
                       /\ \A c, d \in Numbered(y)' :
                            booking'[c].number = booking'[d].number => c = d
                       /\ \A n \in 1..counter'[y] :
                            \E c \in Numbered(y)' : booking'[c].number = n
    BY DEF NumberInv
  <2>1. /\ \A c \in Numbered(y) : booking[c].number \in 1..counter[y]
        /\ \A c, d \in Numbered(y) : booking[c].number = booking[d].number => c = d
        /\ \A n \in 1..counter[y] : \E c \in Numbered(y) : booking[c].number = n
    BY DEF NumberInv
  <2>2. CASE y # year
    BY <1>3, <1>4, <1>5, <2>1, <2>2
  <2>3. CASE y = year
    <3>1. 1..counter'[y] = (1..counter[y]) \cup {number}
      BY <1>1, <1>3, <2>3
    <3>2. \A c \in Numbered(y) : booking[c].number # number
      BY <1>1, <2>1, <2>3
    <3>3. Numbered(y)' = Numbered(y) \cup {b}
      BY <1>4, <2>3
    <3>4. ASSUME NEW c \in Numbered(y)' PROVE booking'[c].number \in 1..counter'[y]
      BY <1>2, <1>5, <2>1, <3>1, <3>3
    <3>5. ASSUME NEW c \in Numbered(y)', NEW d \in Numbered(y)',
                 booking'[c].number = booking'[d].number
          PROVE  c = d
      BY <1>2, <1>5, <2>1, <3>2, <3>3, <3>5
    <3>6. ASSUME NEW n \in 1..counter'[y]
          PROVE  \E c \in Numbered(y)' : booking'[c].number = n
      BY <1>2, <1>5, <2>1, <3>1, <3>3
    <3>. QED
      BY <3>4, <3>5, <3>6
  <2>. QED
    BY <2>2, <2>3
<1>7. ASSUME NEW t \in Sessions PROVE HoldsItsNumber(req[t], t)'
  <2>1. CASE t = s
    BY <2>1 DEF CommitCreate, TypeOK, HoldsItsNumber, Idle
  <2>2. CASE t # s
    <3>1. req'[t] = req[t] /\ HoldsItsNumber(req[t], t) /\ req[t].year \in Years
      BY <2>2 DEF CommitCreate, TypeOK, LockInv, Requests
    <3>2. req[t].pc = "numbered" => req[t].year # year
      BY <1>1, <2>2, <3>1 DEF HoldsItsNumber
    <3>. QED
      BY <1>3, <3>1, <3>2 DEF HoldsItsNumber
  <2>. QED
    BY <2>1, <2>2
<1>. QED
  BY <1>6, <1>7 DEF LockInv

LEMMA StepNumbers ==
  ASSUME TypeOK, NumberInv, LockInv, NEW s \in Sessions,
         Begin(s) \/ Step(s) \/ Crash(s)
  PROVE  NumberInv' /\ LockInv'
<1>. DEFINE r == req[s]
            row == booking[r.booking]
<1>0. r \in Requests
  BY DEF TypeOK
<1>1. ASSUME NEW next, next.pc # "numbered", req' = [req EXCEPT ![s] = next],
             UNCHANGED <<booking, counter, lock>>
      PROVE  NumberInv' /\ LockInv'
  BY <1>1, NumbersStay, LocksStay DEF Exists
<1>2. CASE Begin(s)
  <2>1. ASSUME NEW q \in Quotes, NEW t \in Terms, BeginCreate(s, q, t)
        PROVE  NumberInv' /\ LockInv'
    BY <1>1, <2>1 DEF BeginCreate, Idle
  <2>2. ASSUME NEW b \in BookingIds, NEW a \in Amounts, BeginPayment(s, b, a)
        PROVE  NumberInv' /\ LockInv'
    BY <1>1, <2>2 DEF BeginPayment, Idle
  <2>3. ASSUME NEW b \in BookingIds, BeginCancel(s, b) PROVE NumberInv' /\ LockInv'
    BY <1>1, <2>3 DEF BeginCancel, Idle
  <2>4. ASSUME NEW b \in BookingIds, BeginComplete(s, b) PROVE NumberInv' /\ LockInv'
    BY <1>1, <2>4 DEF BeginComplete, Idle
  <2>. QED
    BY <1>2, <2>1, <2>2, <2>3, <2>4 DEF Begin, BeginWork
<1>3. CASE MissCounter(s)
  <2>. DEFINE next == [r EXCEPT !.pc = "inserting"]
  <2>1. next.pc # "numbered"
    BY <1>0 DEF Requests
  <2>. QED
    BY <1>1, <1>3, <2>1 DEF MissCounter
<1>4. CASE WeighPayment(s)
  <2>1. PICK confirms : req' = [req EXCEPT ![s].pc = "paid", ![s].confirms = confirms]
    BY <1>4 DEF WeighPayment
  <2>. DEFINE next == [r EXCEPT !.pc = "paid", !.confirms = confirms]
  <2>2. next.pc # "numbered"
    BY <1>0 DEF Requests
  <2>3. req' = [req EXCEPT ![s] = next]
    BY <2>1
  <2>. QED
    BY <1>1, <1>4, <2>2, <2>3 DEF WeighPayment
<1>5. ASSUME NEW next \in Rows, r.booking \in BookingIds, row \in Rows,
             next.year = row.year, next.number = row.number,
             booking' = [booking EXCEPT ![r.booking] = next],
             req' = [req EXCEPT ![s] = Idle], UNCHANGED <<counter, lock>>
      PROVE  NumberInv' /\ LockInv'
  BY <1>5, WorkKeepsNumbers
<1>6. CASE CommitPayment(s)
  <2>1. r.booking \in BookingIds /\ row \in Rows
    BY <1>6, WorkIsOnARow DEF CommitPayment
  <2>2. /\ Paid(row, r) \in Rows
        /\ Paid(row, r).year = row.year
        /\ Paid(row, r).number = row.number
    BY <1>0, <2>1, PaidIsRow DEF Paid, Rows
  <2>. QED
    BY <1>5, <1>6, <2>1, <2>2 DEF CommitPayment
<1>7. CASE CommitCancel(s) \/ CommitComplete(s)
  <2>1. r.booking \in BookingIds /\ row \in Rows
    BY <1>7, WorkIsOnARow DEF CommitCancel, CommitComplete
  <2>2. PICK status \in Statuses : booking' = [booking EXCEPT ![r.booking].status = status]
    BY <1>7 DEF CommitCancel, CommitComplete, Statuses
  <2>. DEFINE next == [row EXCEPT !.status = status]
  <2>3. next \in Rows /\ next.year = row.year /\ next.number = row.number
    BY <2>1 DEF Rows
  <2>4. booking' = [booking EXCEPT ![r.booking] = next]
    BY <2>2
  <2>. QED
    BY <1>5, <1>7, <2>1, <2>3, <2>4 DEF CommitCancel, CommitComplete
<1>. QED
  BY <1>2, <1>3, <1>4, <1>6, <1>7, RollBackKeepsNumbers, LockKeepsNumbers,
     CreateKeepsNumbers DEF Step, Refuse, Crash

LEMMA InitNumbers == Init => NumberInv /\ LockInv
BY DEF Init, BookingInit, NumberInv, Numbered, Exists, NoBooking, LockInv,
       HoldsItsNumber, Idle

LEMMA StillNumbers ==
  ASSUME NumberInv, LockInv, UNCHANGED bookingVars
  PROVE  NumberInv' /\ LockInv'
<1>1. NumberInv'
  BY NumbersStay DEF bookingVars, Exists
<1>. QED
  BY <1>1 DEF bookingVars, LockInv, HoldsItsNumber

\* HTB-<year>-<n>: in every year the numbers handed out are 1..n, each to one
\* booking, for any number of requests, crashes and years.
THEOREM ReferencesNeverGap == Spec => []ReferencesAreGapless
<1>1. TypeOK /\ NumberInv /\ LockInv /\ [Next]_vars => NumberInv' /\ LockInv'
  BY StepNumbers, StillNumbers DEF Next, BookingNext, vars, bookingVars
<1>. QED
  BY InitNumbers, BookingsTypeCorrect, NumbersAreCounted, <1>1, PTL DEF Spec

-------------------------------------------------------------------------------
(***************************************************************************)
(* Requests served one at a time: what create_from_quote, record_payment   *)
(* and cancel promise and concurrency puts at risk.                        *)
(***************************************************************************)

OneSession == \A s, t \in Sessions : s = t

(***************************************************************************)
(* What a request checked when it began still holds when it commits.       *)
(***************************************************************************)

\* A trip about to be booked is still free.
StillFree(r) == r.pc \in {"numbering", "inserting", "numbered"} => ActiveFor(r.quote) = {}

\* A booking about to be paid, cancelled or completed is still one that can be.
StillPayable(r) == r.pc \in {"paying", "paid"} => booking[r.booking].status # "cancelled"
StillActive(r) == r.pc \in {"cancelling", "completing"} => Active(r.booking)

Confirmable(row) == row.status = "provisional" /\ IsConfirmable(row.schedule, row.received)

\* A payment weighed was weighed against the booking as it is.
WeighedNow(r) ==
  r.pc = "paid" =>
    LET row == booking[r.booking]
    IN  r.confirms <=> /\ row.status = "provisional"
                       /\ IsConfirmable(row.schedule, Received(row, r.amount))

NothingMoved ==
  \A s \in Sessions : /\ StillFree(req[s])
                      /\ StillPayable(req[s])
                      /\ StillActive(req[s])
                      /\ WeighedNow(req[s])

NoneLeftProvisional == \A b \in BookingIds : ~Confirmable(booking[b])

HoldingInv == NothingMoved /\ OneTripHeldOnce /\ NoneLeftProvisional

LEMMA IdleHolds == StillFree(Idle) /\ StillPayable(Idle) /\ StillActive(Idle) /\ WeighedNow(Idle)
BY DEF StillFree, StillPayable, StillActive, WeighedNow, Idle

LEMMA InitHolding == Init => HoldingInv
<1>. SUFFICES ASSUME Init PROVE HoldingInv
  OBVIOUS
<1>1. NothingMoved
  BY IdleHolds DEF Init, BookingInit, NothingMoved
<1>2. OneTripHeldOnce /\ NoneLeftProvisional
  BY DEF Init, BookingInit, OneTripHeldOnce, NoneLeftProvisional, Confirmable, NoBooking,
         Active, ACTIVE_STATUSES
<1>. QED
  BY <1>1, <1>2 DEF HoldingInv

\* A request that moves and changes no booking.
LEMMA MoveHolds ==
  ASSUME TypeOK, HoldingInv, OneSession, NEW s \in Sessions, NEW r,
         req' = [req EXCEPT ![s] = r], UNCHANGED booking,
         StillFree(r), StillPayable(r), StillActive(r), WeighedNow(r)
  PROVE  HoldingInv'
<1>1. \A t \in Sessions : req'[t] = r
  BY DEF OneSession, TypeOK
<1>2. NothingMoved'
  BY <1>1 DEF NothingMoved, StillFree, StillPayable, StillActive, WeighedNow, ActiveFor, Active
<1>3. OneTripHeldOnce' /\ NoneLeftProvisional'
  BY DEF HoldingInv, OneTripHeldOnce, NoneLeftProvisional, Active
<1>. QED
  BY <1>2, <1>3 DEF HoldingInv

\* A request that ends and writes one booking: a row that should have been
\* confirmed already, or takes a trip that is not free, is none it may write.
LEMMA RowHolds ==
  ASSUME TypeOK, HoldingInv, OneSession, NEW s \in Sessions, NEW b \in BookingIds, NEW row,
         booking' = [booking EXCEPT ![b] = row], req' = [req EXCEPT ![s] = Idle],
         ~Confirmable(row),
         row.status \in ACTIVE_STATUSES =>
           \/ Active(b) /\ row.quote = booking[b].quote
           \/ ActiveFor(row.quote) = {}
  PROVE  HoldingInv'
<1>1. \A t \in Sessions : req'[t] = Idle
  BY DEF OneSession, TypeOK
<1>2. NothingMoved'
  BY <1>1 DEF NothingMoved, StillFree, StillPayable, StillActive, WeighedNow, Idle
<1>3. \A c \in BookingIds : booking'[c] = IF c = b THEN row ELSE booking[c]
  BY DEF TypeOK
<1>4. NoneLeftProvisional'
  BY <1>3 DEF HoldingInv, NoneLeftProvisional
<1>5. OneTripHeldOnce'
  BY <1>3 DEF HoldingInv, OneTripHeldOnce, Active, ActiveFor
<1>. QED
  BY <1>2, <1>4, <1>5 DEF HoldingInv

\* A schedule with something on every instalment is not covered by nothing.
LEMMA NothingConfirmsNothing ==
  ASSUME NEW schedule \in Schedules, Insertable(schedule)
  PROVE  ~IsConfirmable(schedule, 0)
<1>1. \E i \in DOMAIN schedule : Opening(schedule) = schedule[i]
  BY OpeningIsThere
<1>2. Opening(schedule).amount \in Int
  BY OpeningIsInstalment DEF Instalments
<1>. QED
  BY <1>1, <1>2 DEF Insertable, IsConfirmable

LEMMA BeginHolds ==
  ASSUME TypeOK, HoldingInv, OneSession, NEW s \in Sessions, Begin(s)
  PROVE  HoldingInv'
<1>. USE DEF StillFree, StillPayable, StillActive, WeighedNow
<1>1. ASSUME NEW q \in Quotes, NEW t \in Terms, BeginCreate(s, q, t) PROVE HoldingInv'
  <2>. DEFINE due == Build(t.total, DepositPct, t.arrival, BalanceDays, today)
              r == [Idle EXCEPT !.pc = "numbering", !.quote = q, !.terms = t,
                                !.schedule = due, !.year = YearOf(today)]
  <2>1. req' = [req EXCEPT ![s] = r] /\ UNCHANGED booking /\ ActiveFor(q) = {}
    BY <1>1 DEF BeginCreate
  <2>2. r.pc = "numbering" /\ r.quote = q
    BY DEF Idle
  <2>. HIDE DEF r
  <2>. QED
    BY <2>1, <2>2, MoveHolds
<1>2. ASSUME NEW b \in BookingIds, NEW a \in Amounts, BeginPayment(s, b, a)
      PROVE  HoldingInv'
  <2>. DEFINE r == [Idle EXCEPT !.pc = "paying", !.booking = b, !.amount = a]
  <2>1. req' = [req EXCEPT ![s] = r] /\ UNCHANGED booking /\ Payable(b)
    BY <1>2 DEF BeginPayment
  <2>2. r.pc = "paying" /\ r.booking = b
    BY DEF Idle
  <2>. HIDE DEF r
  <2>. QED
    BY <2>1, <2>2, MoveHolds DEF Payable
<1>3. ASSUME NEW b \in BookingIds, BeginCancel(s, b) PROVE HoldingInv'
  <2>. DEFINE r == [Idle EXCEPT !.pc = "cancelling", !.booking = b]
  <2>1. req' = [req EXCEPT ![s] = r] /\ UNCHANGED booking /\ Active(b)
    BY <1>3 DEF BeginCancel, Cancellable
  <2>2. r.pc = "cancelling" /\ r.booking = b
    BY DEF Idle
  <2>. HIDE DEF r
  <2>. QED
    BY <2>1, <2>2, MoveHolds
<1>4. ASSUME NEW b \in BookingIds, BeginComplete(s, b) PROVE HoldingInv'
  <2>. DEFINE r == [Idle EXCEPT !.pc = "completing", !.booking = b]
  <2>1. req' = [req EXCEPT ![s] = r] /\ UNCHANGED booking /\ Active(b)
    BY <1>4 DEF BeginComplete
  <2>2. r.pc = "completing" /\ r.booking = b
    BY DEF Idle
  <2>. HIDE DEF r
  <2>. QED
    BY <2>1, <2>2, MoveHolds
<1>. QED
  BY <1>1, <1>2, <1>3, <1>4 DEF Begin, BeginWork

\* What a request under way knows of its booking.
LEMMA OnItsBooking ==
  ASSUME TypeOK, HoldingInv, NEW s \in Sessions
  PROVE  /\ req[s] \in Requests
         /\ StillFree(req[s]) /\ StillPayable(req[s])
         /\ StillActive(req[s]) /\ WeighedNow(req[s])
BY DEF TypeOK, HoldingInv, NothingMoved

\* The money of a payment is on the row it wrote, and confirms it if it can.
LEMMA PaymentHolds ==
  ASSUME TypeOK, HoldingInv, OneSession, NEW s \in Sessions, CommitPayment(s)
  PROVE  /\ HoldingInv'
         /\ \E b \in BookingIds :
              /\ booking[b].status \notin {"absent", "cancelled"}
              /\ \A c \in BookingIds \ {b} : booking'[c] = booking[c]
              /\ booking'[b].quote = booking[b].quote
              /\ booking'[b].status \in {booking[b].status, "confirmed"}
              /\ booking'[b].status # booking[b].status => booking[b].status = "provisional"
<1>. DEFINE r == req[s]
            b == r.booking
            row == booking[b]
            next == Paid(row, r)
<1>1. /\ r.pc = "paid"
      /\ booking' = [booking EXCEPT ![b] = next]
      /\ req' = [req EXCEPT ![s] = Idle]
  BY DEF CommitPayment
<1>2. r \in Requests /\ b \in BookingIds /\ row \in Rows
  BY <1>1, WorkIsOnARow
<1>3. /\ row.status # "cancelled"
      /\ r.confirms <=> /\ row.status = "provisional"
                        /\ IsConfirmable(row.schedule, Received(row, r.amount))
  BY <1>1, OnItsBooking DEF StillPayable, WeighedNow
<1>4. /\ next.received = row.received + r.amount
      /\ next.schedule = row.schedule
      /\ next.quote = row.quote
      /\ next.status = IF r.confirms THEN "confirmed" ELSE row.status
  BY <1>2 DEF Paid, Rows
<1>. HIDE DEF next
<1>5. ~Confirmable(next)
  BY <1>3, <1>4 DEF Confirmable, Received
<1>6. next.status \in ACTIVE_STATUSES => Active(b) /\ next.quote = row.quote
  BY <1>3, <1>4 DEF Active, ACTIVE_STATUSES
<1>7. HoldingInv'
  BY <1>1, <1>2, <1>5, <1>6, RowHolds
<1>8. booking'[b] = next /\ \A c \in BookingIds \ {b} : booking'[c] = booking[c]
  BY <1>1, <1>2 DEF TypeOK
<1>9. row.status # "absent"
  BY <1>2 DEF Rows, Statuses
<1>. QED
  BY <1>2, <1>3, <1>4, <1>7, <1>8, <1>9

\* A booking ended was active, and only its status changes.
LEMMA EndHolds ==
  ASSUME TypeOK, HoldingInv, OneSession, NEW s \in Sessions,
         CommitCancel(s) \/ CommitComplete(s)
  PROVE  /\ HoldingInv'
         /\ \E b \in BookingIds :
              /\ Active(b)
              /\ \A c \in BookingIds \ {b} : booking'[c] = booking[c]
              /\ booking'[b].quote = booking[b].quote
              /\ booking'[b].status \in {"cancelled", "completed"}
<1>. DEFINE r == req[s]
            b == r.booking
            row == booking[b]
<1>1. PICK status \in {"cancelled", "completed"} :
        /\ r.pc \in {"cancelling", "completing"}
        /\ booking' = [booking EXCEPT ![b].status = status]
        /\ req' = [req EXCEPT ![s] = Idle]
  BY DEF CommitCancel, CommitComplete
<1>. DEFINE next == [row EXCEPT !.status = status]
<1>2. b \in BookingIds /\ row \in Rows /\ Active(b)
  BY <1>1, WorkIsOnARow, OnItsBooking DEF StillActive
<1>3. next.status = status /\ next.quote = row.quote
  BY <1>2 DEF Rows
<1>4. booking' = [booking EXCEPT ![b] = next]
  BY <1>1, <1>2 DEF TypeOK
<1>. HIDE DEF next
<1>5. HoldingInv'
  BY <1>1, <1>2, <1>3, <1>4, RowHolds DEF Confirmable, ACTIVE_STATUSES
<1>6. booking'[b] = next /\ \A c \in BookingIds \ {b} : booking'[c] = booking[c]
  BY <1>2, <1>4 DEF TypeOK
<1>. QED
  BY <1>2, <1>3, <1>5, <1>6

\* A new booking takes a trip that is free, and has received nothing yet.
LEMMA CreateHolds ==
  ASSUME TypeOK, HoldingInv, OneSession, NEW s \in Sessions, NEW b \in BookingIds,
         CommitCreate(s, b)
  PROVE  /\ HoldingInv'
         /\ booking[b].status = "absent"
         /\ \A c \in BookingIds \ {b} : booking'[c] = booking[c]
         /\ booking'[b].status = "provisional"
         /\ booking'[b].quote \in Quotes
         /\ ActiveFor(booking'[b].quote) = {}
<1>. DEFINE r == req[s]
            row == [status |-> "provisional", quote |-> r.quote, terms |-> r.terms,
                    schedule |-> r.schedule, year |-> r.year,
                    number |-> r.number, received |-> 0]
<1>1. /\ r.pc = "numbered"
      /\ booking[b].status = "absent"
      /\ Insertable(r.schedule)
      /\ booking' = [booking EXCEPT ![b] = row]
      /\ req' = [req EXCEPT ![s] = Idle]
  BY DEF CommitCreate, Exists
<1>2. r.quote \in Quotes /\ r.schedule \in Schedules /\ ActiveFor(r.quote) = {}
  BY <1>1, OnItsBooking DEF StillFree, TypeOK, WellFormed
<1>3. ~Confirmable(row)
  BY <1>1, <1>2, NothingConfirmsNothing DEF Confirmable
<1>4. row.status = "provisional" /\ row.quote = r.quote
  OBVIOUS
<1>. HIDE DEF row
<1>5. HoldingInv'
  BY <1>1, <1>2, <1>3, <1>4, RowHolds
<1>6. booking'[b] = row /\ \A c \in BookingIds \ {b} : booking'[c] = booking[c]
  BY <1>1 DEF TypeOK
<1>. QED
  BY <1>1, <1>2, <1>4, <1>5, <1>6

\* Every other step of a request leaves the bookings alone.
LEMMA WorkHolds ==
  ASSUME TypeOK, HoldingInv, OneSession, NEW s \in Sessions,
         MissCounter(s) \/ LockCounter(s) \/ WeighPayment(s) \/ RollBack(s)
  PROVE  HoldingInv' /\ UNCHANGED booking
<1>. DEFINE r == req[s]
            row == booking[r.booking]
<1>0. /\ r \in Requests
      /\ StillFree(r) /\ StillPayable(r)
      /\ StillActive(r) /\ WeighedNow(r)
  BY OnItsBooking
<1>1. CASE MissCounter(s)
  <2>. DEFINE next == [r EXCEPT !.pc = "inserting"]
  <2>1. req' = [req EXCEPT ![s] = next] /\ UNCHANGED booking /\ r.pc = "numbering"
    BY <1>1 DEF MissCounter
  <2>2. next.pc = "inserting" /\ next.quote = r.quote
    BY <1>0 DEF Requests
  <2>. HIDE DEF next
  <2>. QED
    BY <1>0, <2>1, <2>2, MoveHolds DEF StillFree, StillPayable, StillActive, WeighedNow
<1>2. CASE LockCounter(s)
  <2>. DEFINE next == [r EXCEPT !.pc = "numbered", !.number = counter[r.year] + 1]
  <2>1. /\ req' = [req EXCEPT ![s] = next]
        /\ UNCHANGED booking
        /\ r.pc \in {"numbering", "inserting"}
    BY <1>2 DEF LockCounter
  <2>2. next.pc = "numbered" /\ next.quote = r.quote
    BY <1>0 DEF Requests
  <2>. HIDE DEF next
  <2>. QED
    BY <1>0, <2>1, <2>2, MoveHolds DEF StillFree, StillPayable, StillActive, WeighedNow
<1>3. CASE WeighPayment(s)
  <2>. DEFINE confirms == /\ row.status = "provisional"
                          /\ IsConfirmable(row.schedule, Received(row, r.amount))
              next == [r EXCEPT !.pc = "paid", !.confirms = confirms]
  <2>1. req' = [req EXCEPT ![s] = next] /\ UNCHANGED booking /\ r.pc = "paying"
    BY <1>3 DEF WeighPayment
  <2>2. /\ next.pc = "paid"
        /\ next.booking = r.booking
        /\ next.amount = r.amount
        /\ next.confirms = confirms
    BY <1>0 DEF Requests
  <2>3. WeighedNow(next)
    BY <2>2 DEF WeighedNow
  <2>. HIDE DEF next, confirms
  <2>. QED
    BY <1>0, <2>1, <2>2, <2>3, MoveHolds DEF StillFree, StillPayable, StillActive
<1>4. CASE RollBack(s)
  BY <1>4, IdleHolds, MoveHolds DEF RollBack
<1>. QED
  BY <1>1, <1>2, <1>3, <1>4

LEMMA BeginsOnly ==
  ASSUME NEW s \in Sessions, Begin(s)
  PROVE  UNCHANGED booking
BY DEF Begin, BeginWork, BeginCreate, BeginPayment, BeginCancel, BeginComplete

LEMMA NextHolding == OneSession /\ TypeOK /\ HoldingInv /\ [Next]_vars => HoldingInv'
<1>. SUFFICES ASSUME OneSession, TypeOK, HoldingInv, [Next]_vars PROVE HoldingInv'
  OBVIOUS
<1>1. ASSUME NEW s \in Sessions, Begin(s) \/ Step(s) \/ Crash(s) PROVE HoldingInv'
  BY <1>1, BeginHolds, PaymentHolds, EndHolds, CreateHolds, WorkHolds
  DEF Step, Refuse, Crash
<1>2. CASE UNCHANGED bookingVars
  BY <1>2 DEF bookingVars, HoldingInv, NothingMoved, OneTripHeldOnce, NoneLeftProvisional,
              StillFree, StillPayable, StillActive, WeighedNow, ActiveFor, Active
<1>. QED
  BY <1>1, <1>2 DEF Next, BookingNext, vars, bookingVars

\* What a request's check established is still so when it commits, for any
\* sequence of requests served one at a time.
LEMMA HoldingHolds ==
  ASSUME OneSession
  PROVE  Spec => []HoldingInv
<1>1. TypeOK /\ HoldingInv /\ [Next]_vars => HoldingInv'
  BY NextHolding
<1>. QED
  BY InitHolding, BookingsTypeCorrect, <1>1, PTL DEF Spec

\* "It will not hold one trip twice": at most one active booking for a quote.
THEOREM TripsHeldOnce ==
  ASSUME OneSession
  PROVE  Spec => []OneTripHeldOnce
<1>1. HoldingInv => OneTripHeldOnce
  BY DEF HoldingInv
<1>. QED
  BY HoldingHolds, <1>1, PTL

\* A booking whose deposit has landed is not left provisional.
THEOREM DepositsConfirm ==
  ASSUME OneSession
  PROVE  Spec => []DepositConfirms
<1>1. HoldingInv => DepositConfirms
  BY DEF HoldingInv, NoneLeftProvisional, Confirmable, DepositConfirms
<1>. QED
  BY HoldingHolds, <1>1, PTL

-------------------------------------------------------------------------------
(***************************************************************************)
(* The steps of the bookings against those of TripHolding                  *)
(***************************************************************************)

\* The steps of a request that write a booking, and the one that writes none.
LEMMA StepsOnBookings ==
  ASSUME TypeOK, HoldingInv, OneSession, BookingNext
  PROVE  \/ UNCHANGED booking
         \/ \E s \in Sessions, b \in BookingIds : CommitCreate(s, b)
         \/ \E s \in Sessions : CommitPayment(s)
         \/ \E s \in Sessions : CommitCancel(s) \/ CommitComplete(s)
BY BeginsOnly, WorkHolds DEF BookingNext, Step, Refuse, Crash

\* No step takes money on a cancelled booking, or brings it back.
THEOREM CancelledStaysClosed ==
  ASSUME OneSession
  PROVE  Spec => CancelledIsClosed
<1>. DEFINE Closed == \A b \in BookingIds :
                        booking[b].status = "cancelled" =>
                          UNCHANGED <<booking[b].status, booking[b].received>>
<1>1. ASSUME TypeOK, HoldingInv, BookingNext PROVE Closed
  <2>1. CASE UNCHANGED booking
    BY <2>1
  <2>2. ASSUME NEW s \in Sessions, NEW b \in BookingIds, CommitCreate(s, b) PROVE Closed
    BY <1>1, <2>2, CreateHolds
  <2>3. ASSUME NEW s \in Sessions, CommitPayment(s) PROVE Closed
    BY <1>1, <2>3, PaymentHolds
  <2>4. ASSUME NEW s \in Sessions, CommitCancel(s) \/ CommitComplete(s) PROVE Closed
    <3>1. PICK b \in BookingIds : Active(b) /\ \A c \in BookingIds \ {b} : booking'[c] = booking[c]
      BY <1>1, <2>4, EndHolds
    <3>. QED
      BY <3>1 DEF Active, ACTIVE_STATUSES
  <2>. QED
    BY <1>1, <2>1, <2>2, <2>3, <2>4, StepsOnBookings
<1>2. TypeOK /\ HoldingInv /\ [Next]_vars => [Closed]_vars
  <2>. SUFFICES ASSUME TypeOK, HoldingInv, Next PROVE Closed
    BY DEF vars
  <2>1. CASE BookingNext
    BY <1>1, <2>1
  <2>2. CASE UNCHANGED bookingVars
    BY <2>2 DEF bookingVars
  <2>. QED
    BY <2>1, <2>2 DEF Next
<1>. QED
  BY BookingsTypeCorrect, HoldingHolds, <1>2, PTL DEF Spec, CancelledIsClosed

\* The state of TripHolding a state of the bookings stands for.
Fates == [b \in BookingIds |-> booking[b].status]
Trips == [b \in BookingIds |-> booking[b].quote]

LEMMA HeldForIsActiveFor ==
  ASSUME NEW q
  PROVE  Holding!HeldFor(q) = ActiveFor(q)
BY DEF Holding!HeldFor, Holding!Held, ActiveFor, Active, ACTIVE_STATUSES

LEMMA CreateIsHold ==
  ASSUME TypeOK, HoldingInv, OneSession, NEW s \in Sessions, NEW b \in BookingIds,
         CommitCreate(s, b)
  PROVE  Holding!Next
<1>1. PICK q \in Quotes : q = booking'[b].quote
  BY CreateHolds
<1>2. /\ booking[b].status = "absent"
      /\ \A c \in BookingIds \ {b} : booking'[c] = booking[c]
      /\ booking'[b].status = "provisional"
      /\ ActiveFor(q) = {}
  BY <1>1, CreateHolds
<1>3. Fates[b] = "absent" /\ Holding!HeldFor(q) = {}
  BY <1>2, HeldForIsActiveFor DEF Fates
<1>4. Fates' = [Fates EXCEPT ![b] = "provisional"]
  BY <1>2 DEF Fates
<1>5. Trips' = [Trips EXCEPT ![b] = q]
  BY <1>1, <1>2 DEF Trips
<1>6. Holding!Hold(b, q)
  BY <1>3, <1>4, <1>5 DEF Holding!Hold, Fates, Trips
<1>. QED
  BY <1>6 DEF Holding!Next

LEMMA PaymentIsConfirm ==
  ASSUME TypeOK, HoldingInv, OneSession, NEW s \in Sessions, CommitPayment(s)
  PROVE  Holding!Next \/ UNCHANGED <<Fates, Trips>>
<1>1. PICK b \in BookingIds :
        /\ \A c \in BookingIds \ {b} : booking'[c] = booking[c]
        /\ booking'[b].quote = booking[b].quote
        /\ booking'[b].status \in {booking[b].status, "confirmed"}
        /\ booking'[b].status # booking[b].status => booking[b].status = "provisional"
  BY PaymentHolds
<1>2. UNCHANGED Trips
  BY <1>1 DEF Trips
<1>3. CASE booking'[b].status = booking[b].status
  BY <1>1, <1>2, <1>3 DEF Fates
<1>4. CASE booking'[b].status # booking[b].status
  <2>1. Fates[b] = "provisional" /\ Fates' = [Fates EXCEPT ![b] = "confirmed"]
    BY <1>1, <1>4 DEF Fates
  <2>2. Holding!Confirm(b)
    BY <1>2, <2>1 DEF Holding!Confirm, Fates, Trips
  <2>. QED
    BY <2>2 DEF Holding!Next
<1>. QED
  BY <1>3, <1>4

LEMMA EndIsEnd ==
  ASSUME TypeOK, HoldingInv, OneSession, NEW s \in Sessions,
         CommitCancel(s) \/ CommitComplete(s)
  PROVE  Holding!Next
<1>1. PICK b \in BookingIds :
        /\ Active(b)
        /\ \A c \in BookingIds \ {b} : booking'[c] = booking[c]
        /\ booking'[b].quote = booking[b].quote
        /\ booking'[b].status \in {"cancelled", "completed"}
  BY EndHolds
<1>2. PICK outcome \in Holding!Over : outcome = booking'[b].status
  BY <1>1 DEF Holding!Over
<1>3. Fates[b] \in Holding!Held
  BY <1>1 DEF Fates, Active, ACTIVE_STATUSES, Holding!Held
<1>4. UNCHANGED Trips /\ Fates' = [Fates EXCEPT ![b] = outcome]
  BY <1>1, <1>2 DEF Trips, Fates
<1>5. Holding!End(b, outcome)
  BY <1>3, <1>4 DEF Holding!End, Fates, Trips
<1>. QED
  BY <1>5 DEF Holding!Next

\* The bookings implement TripHolding: every commit of a request served alone
\* is one of its steps, and every other step of the server is none.
THEOREM BookingsHoldTrips ==
  ASSUME OneSession
  PROVE  Spec => HoldsTrips
<1>1. Init => Holding!Init
  BY DEF Init, BookingInit, NoBooking, Holding!Init
<1>2. TypeOK /\ HoldingInv /\ [Next]_vars => [Holding!Next]_<<Fates, Trips>>
  <2>. SUFFICES ASSUME TypeOK, HoldingInv, [Next]_vars
                PROVE  Holding!Next \/ UNCHANGED <<Fates, Trips>>
    OBVIOUS
  <2>1. CASE UNCHANGED booking
    BY <2>1 DEF Fates, Trips
  <2>2. CASE BookingNext
    BY <2>1, <2>2, StepsOnBookings, CreateIsHold, PaymentIsConfirm, EndIsEnd
  <2>. QED
    BY <2>1, <2>2 DEF Next, vars, bookingVars
<1>. QED
  BY BookingsTypeCorrect, HoldingHolds, <1>1, <1>2, PTL
  DEF Spec, HoldsTrips, Holding!Spec, Fates, Trips

(***************************************************************************)
(* The walk, unfolded                                                      *)
(***************************************************************************)

\* The recursion under FoldLeft, at a set of positions of the order.
Walked(schedule, day, start, order, s, g) ==
  IF s = {} THEN start
  ELSE Cover(schedule, day, g[s \ {Max(s)}], order[Max(s)])

Start(received) == [running |-> received, nextDue |-> 0, overdue |-> {}]

LEMMA WalkIsChosen ==
  ASSUME NEW schedule, NEW received, NEW day
  PROVE  LET order == OldestFirst(schedule)
         IN  Walk(schedule, received, day) =
               (CHOOSE g : g = [s \in SUBSET DOMAIN order |->
                                  Walked(schedule, day, Start(received), order, s, g)])[DOMAIN order]
BY DEF Walk, FoldLeft, MapThenFoldSet, Walked, Start

LEMMA MaxOfOne == Max({1}) = 1 /\ Max({2}) = 2 /\ Max({1, 2}) = 2
BY DEF Max

LEMMA OrderOfOne ==
  ASSUME NEW schedule, DOMAIN schedule = {1}
  PROVE  OldestFirst(schedule) \in [{1} -> {1}]
<1>1. \E order \in [{1} -> {1}] : \A i, j \in {1} : i < j => Earlier(schedule, order[i], order[j])
  <2>1. [i \in {1} |-> 1] \in [{1} -> {1}] /\ \A i, j \in {1} : ~(i < j)
    OBVIOUS
  <2>. QED
    BY <2>1
<1>. QED
  BY <1>1 DEF OldestFirst

LEMMA OrderOfTwo ==
  ASSUME NEW schedule, DOMAIN schedule = {1, 2},
         schedule[1].dueOn \in Int, schedule[2].dueOn \in Int,
         schedule[1].dueOn < schedule[2].dueOn
  PROVE  /\ OldestFirst(schedule) \in [{1, 2} -> {1, 2}]
         /\ OldestFirst(schedule)[1] = 1 /\ OldestFirst(schedule)[2] = 2
<1>. DEFINE Sorted(order) == \A i, j \in {1, 2} : i < j => Earlier(schedule, order[i], order[j])
            asIs == [i \in {1, 2} |-> i]
<1>1. asIs \in [{1, 2} -> {1, 2}] /\ Sorted(asIs)
  BY DEF Earlier
<1>2. ASSUME NEW order \in [{1, 2} -> {1, 2}], Sorted(order)
      PROVE  order[1] = 1 /\ order[2] = 2
  <2>1. Earlier(schedule, order[1], order[2])
    BY <1>2
  <2>2. order[1] \in {1, 2} /\ order[2] \in {1, 2}
    OBVIOUS
  <2>. QED
    BY <2>1, <2>2 DEF Earlier
<1>3. OldestFirst(schedule) = CHOOSE order \in [{1, 2} -> {1, 2}] : Sorted(order)
  BY DEF OldestFirst
<1>. HIDE DEF Sorted
<1>4. OldestFirst(schedule) \in [{1, 2} -> {1, 2}] /\ Sorted(OldestFirst(schedule))
  BY <1>1, <1>3
<1>. QED
  BY <1>2, <1>4

LEMMA WalkOfOne ==
  ASSUME NEW schedule, NEW received, NEW day, DOMAIN schedule = {1}
  PROVE  Walk(schedule, received, day) = Cover(schedule, day, Start(received), 1)
<1>. DEFINE order == OldestFirst(schedule)
            start == Start(received)
            IsWalk(g) == g = [s \in SUBSET {1} |-> Walked(schedule, day, start, order, s, g)]
            first == Cover(schedule, day, start, 1)
            h == [s \in SUBSET {1} |-> IF s = {} THEN start ELSE first]
<1>1. DOMAIN order = {1} /\ order[1] = 1
  BY OrderOfOne
<1>2. Walk(schedule, received, day) = (CHOOSE g : IsWalk(g))[{1}]
  BY <1>1, WalkIsChosen
<1>. HIDE DEF order, start, first
<1>3. \A s \in SUBSET {1} : s = {} \/ s = {1}
  OBVIOUS
<1>4. IsWalk(h)
  <2>1. h[{}] = start /\ h[{1}] = first /\ {1} \ {1} = {}
    OBVIOUS
  <2>. HIDE DEF h
  <2>2. h[{}] = Walked(schedule, day, start, order, {}, h)
    BY <2>1 DEF Walked
  <2>3. h[{1}] = Walked(schedule, day, start, order, {1}, h)
    BY <1>1, <2>1, MaxOfOne DEF Walked, first
  <2>4. \A s \in SUBSET {1} : h[s] = Walked(schedule, day, start, order, s, h)
    BY <1>3, <2>2, <2>3
  <2>. QED
    BY <2>4 DEF h
<1>5. \A g : IsWalk(g) => g[{1}] = first
  <2>. SUFFICES ASSUME NEW g, IsWalk(g) PROVE g[{1}] = first
    OBVIOUS
  <2>1. g[{}] = start
    BY DEF Walked
  <2>2. g[{1}] = Cover(schedule, day, g[{1} \ {1}], 1)
    BY <1>1, MaxOfOne DEF Walked
  <2>. QED
    BY <2>1, <2>2 DEF first
<1>. HIDE DEF IsWalk, h
<1>. QED
  BY <1>2, <1>4, <1>5 DEF start, first

LEMMA WalkOfTwo ==
  ASSUME NEW schedule, NEW received, NEW day, DOMAIN schedule = {1, 2},
         schedule[1].dueOn \in Int, schedule[2].dueOn \in Int,
         schedule[1].dueOn < schedule[2].dueOn
  PROVE  Walk(schedule, received, day) =
           Cover(schedule, day, Cover(schedule, day, Start(received), 1), 2)
<1>. DEFINE order == OldestFirst(schedule)
            start == Start(received)
            IsWalk(g) == g = [s \in SUBSET {1, 2} |-> Walked(schedule, day, start, order, s, g)]
            first == Cover(schedule, day, start, 1)
            second == Cover(schedule, day, first, 2)
            alone == Cover(schedule, day, start, 2)
            h == [s \in SUBSET {1, 2} |-> IF s = {} THEN start
                                          ELSE IF s = {1} THEN first
                                          ELSE IF s = {2} THEN alone ELSE second]
<1>1. DOMAIN order = {1, 2} /\ order[1] = 1 /\ order[2] = 2
  BY OrderOfTwo
<1>2. Walk(schedule, received, day) = (CHOOSE g : IsWalk(g))[{1, 2}]
  BY <1>1, WalkIsChosen
<1>. HIDE DEF order, start, first, second, alone
<1>3. \A s \in SUBSET {1, 2} : s = {} \/ s = {1} \/ s = {2} \/ s = {1, 2}
  OBVIOUS
<1>4. {1} \ {1} = {} /\ {2} \ {2} = {} /\ {1, 2} \ {2} = {1}
  OBVIOUS
<1>5. IsWalk(h)
  <2>1. h[{}] = start /\ h[{1}] = first /\ h[{2}] = alone /\ h[{1, 2}] = second
    OBVIOUS
  <2>. HIDE DEF h
  <2>2. \A s \in SUBSET {1, 2} : h[s] = Walked(schedule, day, start, order, s, h)
    <3>. SUFFICES ASSUME NEW s \in SUBSET {1, 2}
                  PROVE  h[s] = Walked(schedule, day, start, order, s, h)
      OBVIOUS
    <3>1. CASE s = {}
      BY <2>1, <3>1 DEF Walked
    <3>2. CASE s = {1}
      BY <1>1, <1>4, <2>1, <3>2, MaxOfOne DEF Walked, first
    <3>3. CASE s = {2}
      BY <1>1, <1>4, <2>1, <3>3, MaxOfOne DEF Walked, alone
    <3>4. CASE s = {1, 2}
      BY <1>1, <1>4, <2>1, <3>4, MaxOfOne DEF Walked, second
    <3>. QED
      BY <1>3, <3>1, <3>2, <3>3, <3>4
  <2>. QED
    BY <2>2 DEF h
<1>6. \A g : IsWalk(g) => g[{1, 2}] = second
  <2>. SUFFICES ASSUME NEW g, IsWalk(g) PROVE g[{1, 2}] = second
    OBVIOUS
  <2>1. \A s \in SUBSET {1, 2} : g[s] = Walked(schedule, day, start, order, s, g)
    OBVIOUS
  <2>2. g[{}] = start
    BY <2>1 DEF Walked
  <2>3. g[{1}] = Cover(schedule, day, g[{1} \ {1}], 1)
    BY <1>1, <2>1, MaxOfOne DEF Walked
  <2>4. g[{1, 2}] = Cover(schedule, day, g[{1, 2} \ {2}], 2)
    BY <1>1, <2>1, MaxOfOne DEF Walked
  <2>. QED
    BY <1>4, <2>2, <2>3, <2>4 DEF first, second
<1>. HIDE DEF IsWalk, h
<1>. QED
  BY <1>2, <1>5, <1>6 DEF start, first, second

-------------------------------------------------------------------------------
(***************************************************************************)
(* The schedules a booking can have                                        *)
(***************************************************************************)

\* What build makes of some terms, on a day no later than the last: one instalment of
\* the total, or two that make it, the second due by the arrival.
Drafted(due, terms, last) ==
  /\ due \in Schedules
  /\ due[1].dueOn <= last
  /\ \/ DOMAIN due = {1} /\ due[1].amount = terms.total
     \/ /\ DOMAIN due = {1, 2}
        /\ due[1].amount + due[2].amount = terms.total
        /\ due[1].dueOn < due[2].dueOn
        /\ due[2].dueOn <= terms.arrival

Billed(due, terms, last) == Drafted(due, terms, last) /\ Insertable(due)

BillInv ==
  /\ \A b \in BookingIds :
       Exists(b) => Billed(booking[b].schedule, booking[b].terms, today)
  /\ \A s \in Sessions :
       Creating(s) => Drafted(req[s].schedule, req[s].terms, today)

LEMMA DraftFields ==
  ASSUME NEW due, NEW terms, NEW last, Drafted(due, terms, last)
  PROVE  /\ \A i \in DOMAIN due : due[i].dueOn \in Int /\ due[i].amount \in Int
         /\ 1 \in DOMAIN due
BY DEF Drafted, Schedules, Instalments

LEMMA BuildIsDrafted ==
  ASSUME NEW terms, terms.total \in Nat, terms.arrival \in Int, NEW day \in Int
  PROVE  Drafted(Build(terms.total, DepositPct, terms.arrival, BalanceDays, day), terms, day)
<1>. DEFINE due == Build(terms.total, DepositPct, terms.arrival, BalanceDays, day)
            deposit == Deposit(terms.total, DepositPct)
            balanceOn == BalanceDay(terms.arrival, BalanceDays)
            full == <<[dueOn |-> day, amount |-> terms.total]>>
            split == << [dueOn |-> day, amount |-> deposit],
                        [dueOn |-> balanceOn, amount |-> terms.total - deposit] >>
<1>1. due \in Schedules
  BY BookingsAssumption, BuildIsSchedule
<1>2. deposit \in Int
  <2>1. PICK total \in Int : total = terms.total
    OBVIOUS
  <2>2. DepositPct \in Int
    BY BookingsAssumption
  <2>. QED
    BY <2>1, <2>2, DepositIsInt
<1>3. balanceOn \in Int /\ balanceOn <= terms.arrival
  BY BookingsAssumption DEF BalanceDay, Positive
<1>4. \/ due = full
      \/ due = split /\ balanceOn > day
  BY <1>2, <1>3 DEF Build
<1>. HIDE DEF due, deposit, balanceOn
<1>5. CASE due = full
  <2>1. DOMAIN due = {1} /\ due[1].dueOn = day /\ due[1].amount = terms.total
    BY <1>5
  <2>. QED
    BY <1>1, <2>1 DEF Drafted, due
<1>6. CASE due = split /\ balanceOn > day
  <2>1. /\ DOMAIN due = {1, 2}
        /\ due[1].dueOn = day /\ due[1].amount = deposit
        /\ due[2].dueOn = balanceOn /\ due[2].amount = terms.total - deposit
    BY <1>6
  <2>. HIDE DEF split, full
  <2>2. Drafted(due, terms, day)
    BY <1>1, <1>2, <1>3, <1>6, <2>1 DEF Drafted
  <2>. QED
    BY <2>2 DEF due
<1>. QED
  BY <1>4, <1>5, <1>6

LEMMA DraftLasts ==
  ASSUME NEW due, NEW terms, NEW last \in Int, NEW later \in Int, last <= later,
         Drafted(due, terms, last)
  PROVE  Drafted(due, terms, later)
BY DraftFields DEF Drafted

-------------------------------------------------------------------------------
(***************************************************************************)
(* What the walk finds                                                     *)
(***************************************************************************)

\* The sums a statement takes over a bill.
LEMMA BillSums ==
  ASSUME NEW due, NEW terms, NEW last, Drafted(due, terms, last)
  PROVE  /\ AskedBy(due, 1) = due[1].amount
         /\ 2 \in DOMAIN due => AskedBy(due, 2) = terms.total
         /\ 2 \notin DOMAIN due => AskedBy(due, 1) = terms.total
         /\ Total(due) = terms.total
<1>. DEFINE amounts == [i \in DOMAIN due |-> due[i].amount]
<1>1. /\ \A i \in DOMAIN due : due[i].dueOn \in Int /\ due[i].amount \in Int
      /\ 1 \in DOMAIN due
  BY DraftFields
<1>2. /\ Integral(amounts, DOMAIN due)
      /\ \A i \in DOMAIN due : amounts[i] = due[i].amount
      /\ amounts[1] = due[1].amount
  BY <1>1 DEF Integral
<1>3. /\ \A some : Asked(due, some) = SumFunctionOnSet(amounts, some)
      /\ \A i : AskedBy(due, i) =
                  SumFunctionOnSet(amounts, {j \in DOMAIN due : due[j].dueOn <= due[i].dueOn})
      /\ Total(due) = SumFunctionOnSet(amounts, DOMAIN due)
  BY DEF Asked, AskedBy, Total
<1>. HIDE DEF amounts
<1>4. SumFunctionOnSet(amounts, {1}) = due[1].amount
  <2>1. IsFiniteSet({1}) /\ Integral(amounts, {1}) /\ {1} \ {1} = {}
    BY <1>1, <1>2, FS_Singleton DEF Integral
  <2>2. SumFunctionOnSet(amounts, {1}) = amounts[1] + SumFunctionOnSet(amounts, {1} \ {1})
    BY <2>1, SumTakes
  <2>. QED
    BY <1>1, <1>2, <2>1, <2>2, SumOfNone
<1>5. CASE DOMAIN due = {1} /\ due[1].amount = terms.total
  <2>1. {j \in DOMAIN due : due[j].dueOn <= due[1].dueOn} = {1}
    BY <1>1, <1>5
  <2>. QED
    BY <1>3, <1>4, <1>5, <2>1
<1>6. CASE /\ DOMAIN due = {1, 2}
           /\ due[1].amount + due[2].amount = terms.total
           /\ due[1].dueOn < due[2].dueOn
  <2>1. /\ {j \in DOMAIN due : due[j].dueOn <= due[1].dueOn} = {1}
        /\ {j \in DOMAIN due : due[j].dueOn <= due[2].dueOn} = {1, 2}
    BY <1>1, <1>6
  <2>2. IsFiniteSet({1, 2}) /\ Integral(amounts, {1, 2}) /\ {1, 2} \ {2} = {1}
    <3>1. IsFiniteSet({1})
      BY FS_Singleton
    <3>2. IsFiniteSet({1} \cup {2})
      BY <3>1, FS_AddElement
    <3>3. {1, 2} = {1} \cup {2} /\ {1, 2} \ {2} = {1}
      OBVIOUS
    <3>4. Integral(amounts, {1, 2})
      BY <1>2, <1>6
    <3>. QED
      BY <3>2, <3>3, <3>4
  <2>3. SumFunctionOnSet(amounts, {1, 2}) = amounts[2] + SumFunctionOnSet(amounts, {1})
    <3>1. SumFunctionOnSet(amounts, {1, 2}) = amounts[2] + SumFunctionOnSet(amounts, {1, 2} \ {2})
      BY <2>2, SumTakes
    <3>. QED
      BY <2>2, <3>1
  <2>4. amounts[2] = due[2].amount /\ due[1].amount \in Int /\ due[2].amount \in Int
    BY <1>1, <1>2, <1>6
  <2>5. SumFunctionOnSet(amounts, {1, 2}) = terms.total
    BY <1>4, <1>6, <2>3, <2>4
  <2>. QED
    BY <1>3, <1>4, <1>6, <2>1, <2>5
<1>. QED
  BY <1>5, <1>6 DEF Drafted

Short(due, received) == {i \in DOMAIN due : AskedBy(due, i) > received}

\* The walk over a bill: the first short instalment, and the late ones among them.
LEMMA WalkFinds ==
  ASSUME NEW due, NEW terms, NEW last, Billed(due, terms, last),
         NEW received \in Nat, NEW day \in Int
  PROVE  LET walk == Walk(due, received, day)
             short == Short(due, received)
         IN  /\ walk.overdue = {i \in short : due[i].dueOn < day}
             /\ \/ short = {} /\ walk.nextDue = 0
                \/ walk.nextDue \in short /\ \A j \in short : walk.nextDue <= j
<1>. DEFINE walk == Walk(due, received, day)
            short == Short(due, received)
            late(i) == IF due[i].dueOn < day THEN {i} ELSE {}
<1>1. /\ \A i \in DOMAIN due : due[i].dueOn \in Int /\ due[i].amount \in Int
      /\ 1 \in DOMAIN due
  BY DraftFields DEF Billed
<1>2. /\ AskedBy(due, 1) = due[1].amount
      /\ 2 \in DOMAIN due => AskedBy(due, 2) = terms.total
  BY BillSums DEF Billed
<1>3. \A i \in DOMAIN due : due[i].amount > 0
  BY DEF Billed, Insertable
<1>4. CASE DOMAIN due = {1}
  <2>1. walk = Cover(due, day, Start(received), 1)
    BY <1>4, WalkOfOne
  <2>2. /\ short = IF due[1].amount > received THEN {1} ELSE {}
        /\ due[1].amount \in Int
    BY <1>1, <1>2, <1>4 DEF Short
  <2>. HIDE DEF short, walk
  <2>3. CASE received >= due[1].amount
    BY <2>1, <2>2, <2>3 DEF Cover, Covers, Start, short, walk
  <2>4. CASE ~(received >= due[1].amount)
    <3>1. walk = [running |-> 0, nextDue |-> 1, overdue |-> late(1)] /\ short = {1}
      BY <2>1, <2>2, <2>4 DEF Cover, Covers, Start
    <3>. QED
      BY <3>1 DEF short, walk
  <2>. QED
    BY <2>3, <2>4
<1>5. CASE /\ DOMAIN due = {1, 2}
           /\ due[1].amount + due[2].amount = terms.total
           /\ due[1].dueOn < due[2].dueOn
  <2>1. /\ due[1].amount \in Int /\ due[2].amount \in Int
        /\ due[1].amount > 0 /\ due[2].amount > 0
        /\ due[1].dueOn \in Int /\ due[2].dueOn \in Int
    BY <1>1, <1>3, <1>5
  <2>. DEFINE first == Cover(due, day, Start(received), 1)
              rest == [running |-> received - due[1].amount, nextDue |-> 0, overdue |-> {}]
  <2>2. walk = Cover(due, day, first, 2)
    BY <1>5, <2>1, WalkOfTwo
  <2>3. \A i : i \in short <=> \/ i = 1 /\ due[1].amount > received
                               \/ i = 2 /\ due[1].amount + due[2].amount > received
    BY <1>2, <1>5 DEF Short
  <2>. HIDE DEF short, walk
  <2>4. CASE received >= due[1].amount + due[2].amount
    <3>1. first = rest
      BY <2>1, <2>4 DEF Cover, Covers, Start
    <3>2. Covers(rest.running, due[2])
      BY <2>1, <2>4 DEF Covers
    <3>3. walk.nextDue = 0 /\ walk.overdue = {}
      BY <2>2, <3>1, <3>2 DEF Cover
    <3>4. short = {}
      BY <2>1, <2>3, <2>4
    <3>. QED
      BY <3>3, <3>4 DEF short, walk
  <2>5. CASE received >= due[1].amount /\ received < due[1].amount + due[2].amount
    <3>1. first = rest
      BY <2>1, <2>5 DEF Cover, Covers, Start
    <3>2. ~Covers(rest.running, due[2])
      BY <2>1, <2>5 DEF Covers
    <3>3. walk = [running |-> 0, nextDue |-> 2, overdue |-> late(2)]
      BY <2>2, <3>1, <3>2 DEF Cover
    <3>4. short = {2}
      BY <2>1, <2>3, <2>5
    <3>. QED
      BY <3>3, <3>4 DEF short, walk
  <2>6. CASE received < due[1].amount
    <3>1. first = [running |-> 0, nextDue |-> 1, overdue |-> late(1)]
      BY <2>1, <2>6 DEF Cover, Covers, Start
    <3>2. walk = [running |-> 0, nextDue |-> 1, overdue |-> late(1) \cup late(2)]
      BY <2>1, <2>2, <2>6, <3>1 DEF Cover, Covers
    <3>3. short = {1, 2}
      BY <2>1, <2>3, <2>6
    <3>. QED
      BY <3>2, <3>3 DEF short, walk
  <2>. QED
    BY <2>1, <2>4, <2>5, <2>6
<1>. QED
  BY <1>4, <1>5 DEF Billed, Drafted

-------------------------------------------------------------------------------
(***************************************************************************)
(* The schedules of bookings                                               *)
(***************************************************************************)

LEMMA InitBills == Init => BillInv
BY DEF Init, BookingInit, BillInv, Exists, NoBooking, Creating, Idle

\* A step of a request that leaves the schedules of the bookings alone.
LEMMA BillsStay ==
  ASSUME TypeOK, BillInv, UNCHANGED today, NEW s \in Sessions, NEW r,
         req' = [req EXCEPT ![s] = r],
         r.pc \in {"numbering", "inserting", "numbered"}
           => Drafted(r.schedule, r.terms, today),
         \A b \in BookingIds : /\ Exists(b)' <=> Exists(b)
                               /\ booking'[b].schedule = booking[b].schedule
                               /\ booking'[b].terms = booking[b].terms
  PROVE  BillInv'
<1>1. \A t \in Sessions : Creating(t)' => Drafted(req[t].schedule, req[t].terms, today)'
  <2>. SUFFICES ASSUME NEW t \in Sessions, Creating(t)'
                PROVE  Drafted(req'[t].schedule, req'[t].terms, today)
    BY DEF Drafted, Schedules
  <2>1. CASE t = s
    BY <2>1 DEF TypeOK, Creating
  <2>2. CASE t # s
    BY <2>2 DEF TypeOK, Creating, BillInv
  <2>. QED
    BY <2>1, <2>2
<1>2. \A b \in BookingIds : Exists(b)' => Billed(booking'[b].schedule, booking'[b].terms, today)
  BY DEF BillInv
<1>. QED
  BY <1>1, <1>2 DEF BillInv

\* What a step leaves of every booking there is: its schedule, its terms, and at least
\* the money it had.
GoesOn(b) ==
  Exists(b) => /\ Exists(b)'
               /\ booking'[b].schedule = booking[b].schedule
               /\ booking'[b].terms = booking[b].terms
               /\ booking'[b].received >= booking[b].received

LEMMA ReceivedIsNat ==
  ASSUME TypeOK, NEW b \in BookingIds
  PROVE  booking[b].received \in Nat
BY DEF TypeOK, Rows, NoBooking

LEMMA StepBills ==
  ASSUME TypeOK, BillInv, UNCHANGED today, NEW s \in Sessions, Begin(s) \/ Step(s) \/ Crash(s)
  PROVE  BillInv' /\ \A b \in BookingIds : GoesOn(b)
<1>. DEFINE r == req[s]
            row == booking[r.booking]
            Goal == BillInv' /\ \A b \in BookingIds : GoesOn(b)
<1>0. r \in Requests /\ today \in Int
  BY DEF TypeOK, Days
<1>1. ASSUME UNCHANGED booking, NEW next, req' = [req EXCEPT ![s] = next],
             next.pc \in {"numbering", "inserting", "numbered"}
               => Drafted(next.schedule, next.terms, today)
      PROVE  Goal
  <2>1. \A b \in BookingIds : GoesOn(b)
    BY <1>1, ReceivedIsNat DEF GoesOn, Exists
  <2>. QED
    BY <1>1, <2>1, BillsStay DEF Exists
<1>2. CASE Begin(s)
  <2>1. ASSUME NEW q \in Quotes, NEW t \in Terms, BeginCreate(s, q, t) PROVE Goal
    <3>. DEFINE due == Build(t.total, DepositPct, t.arrival, BalanceDays, today)
                next == [Idle EXCEPT !.pc = "numbering", !.quote = q, !.terms = t,
                                     !.schedule = due, !.year = YearOf(today)]
    <3>1. Drafted(due, t, today)
      BY <1>0, BookingsAssumption, BuildIsDrafted
    <3>. HIDE DEF due
    <3>2. next.schedule = due /\ next.terms = t
      BY DEF Idle
    <3>3. req' = [req EXCEPT ![s] = next] /\ UNCHANGED booking
      BY <2>1 DEF BeginCreate, due
    <3>. HIDE DEF next
    <3>. QED
      BY <1>1, <3>1, <3>2, <3>3
  <2>2. ASSUME NEW b \in BookingIds, NEW a \in Amounts, BeginPayment(s, b, a) PROVE Goal
    BY <1>1, <2>2 DEF BeginPayment, Idle
  <2>3. ASSUME NEW b \in BookingIds, BeginCancel(s, b) PROVE Goal
    BY <1>1, <2>3 DEF BeginCancel, Idle
  <2>4. ASSUME NEW b \in BookingIds, BeginComplete(s, b) PROVE Goal
    BY <1>1, <2>4 DEF BeginComplete, Idle
  <2>. QED
    BY <1>2, <2>1, <2>2, <2>3, <2>4 DEF Begin, BeginWork
<1>3. CASE RollBack(s)
  BY <1>1, <1>3 DEF RollBack, Idle
<1>4. CASE MissCounter(s) \/ LockCounter(s) \/ WeighPayment(s)
  <2>1. PICK next : /\ req' = [req EXCEPT ![s] = next] /\ UNCHANGED booking
                    /\ next.schedule = r.schedule /\ next.terms = r.terms
                    /\ next.pc = "paid" \/ Creating(s)
    <3>1. CASE MissCounter(s)
      <4>. DEFINE next == [r EXCEPT !.pc = "inserting"]
      <4>1. next.schedule = r.schedule /\ next.terms = r.terms
        BY <1>0 DEF Requests
      <4>. QED
        BY <3>1, <4>1 DEF MissCounter, Creating
    <3>2. CASE LockCounter(s)
      <4>. DEFINE next == [r EXCEPT !.pc = "numbered", !.number = counter[r.year] + 1]
      <4>1. next.schedule = r.schedule /\ next.terms = r.terms
        BY <1>0 DEF Requests
      <4>. QED
        BY <3>2, <4>1 DEF LockCounter, Creating
    <3>3. CASE WeighPayment(s)
      <4>. DEFINE confirms == /\ row.status = "provisional"
                              /\ IsConfirmable(row.schedule, Received(row, r.amount))
                  next == [r EXCEPT !.pc = "paid", !.confirms = confirms]
      <4>1. req' = [req EXCEPT ![s] = next] /\ UNCHANGED booking
        BY <3>3 DEF WeighPayment
      <4>. HIDE DEF confirms
      <4>2. next.schedule = r.schedule /\ next.terms = r.terms /\ next.pc = "paid"
        BY <1>0 DEF Requests
      <4>. QED
        BY <4>1, <4>2
    <3>. QED
      BY <1>4, <3>1, <3>2, <3>3
  <2>2. next.pc \in {"numbering", "inserting", "numbered"}
          => Drafted(next.schedule, next.terms, today)
    BY <2>1 DEF BillInv
  <2>. QED
    BY <1>1, <2>1, <2>2
<1>5. ASSUME NEW b \in BookingIds, CommitCreate(s, b) PROVE Goal
  <2>. DEFINE new == [status |-> "provisional", quote |-> r.quote, terms |-> r.terms,
                      schedule |-> r.schedule, year |-> r.year,
                      number |-> r.number, received |-> 0]
  <2>1. /\ booking' = [booking EXCEPT ![b] = new] /\ req' = [req EXCEPT ![s] = Idle]
        /\ ~Exists(b) /\ Insertable(r.schedule) /\ Creating(s)
    BY <1>5 DEF CommitCreate, Creating
  <2>2. Billed(new.schedule, new.terms, today)
    BY <2>1 DEF BillInv, Billed
  <2>3. /\ booking'[b] = new
        /\ \A c \in BookingIds \ {b} : booking'[c] = booking[c]
    BY <2>1 DEF TypeOK
  <2>. HIDE DEF new
  <2>4. \A c \in BookingIds : Exists(c)' => Billed(booking'[c].schedule, booking'[c].terms, today)
    BY <2>2, <2>3 DEF BillInv, Exists
  <2>5. \A t \in Sessions : Creating(t)' => Drafted(req'[t].schedule, req'[t].terms, today)
    <3>. SUFFICES ASSUME NEW t \in Sessions, Creating(t)'
                  PROVE  Drafted(req'[t].schedule, req'[t].terms, today)
      OBVIOUS
    <3>1. t # s /\ req'[t] = req[t]
      BY <2>1 DEF TypeOK, Creating, Idle
    <3>. QED
      BY <3>1 DEF Creating, BillInv
  <2>6. \A c \in BookingIds : GoesOn(c)
    BY <2>1, <2>3, ReceivedIsNat DEF GoesOn, Exists
  <2>. QED
    BY <2>4, <2>5, <2>6 DEF BillInv
<1>6. ASSUME NEW b \in BookingIds, booking[b] \in Rows, NEW next \in Rows,
             booking' = [booking EXCEPT ![b] = next], req' = [req EXCEPT ![s] = Idle],
             next.schedule = booking[b].schedule, next.terms = booking[b].terms,
             next.received >= booking[b].received
      PROVE  Goal
  <2>1. booking'[b] = next /\ \A c \in BookingIds \ {b} : booking'[c] = booking[c]
    BY <1>6 DEF TypeOK
  <2>2. Exists(b) /\ Exists(b)'
    BY <1>6, <2>1 DEF Exists, Rows, Statuses
  <2>3. \A c \in BookingIds : /\ Exists(c)' <=> Exists(c)
                              /\ booking'[c].schedule = booking[c].schedule
                              /\ booking'[c].terms = booking[c].terms
    BY <1>6, <2>1, <2>2 DEF Exists
  <2>4. \A c \in BookingIds : GoesOn(c)
    BY <1>6, <2>1, <2>2, <2>3, ReceivedIsNat DEF GoesOn
  <2>5. Idle.pc = "idle"
    BY DEF Idle
  <2>. HIDE DEF GoesOn
  <2>. QED
    BY <1>6, <2>3, <2>4, <2>5, BillsStay
<1>7. CASE CommitPayment(s)
  <2>1. r.booking \in BookingIds /\ row \in Rows
    BY <1>7, WorkIsOnARow DEF CommitPayment
  <2>. DEFINE next == Paid(row, r)
  <2>2. booking' = [booking EXCEPT ![r.booking] = next] /\ req' = [req EXCEPT ![s] = Idle]
    BY <1>7 DEF CommitPayment
  <2>3. next \in Rows
    BY <1>0, <2>1, PaidIsRow
  <2>4. /\ next.schedule = row.schedule /\ next.terms = row.terms
        /\ next.received = row.received + r.amount
    BY <2>1 DEF Paid, Rows
  <2>5. row.received \in Nat /\ r.amount \in Nat
    BY <1>0, <2>1 DEF Rows, Requests
  <2>6. next.received >= row.received
    BY <2>4, <2>5
  <2>. HIDE DEF next
  <2>. QED
    BY <1>6, <2>1, <2>2, <2>3, <2>4, <2>6
<1>8. CASE CommitCancel(s) \/ CommitComplete(s)
  <2>1. r.booking \in BookingIds /\ row \in Rows
    BY <1>8, WorkIsOnARow DEF CommitCancel, CommitComplete
  <2>2. PICK status \in {"cancelled", "completed"} :
          /\ booking' = [booking EXCEPT ![r.booking].status = status]
          /\ req' = [req EXCEPT ![s] = Idle]
    BY <1>8 DEF CommitCancel, CommitComplete
  <2>. DEFINE next == [row EXCEPT !.status = status]
  <2>3. booking' = [booking EXCEPT ![r.booking] = next]
    BY <2>2 DEF TypeOK
  <2>4. /\ next.schedule = row.schedule /\ next.terms = row.terms
        /\ next.received = row.received /\ row.received \in Nat
        /\ next \in Rows
    BY <2>1 DEF Rows, Statuses
  <2>5. next.received >= row.received
    BY <2>4
  <2>. HIDE DEF next
  <2>. QED
    BY <1>6, <2>1, <2>2, <2>3, <2>4, <2>5
<1>. QED
  BY <1>2, <1>3, <1>4, <1>5, <1>7, <1>8 DEF Step, Refuse, Crash

\* The clock moves, or nothing does.
LEMMA StillBills ==
  ASSUME TypeOK, BillInv, UNCHANGED bookingVars, today' \in Days, today <= today'
  PROVE  BillInv' /\ \A b \in BookingIds : GoesOn(b)
<1>1. today \in Int /\ today' \in Int
  BY DEF TypeOK, Days
<1>2. \A b \in BookingIds : Exists(b)' => Billed(booking'[b].schedule, booking'[b].terms, today')
  BY <1>1, DraftLasts DEF BillInv, Billed, bookingVars, Exists
<1>3. \A s \in Sessions : Creating(s)' => Drafted(req'[s].schedule, req'[s].terms, today')
  BY <1>1, DraftLasts DEF BillInv, bookingVars, Creating
<1>4. \A b \in BookingIds : GoesOn(b)
  BY ReceivedIsNat DEF GoesOn, bookingVars, Exists
<1>. QED
  BY <1>2, <1>3, <1>4 DEF BillInv

LEMMA NextBills ==
  TypeOK /\ BillInv /\ [Next]_vars => BillInv' /\ \A b \in BookingIds : GoesOn(b)
<1>. SUFFICES ASSUME TypeOK, BillInv, [Next]_vars
              PROVE  BillInv' /\ \A b \in BookingIds : GoesOn(b)
  OBVIOUS
<1>1. CASE UNCHANGED today /\ BookingNext
  BY <1>1, StepBills DEF BookingNext
<1>2. CASE UNCHANGED bookingVars /\ Tick
  <2>1. today' \in Days /\ today <= today'
    BY <1>2, ClockAssumption DEF TypeOK, Days, Tick
  <2>. QED
    BY <1>2, <2>1, StillBills
<1>3. CASE UNCHANGED vars
  <2>1. today' \in Days /\ today <= today' /\ UNCHANGED bookingVars
    BY <1>3 DEF vars, TypeOK, Days
  <2>. QED
    BY <2>1, StillBills
<1>. QED
  BY <1>1, <1>2, <1>3 DEF Next

LEMMA BillsHold == Spec => [](TypeOK /\ BillInv)
BY BookingsTypeCorrect, InitBills, NextBills, PTL DEF Spec

-------------------------------------------------------------------------------
(***************************************************************************)
(* What statements say                                                     *)
(***************************************************************************)

\* A booking's position, in terms of its short instalments.
LEMMA PositionFinds ==
  ASSUME TypeOK, BillInv, NEW b \in Booked
  PROVE  LET due == booking[b].schedule
             short == Short(due, booking[b].received)
             position == Position(b)
         IN  /\ Billed(due, booking[b].terms, today)
             /\ booking[b].received \in Nat
             /\ booking[b].terms.total \in Nat /\ booking[b].terms.arrival \in Int
             /\ position.balance = Positive(booking[b].terms.total - booking[b].received)
             /\ position.overdue = {i \in short : due[i].dueOn < today}
             /\ \/ short = {} /\ position.nextDue = 0
                \/ position.nextDue \in short /\ \A j \in short : position.nextDue <= j
<1>. DEFINE due == booking[b].schedule
            received == booking[b].received
            walk == Walk(due, received, today)
<1>1. /\ Billed(due, booking[b].terms, today)
      /\ received \in Nat /\ today \in Int /\ booking[b].terms \in Terms
  BY ExistingIsRow, ReceivedIsNat DEF Booked, BillInv, Rows, TypeOK, Days
<1>2. booking[b].terms.total \in Nat /\ booking[b].terms.arrival \in Int
  BY <1>1, BookingsAssumption
<1>3. LET short == Short(due, received)
      IN  /\ walk.overdue = {i \in short : due[i].dueOn < today}
          /\ \/ short = {} /\ walk.nextDue = 0
             \/ walk.nextDue \in short /\ \A j \in short : walk.nextDue <= j
  BY <1>1, WalkFinds
<1>4. /\ Position(b).balance = Positive(booking[b].terms.total - received)
      /\ Position(b).nextDue = walk.nextDue /\ Position(b).overdue = walk.overdue
  BY DEF Position, Owed
<1>. QED
  BY <1>1, <1>2, <1>3, <1>4

\* A booking is short of something exactly when it has not received its total.
LEMMA ShortOfTheTotal ==
  ASSUME NEW due, NEW terms, NEW last, Billed(due, terms, last), terms.total \in Nat,
         NEW received \in Nat
  PROVE  Short(due, received) = {} <=> received >= terms.total
<1>1. /\ AskedBy(due, 1) = due[1].amount
      /\ 2 \in DOMAIN due => AskedBy(due, 2) = terms.total
      /\ 2 \notin DOMAIN due => AskedBy(due, 1) = terms.total
  BY BillSums DEF Billed
<1>2. \A i \in DOMAIN due : due[i].amount \in Int /\ due[i].amount > 0
  BY DraftFields DEF Billed, Insertable
<1>3. CASE DOMAIN due = {1}
  BY <1>1, <1>3 DEF Short
<1>4. CASE DOMAIN due = {1, 2} /\ due[1].amount + due[2].amount = terms.total
  <2>1. \A i : i \in Short(due, received) <=> \/ i = 1 /\ due[1].amount > received
                                              \/ i = 2 /\ terms.total > received
    BY <1>1, <1>4 DEF Short
  <2>2. due[1].amount \in Int /\ due[2].amount \in Int /\ due[2].amount > 0
    BY <1>2, <1>4
  <2>. QED
    BY <1>4, <2>1, <2>2
<1>. QED
  BY <1>3, <1>4 DEF Billed, Drafted

\* The walk over the instalments is the running total they ask for, at every booking
\* and on every day, for any payments in any order.
THEOREM WalksFindShortfalls == Spec => []WalkFindsTheShortfall
<1>1. TypeOK /\ BillInv => WalkFindsTheShortfall
  <2>. SUFFICES ASSUME TypeOK, BillInv, NEW b \in Booked
                PROVE  LET due == booking[b].schedule
                           short == Short(due, booking[b].received)
                           position == Position(b)
                       IN  /\ position.nextDue = IF short = {} THEN 0
                                                 ELSE CHOOSE i \in short : \A j \in short : i <= j
                           /\ position.overdue = {i \in short : due[i].dueOn < today}
    BY DEF WalkFindsTheShortfall, Short
  <2>. DEFINE due == booking[b].schedule
              short == Short(due, booking[b].received)
              next == Position(b).nextDue
  <2>1. /\ Position(b).overdue = {i \in short : due[i].dueOn < today}
        /\ \/ short = {} /\ next = 0
           \/ next \in short /\ \A j \in short : next <= j
    BY PositionFinds
  <2>2. short \subseteq Int
    BY PositionFinds DEF Short, Billed, Drafted
  <2>. HIDE DEF short, next
  <2>3. ASSUME next \in short, \A j \in short : next <= j
        PROVE  next = CHOOSE i \in short : \A j \in short : i <= j
    <3>1. \A i \in short : (\A j \in short : i <= j) => i = next
      BY <2>2, <2>3
    <3>. QED
      BY <2>3, <3>1
  <2>4. next = IF short = {} THEN 0 ELSE CHOOSE i \in short : \A j \in short : i <= j
    BY <2>1, <2>3
  <2>. QED
    BY <2>1, <2>4 DEF short, next
<1>. QED
  BY BillsHold, <1>1, PTL

\* Instalments sum to the total, exactly, and a booking with no balance has nothing
\* left that is due: never a cent over or under, whatever the percentage and the total.
THEOREM SettledBookingsOweNothing == Spec => []SettledMeansNothingDue
<1>1. TypeOK /\ BillInv => SettledMeansNothingDue
  <2>. SUFFICES ASSUME TypeOK, BillInv, NEW b \in Booked
                PROVE  /\ Total(booking[b].schedule) = booking[b].terms.total
                       /\ Position(b).balance = 0 <=> Position(b).nextDue = 0
    BY DEF SettledMeansNothingDue
  <2>. DEFINE due == booking[b].schedule
              short == Short(due, booking[b].received)
  <2>1. /\ Billed(due, booking[b].terms, today)
        /\ booking[b].received \in Nat
        /\ booking[b].terms.total \in Nat
        /\ Position(b).balance = Positive(booking[b].terms.total - booking[b].received)
        /\ \/ short = {} /\ Position(b).nextDue = 0
           \/ Position(b).nextDue \in short
    BY PositionFinds
  <2>2. Total(due) = booking[b].terms.total
    BY <2>1, BillSums DEF Billed
  <2>3. short = {} <=> booking[b].received >= booking[b].terms.total
    BY <2>1, ShortOfTheTotal
  <2>4. 0 \notin short
    BY <2>1 DEF Short, Billed, Drafted
  <2>. HIDE DEF short, due
  <2>5. Position(b).balance = 0 <=> short = {}
    BY <2>1, <2>3 DEF Positive
  <2>. QED
    BY <2>1, <2>2, <2>4, <2>5 DEF due
<1>. QED
  BY BillsHold, <1>1, PTL

\* An active booking with a balance is on the morning list from WithinDays before its
\* clients arrive, whenever it was made and whatever it has paid.
THEOREM UnpaidAreChased == Spec => []UnpaidIsChased
<1>1. TypeOK /\ BillInv => UnpaidIsChased
  <2>. SUFFICES ASSUME TypeOK, BillInv, NEW b \in Booked, Active(b), Position(b).balance > 0,
                       booking[b].terms.arrival - today <= WithinDays
                PROVE  b \in Due
    BY DEF UnpaidIsChased
  <2>. DEFINE due == booking[b].schedule
              short == Short(due, booking[b].received)
              next == Position(b).nextDue
  <2>1. /\ Billed(due, booking[b].terms, today)
        /\ booking[b].received \in Nat
        /\ booking[b].terms.total \in Nat /\ booking[b].terms.arrival \in Int
        /\ Position(b).balance = Positive(booking[b].terms.total - booking[b].received)
        /\ short = {} \/ next \in short
    BY PositionFinds
  <2>2. short # {}
    BY <2>1, ShortOfTheTotal DEF Positive
  <2>3. next \in DOMAIN due
    BY <2>1, <2>2 DEF Short
  <2>4. today \in Int /\ WithinDays \in Nat
    BY StatementsAssumption DEF TypeOK, Days
  <2>. HIDE DEF next, short
  <2>5. /\ next = 1 \/ next = 2
        /\ due[next].dueOn \in Int
        /\ due[next].dueOn <= today \/ due[next].dueOn <= booking[b].terms.arrival
    BY <2>1, <2>3, DraftFields DEF Billed, Drafted
  <2>6. next # 0 /\ due[next].dueOn - today <= WithinDays
    BY <2>1, <2>4, <2>5
  <2>7. b \in BookingIds
    BY DEF Booked
  <2>. QED
    BY <2>6, <2>7 DEF Due, next
<1>. QED
  BY BillsHold, <1>1, PTL

\* More money leaves no more short.
LEMMA MoreIsNotShorter ==
  ASSUME NEW due, NEW terms, NEW last, Drafted(due, terms, last), terms.total \in Nat,
         NEW received \in Nat, NEW more \in Nat, more >= received
  PROVE  Short(due, more) \subseteq Short(due, received)
<1>1. \A i \in DOMAIN due : AskedBy(due, i) \in Int
  BY BillSums, DraftFields DEF Drafted
<1>. QED
  BY <1>1 DEF Short

\* No step of any request makes an instalment late that was not on the day, or brings
\* back one that was covered: money is only ever added to a booking, and its schedule
\* is the one it was made with.
THEOREM PaymentsSettle == Spec => PaymentsOnlySettle
<1>. DEFINE Settles == \A b \in Booked :
                         today' = today =>
                           /\ Position(b)'.overdue \subseteq Position(b).overdue
                           /\ Position(b).nextDue = 0 => Position(b)'.nextDue = 0
<1>1. TypeOK /\ BillInv /\ TypeOK' /\ [Next]_vars => [Settles]_vars
  <2>. SUFFICES ASSUME TypeOK, BillInv, TypeOK', [Next]_vars, NEW b \in Booked, today' = today
                PROVE  /\ Position(b)'.overdue \subseteq Position(b).overdue
                       /\ Position(b).nextDue = 0 => Position(b)'.nextDue = 0
    OBVIOUS
  <2>. DEFINE due == booking[b].schedule
              received == booking[b].received
              more == booking'[b].received
              before == Short(due, received)
              after == Short(due, more)
              walk == Walk(due, more, today)
  <2>1. /\ Billed(due, booking[b].terms, today)
        /\ received \in Nat /\ booking[b].terms.total \in Nat
        /\ Position(b).overdue = {i \in before : due[i].dueOn < today}
        /\ \/ before = {} /\ Position(b).nextDue = 0
           \/ Position(b).nextDue \in before
    BY PositionFinds
  <2>2. BillInv' /\ GoesOn(b) /\ b \in BookingIds /\ Exists(b)
    BY NextBills DEF Booked
  <2>3. /\ booking'[b].schedule = due /\ booking'[b].terms = booking[b].terms
        /\ more >= received /\ more \in Nat /\ today \in Int
    BY <2>2 DEF GoesOn, TypeOK, Rows, NoBooking, Days
  <2>4. /\ walk.overdue = {i \in after : due[i].dueOn < today}
        /\ \/ after = {} /\ walk.nextDue = 0
           \/ walk.nextDue \in after
    BY <2>1, <2>3, WalkFinds
  <2>5. Position(b)'.overdue = walk.overdue /\ Position(b)'.nextDue = walk.nextDue
    BY <2>3 DEF Position, Owed
  <2>6. after \subseteq before
    BY <2>1, <2>3, MoreIsNotShorter DEF Billed
  <2>7. 0 \notin before
    BY <2>1 DEF Short, Billed, Drafted
  <2>. HIDE DEF before, after, walk, due, received, more
  <2>. QED
    BY <2>1, <2>4, <2>5, <2>6, <2>7
<1>. QED
  BY BillsHold, <1>1, PTL DEF Spec, PaymentsOnlySettle

==============================================================================
