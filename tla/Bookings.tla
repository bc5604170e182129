------------------------------- MODULE Bookings -------------------------------
(***************************************************************************)
(* Bookings, their references and the money received on them, served by    *)
(* concurrent HTTP requests (bookings/service.py).  Every request runs one *)
(* READ COMMITTED transaction: it reads committed rows, may stop at any    *)
(* await, and its writes appear at its commit.  An UPDATE writes only the  *)
(* columns the session changed, so it never looks at the row again.        *)
(*                                                                         *)
(* The quote a booking is made from is another module's: here a request    *)
(* may book any terms a quote could offer.                                 *)
(***************************************************************************)
EXTENDS Clock, Schedule, FiniteSets

CONSTANTS
  Sessions,      \* requests that can be in flight at once
  BookingIds,    \* booking ids (a bound: the uuids are inexhaustible)
  Quotes,        \* quote ids
  Terms,         \* what create_from_quote copies from a quote and its version
  Amounts,       \* payment amounts, in cents
  MaxReceived,   \* most a booking is sent (a bound)
  DepositPct,    \* cfg.deposit_pct
  BalanceDays,   \* cfg.balance_due_days_before_travel
  None           \* SQL NULL

ASSUME BookingsAssumption ==
  /\ \A t \in Terms : /\ t.total \in Nat
                      /\ t.arrival \in Int
                      /\ t.departure \in Int
  /\ Amounts \subseteq Nat \ {0}
  /\ MaxReceived \in Nat
  /\ DepositPct \in 1..100
  /\ BalanceDays \in Int
  /\ None \notin BookingIds \cup Quotes \cup Terms \cup Sessions

VARIABLES
  booking,   \* the bookings table, with the payments of each row summed
  counter,   \* committed booking_counters.last_value, 0 before the row exists
  lock,      \* the session holding a year's counter row
  req        \* what each request holds in memory

bookingVars == <<booking, counter, lock, req>>

Statuses == {"provisional", "confirmed", "cancelled", "completed"}
ACTIVE_STATUSES == {"provisional", "confirmed"}

NoBooking == [status |-> "absent", quote |-> None, terms |-> None,
              schedule |-> None, year |-> 0, number |-> 0, received |-> 0]

Idle == [pc |-> "idle", quote |-> None, terms |-> None, schedule |-> None,
         year |-> 0, number |-> 0, booking |-> None, amount |-> 0,
         confirms |-> FALSE]

Exists(b) == booking[b].status # "absent"
Active(b) == booking[b].status \in ACTIVE_STATUSES

Creating(s) == req[s].pc \in {"numbering", "inserting", "numbered"}

\* Bound: a create begins only while an id is left for it.
Spare == \E ids \in SUBSET {b \in BookingIds : ~Exists(b)} :
           Cardinality(ids) = 1 + Cardinality({s \in Sessions : Creating(s)})

-------------------------------------------------------------------------------
(***************************************************************************)
(* create_from_quote                                                       *)
(***************************************************************************)

\* Mutant: a confirmed booking does not hold its trip.
UnconfirmedFor(q) == {b \in BookingIds : booking[b].quote = q /\ booking[b].status = "provisional"}

ActiveFor(q) == {b \in BookingIds : booking[b].quote = q /\ Active(b)}

\* The checks, the version and the schedule: all read before the counter is.
BeginCreate(s, q, t) ==
  /\ req[s].pc = "idle"
  /\ Spare
  /\ ActiveFor(q) = {}
  /\ CanBuild(t.total, DepositPct)
  /\ req' = [req EXCEPT ![s] =
       [Idle EXCEPT !.pc = "numbering", !.quote = q, !.terms = t,
                    !.schedule = Build(t.total, DepositPct, t.arrival,
                                       BalanceDays, today),
                    !.year = YearOf(today)]]
  /\ UNCHANGED <<booking, counter, lock>>

\* SELECT ... FOR UPDATE of a year's first booking finds no row to lock.
MissCounter(s) ==
  /\ req[s].pc = "numbering"
  /\ counter[req[s].year] = 0
  /\ req' = [req EXCEPT ![s].pc = "inserting"]
  /\ UNCHANGED <<booking, counter, lock>>

\* Mutant: no FOR UPDATE.
Lockable(year) == TRUE

Unlocked(year) == lock[year] = None

\* The row is locked, at once or when its holder's transaction ends; for a
\* request that found no row, its INSERT waits for a rival's in the same way.
\* The value read under the lock, plus one, is the booking's number.
LockCounter(s) ==
  LET year == req[s].year
  IN  /\ \/ req[s].pc = "numbering" /\ counter[year] # 0
         \/ req[s].pc = "inserting" /\ counter[year] = 0
      /\ Unlocked(year)
      /\ lock' = [lock EXCEPT ![year] = s]
      /\ req' = [req EXCEPT ![s].pc = "numbered", ![s].number = counter[year] + 1]
      /\ UNCHANGED <<booking, counter>>

\* The columns have CHECK (amount > 0).
Insertable(schedule) == \A i \in DOMAIN schedule : schedule[i].amount > 0

\* The booking, its instalments and the counter commit together.
CommitCreate(s, b) ==
  LET r == req[s]
  IN  /\ r.pc = "numbered"
      /\ ~Exists(b)
      /\ Insertable(r.schedule)
      /\ booking' = [booking EXCEPT ![b] =
           [status |-> "provisional", quote |-> r.quote, terms |-> r.terms,
            schedule |-> r.schedule, year |-> r.year,
            number |-> r.number, received |-> 0]]
      /\ counter' = [counter EXCEPT ![r.year] = r.number]
      /\ lock' = [lock EXCEPT ![r.year] = None]
      /\ req' = [req EXCEPT ![s] = Idle]

-------------------------------------------------------------------------------
(***************************************************************************)
(* record_payment                                                          *)
(***************************************************************************)

\* Mutant: money is taken for a cancelled booking.
PayableAnyway(b) == Exists(b)

Payable(b) == Exists(b) /\ booking[b].status # "cancelled"

BeginPayment(s, b, a) ==
  /\ req[s].pc = "idle"
  /\ Payable(b)
  /\ booking[b].received + a <= MaxReceived
  /\ req' = [req EXCEPT ![s] = [Idle EXCEPT !.pc = "paying",
                                            !.booking = b, !.amount = a]]
  /\ UNCHANGED <<booking, counter, lock>>

\* Mutants: the request's own payment is counted twice, or is not seen.
CountedTwice(row, amount) == row.received + 2 * amount
NotSeen(row, amount) == row.received

Received(row, amount) == row.received + amount

\* flush, then refresh: the request sees its own payment and committed ones.
WeighPayment(s) ==
  LET r == req[s]
      row == booking[r.booking]
  IN  /\ r.pc = "paying"
      /\ req' = [req EXCEPT
           ![s].pc = "paid",
           ![s].confirms =
              /\ row.status = "provisional"
              /\ IsConfirmable(row.schedule, Received(row, r.amount))]
      /\ UNCHANGED <<booking, counter, lock>>

\* Mutant: a payment replaces those before it.
OnlyPayment(row, r) ==
  [row EXCEPT !.received = r.amount,
              !.status = IF r.confirms THEN "confirmed" ELSE @]

Paid(row, r) ==
  [row EXCEPT !.received = @ + r.amount,
              !.status = IF r.confirms THEN "confirmed" ELSE @]

CommitPayment(s) ==
  LET r == req[s]
  IN  /\ r.pc = "paid"
      /\ booking' = [booking EXCEPT ![r.booking] = Paid(@, r)]
      /\ req' = [req EXCEPT ![s] = Idle]
      /\ UNCHANGED <<counter, lock>>

-------------------------------------------------------------------------------
(***************************************************************************)
(* cancel and complete                                                     *)
(***************************************************************************)

\* Mutants: a trip that has been travelled, or never booked, is cancelled.
EvenTravelled(b) == booking[b].status \notin {"absent", "cancelled"}
EvenUnbooked(b) == booking[b].status \notin {"cancelled", "completed"}

Cancellable(b) == Active(b)

BeginCancel(s, b) ==
  /\ req[s].pc = "idle"
  /\ Cancellable(b)
  /\ req' = [req EXCEPT ![s] = [Idle EXCEPT !.pc = "cancelling", !.booking = b]]
  /\ UNCHANGED <<booking, counter, lock>>

CommitCancel(s) ==
  /\ req[s].pc = "cancelling"
  /\ booking' = [booking EXCEPT ![req[s].booking].status = "cancelled"]
  /\ req' = [req EXCEPT ![s] = Idle]
  /\ UNCHANGED <<counter, lock>>

\* Completing a completed booking writes no status, so it is left out.
BeginComplete(s, b) ==
  /\ req[s].pc = "idle"
  /\ Active(b)
  /\ today >= booking[b].terms.departure
  /\ req' = [req EXCEPT ![s] = [Idle EXCEPT !.pc = "completing", !.booking = b]]
  /\ UNCHANGED <<booking, counter, lock>>

CommitComplete(s) ==
  /\ req[s].pc = "completing"
  /\ booking' = [booking EXCEPT ![req[s].booking].status = "completed"]
  /\ req' = [req EXCEPT ![s] = Idle]
  /\ UNCHANGED <<counter, lock>>

-------------------------------------------------------------------------------
\* Mutant: the lock outlives its transaction.
RollBackLocked(s) ==
  /\ req' = [req EXCEPT ![s] = Idle]
  /\ UNCHANGED <<booking, counter, lock>>

\* A transaction that does not commit lets its lock go.
RollBack(s) ==
  /\ req' = [req EXCEPT ![s] = Idle]
  /\ lock' = [y \in Years |-> IF lock[y] = s THEN None ELSE lock[y]]
  /\ UNCHANGED <<booking, counter>>

\* The database refuses an INSERT: the counter row a rival has committed since
\* it was missed, or an instalment of nothing.
Refuse(s) ==
  /\ \/ req[s].pc = "inserting" /\ counter[req[s].year] # 0
     \/ req[s].pc = "numbered" /\ ~Insertable(req[s].schedule)
  /\ RollBack(s)

\* The connection, the server or the client goes away.
Crash(s) == req[s].pc # "idle" /\ RollBack(s)

Step(s) ==
  \/ MissCounter(s) \/ LockCounter(s) \/ Refuse(s)
  \/ \E b \in BookingIds : CommitCreate(s, b)
  \/ WeighPayment(s) \/ CommitPayment(s)
  \/ CommitCancel(s) \/ CommitComplete(s)

\* A request on a booking that exists.
BeginWork(s, b) ==
  (\E a \in Amounts : BeginPayment(s, b, a)) \/ BeginCancel(s, b) \/ BeginComplete(s, b)

Begin(s) == \/ \E q \in Quotes, t \in Terms : BeginCreate(s, q, t)
            \/ \E b \in BookingIds : BeginWork(s, b)

BookingInit ==
  /\ booking = [b \in BookingIds |-> NoBooking]
  /\ counter = [y \in Years |-> 0]
  /\ lock = [y \in Years |-> None]
  /\ req = [s \in Sessions |-> Idle]

Init == today = 0 /\ BookingInit

BookingNext == \E s \in Sessions : Begin(s) \/ Step(s) \/ Crash(s)

Next == \/ UNCHANGED today /\ BookingNext
        \/ UNCHANGED bookingVars /\ Tick

vars == <<today, bookingVars>>

\* The server goes on with a request it can go on with, and Postgres serves the
\* waiters of a row lock in turn.  Nothing makes a crash happen.
Fairness ==
  \A s \in Sessions : /\ WF_vars(UNCHANGED today /\ Step(s))
                       /\ SF_vars(UNCHANGED today /\ LockCounter(s))

Spec == Init /\ [][Next]_vars
FairSpec == Spec /\ Fairness

==============================================================================
