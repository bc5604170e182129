---------------------------- MODULE BookingsProps ----------------------------
(***************************************************************************)
(* The properties of Bookings.  Those of the first part hold for any       *)
(* number of concurrent requests; those of the second hold when requests   *)
(* are served one at a time, and say what concurrency puts at risk.        *)
(***************************************************************************)
EXTENDS Bookings

Rows == [status : Statuses, quote : Quotes, terms : Terms,
         schedule : Schedules, year : Years, number : Nat \ {0}, received : Nat]

Phases == {"idle", "numbering", "inserting", "numbered", "paying", "paid",
           "cancelling", "completing"}

Requests == [pc : Phases, quote : Quotes \cup {None}, terms : Terms \cup {None},
             schedule : Schedules \cup {None}, year : Years,
             number : Nat, booking : BookingIds \cup {None}, amount : Nat, confirms : BOOLEAN]

\* A request that is creating knows what it creates; any other request under
\* way works on a booking that exists.
WellFormed(r) ==
  /\ r.pc \in {"numbering", "inserting", "numbered"} =>
       r.quote \in Quotes /\ r.terms \in Terms /\ r.schedule \in Schedules
  /\ r.pc = "numbered" => r.number > 0
  /\ r.pc \in {"paying", "paid", "cancelling", "completing"} =>
       r.booking \in BookingIds /\ booking[r.booking] \in Rows

\* The shape of every table and request.
TypeOK ==
  /\ today \in Days
  /\ booking \in [BookingIds -> Rows \cup {NoBooking}]
  /\ counter \in [Years -> Nat]
  /\ lock \in [Years -> Sessions \cup {None}]
  /\ req \in [Sessions -> Requests]
  /\ \A s \in Sessions : WellFormed(req[s])

-------------------------------------------------------------------------------
\* HTB-<year>-<n>: the numbers handed out in a year are 1..n, each to one
\* booking, whichever requests raced, missed the first row or rolled back.
ReferencesAreGapless ==
  \A y \in Years :
    LET numbered == {b \in BookingIds : Exists(b) /\ booking[b].year = y}
    IN  /\ {booking[b].number : b \in numbered} = 1..counter[y]
        /\ Cardinality(numbered) = counter[y]

\* "confirmed: the deposit has landed": a confirmed booking has received its
\* opening instalment, though the request that confirmed it weighed the money
\* before it committed and a cancellation may have been overwritten since.
ConfirmedHasDeposit ==
  \A b \in BookingIds :
    booking[b].status = "confirmed" =>
      IsConfirmable(booking[b].schedule, booking[b].received)

\* A request that waits for the year's counter row, or for a rival's insert of
\* it, is served or refused in the end: no rollback leaves the row locked.
RequestsEnd ==
  \A s \in Sessions : req[s].pc # "idle" ~> req[s].pc = "idle"

-------------------------------------------------------------------------------
\* "It will not hold one trip twice": a quote has at most one active booking.
OneTripHeldOnce ==
  \A b, c \in BookingIds :
    Active(b) /\ Active(c) /\ booking[b].quote = booking[c].quote => b = c

\* A booking no request is working on is not left provisional once the money
\* received covers its opening instalment.
DepositConfirms ==
  \A b \in BookingIds :
    /\ booking[b].status = "provisional"
    /\ \A s \in Sessions : req[s].booking # b
    => ~IsConfirmable(booking[b].schedule, booking[b].received)

\* Money is recorded only on a booking that is not cancelled, and a booking
\* that is over never comes back.
CancelledIsClosed ==
  [][\A b \in BookingIds :
       booking[b].status = "cancelled" =>
         UNCHANGED <<booking[b].status, booking[b].received>>]_vars

\* What the bookings promise about the trips they hold.
Holding == INSTANCE TripHolding WITH
             fate <- [b \in BookingIds |-> booking[b].status],
             trip <- [b \in BookingIds |-> booking[b].quote]
HoldsTrips == Holding!Spec

==============================================================================
