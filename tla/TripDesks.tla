------------------------------ MODULE TripDesks ------------------------------
(***************************************************************************)
(* The four desks that work on the bookings of a trip: fleet, logs, supply *)
(* and portal.  None of them writes another's rows, and all they share is  *)
(* what they read of a booking, so a behaviour follows one desk beside the *)
(* bookings it reads; "desk" says which.                                   *)
(***************************************************************************)
EXTENDS TripLogs, Supply, Portal

CONSTANTS
  Desks,       \* the desks followed
  Committed,   \* the assignments the logs desk starts from
  Contested,   \* the supplier bookings whose moves race (a bound)
  BoardDays    \* days the departure board looks ahead

ASSUME ContestedAssumption == Contested \subseteq SupplyIds

\* What was committed before the logs begin was committed by these rules.
ASSUME CommittedAssumption ==
  /\ DOMAIN Committed = AssignmentIds
  /\ LET rows == {a \in AssignmentIds : Committed[a] # None}
     IN  /\ \A a \in rows : IsAssignment(Committed[a])
         /\ \A a, c \in rows :
              a # c /\ Committed[a].subject = Committed[c].subject =>
                \/ Committed[a].override \/ Committed[c].override
                \/ ~Overlaps(Committed[a].window, Committed[c].window)

VARIABLES
  desk,
  apart,    \* ghost: pairs of logs whose readings nothing kept in order
  undated   \* ghost: the grants issued without a date

vars == <<today, status, work, serial, assignment, crew, inFleet, log, supply,
          grant, desk, apart, undated>>

Init ==
  /\ desk \in Desks
  /\ today = 0
  /\ TripsInit /\ RequestsInit /\ LogsInit /\ SupplyInit /\ PortalInit
  /\ desk \in {"fleet", "logs", "bills"} => serial
  /\ IF desk = "logs"
     THEN /\ assignment = Committed
          /\ crew = [c \in CrewMembers |-> CHOOSE r \in CrewRows : r.active]
          /\ inFleet = Vehicles
     ELSE FleetInit
  /\ apart = {}
  /\ undated = {}

-------------------------------------------------------------------------------
\* Nothing orders the readings of two logs of a vehicle that are open at once,
\* nor those of a log closed again after another was opened.
Opened == {a \in AssignmentIds : log[a] = None /\ log'[a] # None}
ClosedAgain == {a \in Logged : log'[a] # None /\ log[a].in \notin {None, log'[a].in}}

Observe ==
  apart' = {p \in apart
              \cup (UNION {{{a, c} : c \in {d \in LogsOf(log'[a].vehicle) : log[d].in = None}} : a \in Opened})
              \cup (UNION {{{a, c} : c \in LogsOf(log[a].vehicle) \ {a}} : a \in ClosedAgain})
            : \A a \in p : log'[a] # None}

FleetDesk == /\ desk = "fleet" /\ FleetNext
             /\ UNCHANGED <<today, log, supply, grant, apart, undated>>
LogsDesk == /\ desk = "logs" /\ LogsNext /\ Observe
            /\ UNCHANGED <<today, supply, grant, undated>>
SupplyDesk == /\ \/ desk = "supply" /\ SupplyMoves(Contested)
                 \/ desk = "bills" /\ SupplyBills
              /\ UNCHANGED <<today, fleetVars, log, grant, apart, undated>>
PortalDesk == /\ desk = "portal" /\ PortalNext
              /\ undated' = undated \cup
                   {g \in Grants \ Sent : grant'[g] # None
                      /\ grant'[g].expires \notin {today, today + 1}}
              /\ UNCHANGED <<today, fleetVars, log, supply, apart>>

\* What happens to the bookings, and the days, beside a desk that reads them.
Elsewhere == /\ \/ desk # "logs" /\ (\E b \in Trip : MoveBooking(b)) /\ UNCHANGED today
                \/ desk \in {"supply", "bills", "portal"} /\ Tick /\ UNCHANGED status
             /\ UNCHANGED <<work, fleetVars, log, supply, grant, apart, undated>>

Failure == /\ \E s \in Sessions : Abandon(s)
           /\ UNCHANGED <<today, status, fleetVars, log, supply, grant, apart, undated>>

Next == /\ FleetDesk \/ LogsDesk \/ SupplyDesk \/ PortalDesk \/ Elsewhere \/ Failure
        /\ UNCHANGED <<desk, serial>>

Spec == Init /\ [][Next]_vars

-------------------------------------------------------------------------------
(***************************************************************************)
(* Fleet                                                                   *)
(***************************************************************************)

Out(a) == assignment[a].window

\* Two windows share a day otherwise than by one beginning on the other's last.
MeetEndToStart(w, x) == w.to = x.from \/ x.to = w.from
Collide(w, x) == \/ SharedDays(w, x) > 1
                 \/ SharedDays(w, x) = 1 /\ ~MeetEndToStart(w, x)
                 \/ SharedDays(w, x) = 1 /\ (w.from = w.to \/ x.from = x.to)

TwoOnOneDay(a, c) ==
  /\ a # c /\ assignment[a].subject = assignment[c].subject
  /\ Running(assignment[a].booking) /\ Running(assignment[c].booking)
  /\ Collide(Out(a), Out(c))
Overridden(a) == assignment[a].override
LongerThanADay(a) == Out(a).from < Out(a).to

\* "Two trips over the same days is one trip that does not happen": with
\* requests served one at a time, no vehicle or person is out twice on a day,
\* however bookings end and assignments are released, unless a reason is on
\* record.  For windows longer than a day: InTwoPlaces is about the others.
NobodyOutTwice ==
  serial => \A a, c \in Assigned :
    TwoOnOneDay(a, c) /\ LongerThanADay(a) /\ LongerThanADay(c)
      => Overridden(a) \/ Overridden(c)

\* "A single day trip against a longer one is a clash": the same for two trips
\* whatever the windows.
InTwoPlaces ==
  serial => \A a, c \in Assigned :
    TwoOnOneDay(a, c) /\ assignment[a].booking # assignment[c].booking
      => Overridden(a) \/ Overridden(c)

\* The people of a trip have a seat each in its vehicles, each counted once.
SeatsFor(b) == Pax[b] <= SumFunctionOnSet(Capacity, {assignment[a].subject : a \in VehiclesOn(b)})

\* A trip with nothing missing on the departure board, whose vehicles are out on
\* the same days, has a seat for everybody, and somebody at the wheel who was
\* sent to drive.
ClearTripCanLeave ==
  serial => \A b \in Departures(BoardDays) :
    /\ Gaps(b) = {}
    /\ \A a \in OnBooking(b) : ~Overridden(a) /\ LongerThanADay(a)
    /\ \A a, c \in VehiclesOn(b) : a # c => Collide(Out(a), Out(c))
    => SeatsFor(b) /\ \E a \in OnBooking(b) : assignment[a].role \in DRIVES

-------------------------------------------------------------------------------
(***************************************************************************)
(* Logs                                                                    *)
(***************************************************************************)

\* No kilometre is logged on two trips: of two closed logs of one vehicle, one
\* came back before the other left, unless nothing kept their readings in order.
KilometresCountedOnce ==
  serial => \A v \in Vehicles : \A a, c \in Closed(v) :
    a # c /\ {a, c} \notin apart =>
      log[a].in <= log[c].out \/ log[c].in <= log[a].out

\* The audit pools trips: it calls a vehicle's model optimistic only where some
\* trip of its own did worse than the model, and pessimistic only where one did
\* better.
AuditHasItsTrip ==
  \A v \in Vehicles :
    LET trips == {a \in LogsOf(v) : log[a].in # None /\ LitresOf(a) > 0}
        managed(a) == Distance(a)
        priced(a) == ModelKmpl[v] * LitresOf(a)
    IN  /\ Audit(v) = "optimistic" => \E a \in trips : managed(a) < priced(a)
        /\ Audit(v) = "pessimistic" => \E a \in trips : managed(a) > priced(a)

-------------------------------------------------------------------------------
(***************************************************************************)
(* Supply                                                                  *)
(***************************************************************************)

\* "Did anyone ring the lodge": once the day to have it held has come, a trip
\* whose suppliers raise no concern is confirmed by every one of them, with a
\* number the hotel can look up.
SilentTripIsHeld ==
  \A b \in Departures(ConfirmByDays) : Unheld(b) = {} =>
    \A r \in BoughtFor(b) : Live(r) => supply[r].status = "confirmed" /\ supply[r].reference # None

\* The lists of what is owed agree: the payables of a running booking come to its
\* position, currency by currency, and after the trip each of them is chased.
OwedEverywhere ==
  \A b \in {t \in Trip : Running(t)} :
    LET listed == Payables \cap BoughtFor(b)
    IN  /\ \A c \in Money : Exposure(b)[c].owed =
             SumFunction([r \in {p \in listed : supply[p].currency = c} |-> Owing(r)])
        /\ Departs[b] < today => listed = Unsettled(b)

-------------------------------------------------------------------------------
(***************************************************************************)
(* Portal                                                                  *)
(***************************************************************************)

\* A link sent without a date of its own opens the trip until they are home and
\* for the days after, unless it is withdrawn or the booking is cancelled.
LinkLastsTheTrip ==
  \A g \in undated :
    LET b == grant[g].booking
    IN  today <= Departs[b] + DaysAfter /\ ~grant[g].revoked /\ status[b] # "cancelled"
          => Access(g) = "open"

==============================================================================
