-------------------------------- MODULE Fleet --------------------------------
(***************************************************************************)
(* Vehicles and crew committed to bookings (operations/roster.py and       *)
(* AssignmentService, CrewService of operations/service.py).  An           *)
(* assignment is one vehicle or one person over a window of days, both     *)
(* ends inclusive; a window already taken is refused unless a reason to    *)
(* override is given.                                                      *)
(***************************************************************************)
EXTENDS Trips, FiniteSetsExt

CONSTANTS
  Vehicles, CrewMembers,
  Capacity,        \* [Vehicles -> passenger_capacity]
  CrewRows,        \* what an edit may make of a crew member (a bound)
  Asked,           \* roles a request may name, or None
  AskedDays,       \* [from, to] a request may name, either None (a bound)
  AssignmentIds,   \* 1..n: assignments at once (a bound)
  WarningDays      \* licence_warning_days

ASSUME FleetAssumption ==
  /\ \A r \in CrewRows : /\ r.active \in BOOLEAN
                         /\ r.licence \in Int \cup {None}
  /\ Capacity \in [Vehicles -> Nat]
  /\ Vehicles \cap CrewMembers = {}
  /\ \A d \in AskedDays : {d.from, d.to} \subseteq Int \cup {None}
  /\ AssignmentIds \subseteq Nat /\ IsFiniteSet(AssignmentIds)
  /\ WarningDays \in Nat
  /\ None \notin Int

VARIABLES
  assignment,   \* trip_assignments
  crew,         \* the crew register
  inFleet       \* the vehicles with is_active

fleetVars == <<assignment, crew, inFleet>>

CREW_ROLES == {"driver", "guide", "driver_guide"}
DRIVES == {"driver", "driver_guide"}
GUIDES == {"guide", "driver_guide"}

Assigned == {a \in AssignmentIds : assignment[a] # None}

-------------------------------------------------------------------------------
(***************************************************************************)
(* Windows                                                                 *)
(***************************************************************************)

\* The days asked for, and where none are, the booking's own.
WindowAsked(b, days) ==
  [from |-> IF days.from = None THEN Arrives[b] ELSE days.from,
   to |-> IF days.to = None THEN Departs[b] ELSE days.to]

Later(d, e) == IF d >= e THEN d ELSE e
Sooner(d, e) == IF d <= e THEN d ELSE e

\* How many days the two have in common.
SharedDays(w, x) ==
  LET days == Sooner(w.to, x.to) - Later(w.from, x.from) + 1
  IN  IF days > 0 THEN days ELSE 0

\* As the code has it: on exactly one day, and neither the first nor the last
\* days of the two are the same.
IsHandover(w, x) == SharedDays(w, x) = 1 /\ w.from # x.from /\ w.to # x.to

Overlaps(w, x) == SharedDays(w, x) > 0 /\ ~IsHandover(w, x)

\* Mutant: a provisional booking holds nothing yet.
HeldConfirmed(x) == {a \in Assigned : /\ assignment[a].subject = x
                                      /\ status[assignment[a].booking] = "confirmed"}

\* What a subject is committed to: a booking that is over holds nothing.
HeldBy(x) == {a \in Assigned : assignment[a].subject = x /\ Running(assignment[a].booking)}

Blocking(w, x) == {a \in HeldBy(x) : Overlaps(w, assignment[a].window)}

-------------------------------------------------------------------------------
(***************************************************************************)
(* Who may be assigned                                                     *)
(***************************************************************************)

Can(member, role) ==
  CASE role = "driver" -> member.roles \cap DRIVES # {}
    [] role = "guide" -> member.roles \cap GUIDES # {}
    [] OTHER -> role \in member.roles

\* A member of the register: at least one of the known roles, each once.
CrewRow(row) == row.roles # {} /\ row.roles \subseteq CREW_ROLES

\* Active, able to do it, and, at the wheel, licensed to the last day.
CheckCrew(member, role, w) ==
  /\ member.active
  /\ role \in CREW_ROLES
  /\ Can(member, role)
  /\ role \in DRIVES /\ member.licence # None => member.licence > w.to

\* The role on the row, where the request names none: the person's only one.
RoleOf(x, asked) ==
  IF x \in Vehicles THEN "vehicle"
  ELSE IF asked # None \/ Cardinality(crew[x].roles) # 1 THEN asked
  ELSE CHOOSE r \in crew[x].roles : TRUE

MayGo(x, role, w) == IF x \in Vehicles THEN x \in inFleet
                     ELSE CheckCrew(crew[x], role, w)

\* A row of trip_assignments: the vehicle or the person, never both.
AssignmentRow(b, x, role, w, reason) ==
  [booking |-> b, subject |-> x, role |-> role, window |-> w, override |-> reason]

\* What every row of the table has.
IsAssignment(row) ==
  /\ row.booking \in Trip
  /\ row.window.from \in Int /\ row.window.to \in Int
  /\ row.override \in BOOLEAN

\* Bounds: a request begins while an id is left for its row, and brings a reason
\* only where there is something to override.
BeginAssign(s, b, x, asked, w, reason) ==
  /\ Assigned # AssignmentIds
  /\ Running(b)
  /\ w.from <= w.to
  /\ MayGo(x, RoleOf(x, asked), w)
  /\ reason = (Blocking(w, x) # {})
  /\ Decide(s, [desk |-> "fleet",
                row |-> AssignmentRow(b, x, RoleOf(x, asked), w, reason)])
  /\ UNCHANGED <<fleetVars, status>>

CommitAssign(s) ==
  /\ work[s] # None
  /\ work[s].desk = "fleet"
  /\ \E a \in AssignmentIds \ Assigned :
       /\ \A c \in AssignmentIds \ Assigned : a <= c
       /\ assignment' = [assignment EXCEPT ![a] = work[s].row]
  /\ Done(s)
  /\ UNCHANGED <<crew, inFleet, status>>

\* A hard delete: the row is a plan, not a record.
Release(a) ==
  /\ Quiet
  /\ a \in Assigned
  /\ assignment' = [assignment EXCEPT ![a] = None]
  /\ UNCHANGED <<crew, inFleet, status, work>>

\* CrewService.update, and create for a member nobody had.
UpdateCrew(c, row) ==
  /\ Quiet
  /\ CrewRow(row)
  /\ crew[c] # row
  /\ crew' = [crew EXCEPT ![c] = row]
  /\ UNCHANGED <<assignment, inFleet, status, work>>

\* A vehicle leaves the active fleet, or comes back to it.
UpdateVehicle(v) ==
  /\ Quiet
  /\ inFleet' = (inFleet \ {v}) \cup ({v} \ inFleet)
  /\ UNCHANGED <<assignment, crew, status, work>>

-------------------------------------------------------------------------------
(***************************************************************************)
(* What is missing                                                         *)
(***************************************************************************)

OnBooking(b) == {a \in Assigned : assignment[a].booking = b}
VehiclesOn(b) == {a \in OnBooking(b) : assignment[a].subject \in Vehicles}

\* By the role on the assignment, not by what the person can do.
\* Mutant: by what the person can do.
DriversAble(b) == {a \in OnBooking(b) \ VehiclesOn(b) :
                     crew[assignment[a].subject].roles \cap DRIVES # {}}
DriversOn(b) == {a \in OnBooking(b) \ VehiclesOn(b) : assignment[a].role \in DRIVES}

Seats(b) == SumFunction([a \in VehiclesOn(b) |-> Capacity[assignment[a].subject]])

ExpiresSoonAfter(b, c) ==
  crew[c].licence # None /\ crew[c].licence - Arrives[b] \in 0..WarningDays

\* check_ready, without the wording and the worst-first order.
Gaps(b) ==
  {g \in {"no_vehicle", "no_driver", "seats_short", "licence_expiring"} :
     CASE g = "no_vehicle" -> VehiclesOn(b) = {}
       [] g = "no_driver" -> DriversOn(b) = {}
       [] g = "seats_short" -> VehiclesOn(b) # {} /\ Pax[b] > Seats(b)
       [] g = "licence_expiring" ->
            \E a \in DriversOn(b) : ExpiresSoonAfter(b, assignment[a].subject)}

\* The departure board: everything leaving within the days asked for.
Departures(days) == {b \in Trip : Running(b) /\ Arrives[b] \in today..today + days}

FleetInit ==
  /\ assignment = [a \in AssignmentIds |-> None]
  /\ crew \in [CrewMembers -> {r \in CrewRows : r.active}]
  /\ inFleet = Vehicles

FleetNext ==
  \/ \E s \in Sessions, b \in Trip, x \in Vehicles \cup CrewMembers,
        asked \in Asked, days \in AskedDays, reason \in BOOLEAN :
       BeginAssign(s, b, x, asked, WindowAsked(b, days), reason)
  \/ \E s \in Sessions : CommitAssign(s)
  \/ \E a \in AssignmentIds : Release(a)
  \/ \E c \in CrewMembers, row \in CrewRows : UpdateCrew(c, row)
  \/ \E v \in Vehicles : UpdateVehicle(v)

==============================================================================
