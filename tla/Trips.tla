-------------------------------- MODULE Trips --------------------------------
(***************************************************************************)
(* The bookings as the operations desks see them: the dates and headcount  *)
(* a booking froze, and its status.  Receipts, numbering and re-booking    *)
(* are Bookings'; here a booking confirms, is cancelled or is completed    *)
(* whenever Bookings would let it.                                         *)
(***************************************************************************)
EXTENDS Clock, Requests, FiniteSets

CONSTANTS
  Trip,        \* booking ids
  Arrives,     \* [Trip -> arrival_date]
  Departs,     \* [Trip -> departure_date]
  Pax          \* [Trip -> pax_count]

ASSUME TripsAssumption ==
  /\ Arrives \in [Trip -> Int] /\ Departs \in [Trip -> Int]
  /\ \A b \in Trip : Arrives[b] < Departs[b]
  /\ Pax \in [Trip -> Nat]
  /\ None \notin Trip

VARIABLE status

ACTIVE == {"provisional", "confirmed"}
Running(b) == status[b] \in ACTIVE

\* Confirmed by a receipt, cancelled while it holds its trip, completed after it.
MoveBooking(b) ==
  /\ Quiet
  /\ \/ status[b] = "provisional" /\ status' = [status EXCEPT ![b] = "confirmed"]
     \/ Running(b) /\ status' = [status EXCEPT ![b] = "cancelled"]
     \/ Running(b) /\ today >= Departs[b] /\ status' = [status EXCEPT ![b] = "completed"]

TripsInit == status = [b \in Trip |-> "provisional"]

==============================================================================
