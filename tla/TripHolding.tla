----------------------------- MODULE TripHolding -----------------------------
(***************************************************************************)
(* What bookings/service.py promises about a trip, without requests or     *)
(* transactions: a quote's trip is held by one booking at a time, a        *)
(* cancelled or completed booking is over for good, and a trip may be held *)
(* again once the booking that held it is over.                            *)
(***************************************************************************)
CONSTANTS BookingIds, Quotes, None

VARIABLES fate, trip   \* of each booking: its status, and the quote it is for

Over == {"cancelled", "completed"}
Held == {"provisional", "confirmed"}

HeldFor(q) == {b \in BookingIds : trip[b] = q /\ fate[b] \in Held}

Init == /\ fate = [b \in BookingIds |-> "absent"]
        /\ trip = [b \in BookingIds |-> None]

Hold(b, q) == /\ fate[b] = "absent"
              /\ HeldFor(q) = {}
              /\ fate' = [fate EXCEPT ![b] = "provisional"]
              /\ trip' = [trip EXCEPT ![b] = q]

Confirm(b) == /\ fate[b] = "provisional"
              /\ fate' = [fate EXCEPT ![b] = "confirmed"]
              /\ UNCHANGED trip

End(b, outcome) == /\ fate[b] \in Held
                   /\ fate' = [fate EXCEPT ![b] = outcome]
                   /\ UNCHANGED trip

Next == \E b \in BookingIds : \/ \E q \in Quotes : Hold(b, q)
                              \/ Confirm(b)
                              \/ \E outcome \in Over : End(b, outcome)

Spec == Init /\ [][Next]_<<fate, trip>>

==============================================================================
