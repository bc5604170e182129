------------------------------ MODULE MCBookings ------------------------------
(***************************************************************************)
(* Bookings and their statements for TLC.                                  *)
(***************************************************************************)
EXTENDS BookingsProps, Statements, TLC

CONSTANTS s1, s2, q1, q2, b1, b2

\* At 30%: two cents now and three later; and a cent whose deposit is nothing.
SomeTerms == {[total |-> total, arrival |-> 2, departure |-> 3] : total \in {1, 5}}

\* At 50%: two and two when booked on day 0, four at once when booked later.
MCTerms == {[total |-> 4, arrival |-> 2, departure |-> 3]}

Symmetric == Permutations({b1, b2}) \cup Permutations({q1, q2})

==============================================================================
