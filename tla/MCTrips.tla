------------------------------- MODULE MCTrips -------------------------------
(***************************************************************************)
(* TripDesks for TLC: two trips, the second collected on the first's last  *)
(* day, and a crew of one who may be retired or stop driving.              *)
(***************************************************************************)
EXTENDS TripDesks, TLC

CONSTANTS t1, t2, v1, c1, s1, s2

FirstDay == t1 :> 1 @@ t2 :> 3
LastDay == t1 :> 3 @@ t2 :> 5
Heads == t1 :> 3 @@ t2 :> 2
Seating == v1 :> 2
Model == v1 :> 2

Drives == [roles |-> {"driver_guide"}, active |-> TRUE, licence |-> 6]
Retired == [roles |-> {"driver_guide"}, active |-> FALSE, licence |-> 6]
Rows == {Drives, Retired}
AskedRoles == {None, "guide"}
NoneOrTwo == {None, 2}

Alike == Permutations({s1, s2})

\* The trip's own days, or from day two: a day less for t1, a day more for t2.
OwnDays == [from |-> None, to |-> None]
FromDayTwo == {OwnDays, [from |-> 2, to |-> None]}
\* Or day two alone, in the middle of t1.
DayTwoAlone == {OwnDays, [from |-> 2, to |-> 2]}

\* One vehicle on three assignments, as when an operator overrides twice.
On(b) == [booking |-> b, subject |-> v1, role |-> "vehicle", override |-> b = t1,
          window |-> [from |-> FirstDay[b], to |-> LastDay[b]]]
ThreeTimes == 1 :> On(t1) @@ 2 :> On(t1) @@ 3 :> On(t2)

==============================================================================
