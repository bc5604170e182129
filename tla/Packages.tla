------------------------------- MODULE Packages -------------------------------
(***************************************************************************)
(* A package and its day-by-day (quotes/packages.py, quotes/itinerary.py): *)
(* an ordered set of stays, whether they are a trip a person could take,   *)
(* and what happens on each day of it.  Days are integers; a leg's         *)
(* check-out is the morning its guests leave.                              *)
(***************************************************************************)
EXTENDS Rows, SequencesExt

CONSTANT None   \* no value

\* Rows in the order that was typed, and not by date.
InOrder(rows) == Sorted(rows, LAMBDA a, b : a.seq < b.seq)

\* One entry per night slept: the day of departure is not one of them.
StayNights(arrival, departure) == [n \in 1..(departure - arrival) |-> arrival + n - 1]
NightsOf(leg) == StayNights(leg.checkIn, leg.checkOut)

\* One day more than the nights.
Dates(arrival, departure) == StayNights(arrival, departure + 1)

-------------------------------------------------------------------------------
(***************************************************************************)
(* packages.check, as the codes of its problems                            *)
(***************************************************************************)

\* Consecutive legs, as the pair of them.
Joins(ordered) == {<<ordered[i], ordered[i + 1]>> : i \in 1..Len(ordered) - 1}

\* Mutant: a day between two stays is taken for a day on the road.
GapOfDays(join) == join[2].checkIn > join[1].checkOut + 1
Gap(join) == join[2].checkIn > join[1].checkOut

PackageFault(code, ordered, arrival, departure, minimum) ==
  CASE code = "duplicate_sequence" ->
         \E i, j \in DOMAIN ordered : i # j /\ ordered[i].seq = ordered[j].seq
    [] code = "bad_range" -> \E i \in DOMAIN ordered : ordered[i].checkOut <= ordered[i].checkIn
    [] code = "gap" -> \E join \in Joins(ordered) : Gap(join)
    [] code = "overlap" -> \E join \in Joins(ordered) : join[2].checkIn < join[1].checkOut
    [] code = "late_start" -> Head(ordered).checkIn > arrival
    [] code = "early_start" -> Head(ordered).checkIn < arrival
    [] code = "short_end" -> Last(ordered).checkOut < departure
    [] code = "long_end" -> Last(ordered).checkOut > departure
    [] code = "below_minimum" ->
         \E i \in DOMAIN ordered : /\ ordered[i].seq \in DOMAIN minimum
                                   /\ Len(NightsOf(ordered[i])) < minimum[ordered[i].seq]
    [] code = "destination_repeated" ->
         \E i, j \in DOMAIN ordered : i # j /\ ordered[i].destination = ordered[j].destination

BlockingFaults == {"duplicate_sequence", "bad_range", "gap", "overlap", "late_start",
                   "early_start", "short_end", "long_end", "below_minimum"}

PackageProblems(legs, arrival, departure, minimum) ==
  IF legs = <<>> THEN {"no_legs"}
  ELSE {code \in BlockingFaults \cup {"destination_repeated"} :
          PackageFault(code, InOrder(legs), arrival, departure, minimum)}

Bookable(legs, arrival, departure, minimum) ==
  PackageProblems(legs, arrival, departure, minimum) \subseteq {"destination_repeated"}

-------------------------------------------------------------------------------
(***************************************************************************)
(* The programme                                                           *)
(***************************************************************************)

\* The leg whose night this is; on the day of departure, the last one.
Holding(ordered, on, departure) ==
  LET under == {i \in DOMAIN ordered : ordered[i].checkIn <= on /\ on < ordered[i].checkOut}
  IN  IF under # {} THEN CHOOSE i \in under : \A j \in under : i <= j
      ELSE IF on = departure /\ ordered # <<>> THEN Len(ordered) ELSE None

\* Movements without a date, and excursions without a day, are on no day at all.
Programme(legs, arrival, departure, movements, excursions) ==
  LET ordered == InOrder(legs)
      calendar == Dates(arrival, departure)
      held(n) == Holding(ordered, calendar[n], departure)
      before(n) == {m \in 1..n - 1 : held(m) # None}
      previous(n) == held(Max(before(n)))
      moved(n) == /\ before(n) # {} /\ held(n) # None
                  /\ ordered[previous(n)].seq # ordered[held(n)].seq
  IN  [n \in DOMAIN calendar |->
        [on |-> calendar[n], leg |-> held(n),
         movesFrom |-> IF moved(n) THEN previous(n) ELSE None,
         movements |-> {m \in movements : m.on = calendar[n]},
         excursions |-> {x \in excursions : x.day = n},
         night |-> calendar[n] # departure]]

\* itinerary.check: whether the days that were typed are days of this trip.
ProgrammeProblems(arrival, departure, movements, excursions) ==
  IF Dates(arrival, departure) = <<>> THEN {"no_days"}
  ELSE {code \in {"unscheduled", "activity_off_trip", "undated", "movement_off_trip"} :
          CASE code = "unscheduled" -> \E x \in excursions : x.day = None
            [] code = "activity_off_trip" ->
                 \E x \in excursions : x.day # None /\ x.day \notin DOMAIN Dates(arrival, departure)
            [] code = "undated" -> \E m \in movements : m.on = None
            [] code = "movement_off_trip" ->
                 \E m \in movements : m.on # None /\ m.on \notin arrival..departure}

Schedulable(arrival, departure, movements, excursions) ==
  ProgrammeProblems(arrival, departure, movements, excursions)
    \subseteq {"unscheduled", "undated"}

==============================================================================
