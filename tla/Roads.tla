-------------------------------- MODULE Roads --------------------------------
(***************************************************************************)
(* The route table and what it says of an itinerary (transport/service.py, *)
(* quotes/routing.py, quotes/sequencing.py).                               *)
(*                                                                         *)
(* A road is a row [from, to, km, minutes, takes, since, until, entered]:  *)
(* takes is the set of vehicle types it needs (none: any), since..until    *)
(* the days it is in force, entered the order rows were typed in.  A road  *)
(* map is a function from pairs of places to a row, or None.               *)
(***************************************************************************)
EXTENDS Rows, SequencesExt

CONSTANT None   \* no value

\* Rows in force on a day, and the one loaded to supersede the others.
OnFile(rows, on) == {r \in rows : r.since <= on /\ (r.until = None \/ on <= r.until)}
Superseding(rows) ==
  CHOOSE r \in rows : \A other \in rows :
    other.since < r.since \/ (other.since = r.since /\ other.entered <= r.entered)

\* The forward row where there is one, else the reverse row read backwards.
FindRoad(routes, origin, destination, on) ==
  LET between == {r \in OnFile(routes, on) : {r.from, r.to} = {origin, destination}}
      forward == {r \in between : r.from = origin}
  IN  IF between = {} THEN None
      ELSE Superseding(IF forward # {} THEN forward ELSE between)

\* A road that asks for a vehicle is not driven by a movement naming none.
VehicleIsSuitable(takes, offered) == takes = {} \/ offered \in takes

-------------------------------------------------------------------------------
(***************************************************************************)
(* The order of a package                                                  *)
(***************************************************************************)

\* Two legs in one place are a change of bed and not a drive.
Hops(places, nights, roads) ==
  LET driven == Kept([i \in 1..Len(places) - 1 |-> i],
                          LAMBDA i : places[i] # places[i + 1])
  IN  [h \in DOMAIN driven |->
        LET i == driven[h]
        IN  [from |-> places[i], to |-> places[i + 1],
             road |-> roads[<<places[i], places[i + 1]>>], nightsAfter |-> nights[i + 1]]]

Known(hops) == Kept(hops, LAMBDA hop : hop.road # None)
Minutes(hop) == IF hop.road = None THEN 0 ELSE hop.road.minutes

\* What driving the package costs in road and time; unknown hops apart.
Score(hops) ==
  LET known == Known(hops)
  IN  [km      |-> FoldLeft(LAMBDA sum, hop : sum + hop.road.km, 0, known),
       minutes |-> FoldLeft(LAMBDA sum, hop : sum + Minutes(hop), 0, known),
       longest |-> FoldLeft(LAMBDA most, hop : Max({most, Minutes(hop)}), 0, known),
       unknown |-> Len(hops) - Len(known),
       hops    |-> Len(hops)]

\* The kilometres of one order.  Mutant: the kilometres of its known roads.
KnownKm(places, roads) == Score(Hops(places, [i \in DOMAIN places |-> 0], roads)).km
OrderKm(places, roads) ==
  LET whole == Score(Hops(places, [i \in DOMAIN places |-> 0], roads))
  IN  IF whole.unknown > 0 THEN None ELSE whole.km

MAX_LEGS_TO_REORDER == 7

\* The orders that keep both ends, as the permutations of the legs between them.
Reorderings(places) == SetToSeqs(1..Len(places) - 2)
Reordered(places, p) ==
  <<Head(places)>> \o [i \in DOMAIN p |-> places[p[i] + 1]] \o <<Last(places)>>
Precedes(p, q) == \E k \in DOMAIN p : p[k] < q[k] /\ \A j \in 1..k - 1 : p[j] = q[j]

\* The first of the shortest, in the order they are tried.
FirstShortest(km) ==
  CHOOSE p \in DOMAIN km : \A q \in DOMAIN km :
    p = q \/ km[p] < km[q] \/ (km[p] = km[q] /\ Precedes(p, q))

\* None where there is nothing to search, or where any order misses a road.
ShortestOrder(places, roads) ==
  IF Len(places) < 4 \/ Len(places) > MAX_LEGS_TO_REORDER THEN None
  ELSE LET km == [p \in Reorderings(places) |-> OrderKm(Reordered(places, p), roads)]
           best(p) == [order |-> Reordered(places, p), km |-> km[p]]
       IN  IF \E p \in DOMAIN km : km[p] = None THEN None ELSE best(FirstShortest(km))

\* The shorter order suggested, and what it saves; None where there is none.
Improvement(given, best) ==
  IF given = None \/ best = None THEN None
  ELSE IF best.km < given THEN [order |-> best.order, saving |-> given - best.km]
       ELSE None
BetterOrder(places, roads) ==
  Improvement(OrderKm(places, roads), ShortestOrder(places, roads))

\* Everything said of a package's order; all of it is advice.
SequenceProblems(places, nights, roads, maxMinutes) ==
  LET hops == Range(Hops(places, nights, roads))
  IN  {code \in {"road_not_on_file", "drive_too_long", "stay_shorter_than_drive",
                 "shorter_order_exists"} :
         CASE code = "road_not_on_file" -> \E hop \in hops : hop.road = None
           [] code = "drive_too_long" -> \E hop \in hops : Minutes(hop) > maxMinutes
           [] code = "stay_shorter_than_drive" ->
                \E hop \in hops : /\ hop.road # None /\ hop.nightsAfter = 1
                                  /\ Minutes(hop) >= maxMinutes \div 2
           [] code = "shorter_order_exists" -> BetterOrder(places, roads) # None}

==============================================================================
