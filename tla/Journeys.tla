------------------------------- MODULE Journeys -------------------------------
(***************************************************************************)
(* The journey of a quote, priced once and charged into every option       *)
(* (quotes/transport.py, option_pricing._transport, vehicles/service.py).  *)
(*                                                                         *)
(* A segment is [seq, kind, mode, class, origin, destination, vehicleType, *)
(* vehicle, units, optional, vvip, route, on]; vehicle is one of our own   *)
(* [type, fuel, kmpl, driver, running, currency] or None.  A tariff is     *)
(* [table, destination, vehicleType, mode, class, route, amount, inclusive,*)
(* vat, currency, basis, since, until].  The desk is what is on file:      *)
(* [tariffs, routes, fuel].                                                *)
(***************************************************************************)
EXTENDS Roads

KINDS == {"line_haul", "transfer"}
PRICED_MODES == {"road", "rail"}
NAMED_ONLY_MODES == {"air"}
TRANSFERS_PER_RAIL_LEG == 2

MovementsNeeded(legs) == legs + 1

Priceable(segments) ==
  Kept(segments, LAMBDA s : s.mode \in PRICED_MODES /\ ~s.optional)

\* transport.check: the faults of a journey's shape.
TransportFault(code, segments, legs) ==
  CASE code = "no_segments" -> segments = <<>>
    [] code = "unknown_kind" -> \E i \in DOMAIN segments : segments[i].kind \notin KINDS
    [] code = "unknown_mode" ->
         \E i \in DOMAIN segments : segments[i].mode \notin PRICED_MODES \cup NAMED_ONLY_MODES
    [] code = "flight_named" -> \E i \in DOMAIN segments : segments[i].mode \in NAMED_ONLY_MODES
    [] code = "no_destination" ->
         \E i \in DOMAIN segments : /\ segments[i].mode \in PRICED_MODES
                                    /\ segments[i].vehicle = None
                                    /\ segments[i].destination = None
    [] code = "rail_without_transfers" ->
         LET rail == Kept(segments, LAMBDA s : s.kind = "line_haul" /\ s.mode = "rail")
             transfers == Kept(segments, LAMBDA s : s.kind = "transfer" /\ s.mode \in PRICED_MODES)
         IN  rail # <<>> /\ Len(transfers) < Len(rail) * TRANSFERS_PER_RAIL_LEG
    [] code = "movements_short" ->
         /\ segments # <<>>
         /\ \A i \in DOMAIN segments : segments[i].vehicle = None
         /\ Len(Priceable(segments)) < MovementsNeeded(legs)
    [] code = "vvip_not_optional" ->
         \E i \in DOMAIN segments : segments[i].vvip /\ ~segments[i].optional

BlockingTransport == {"unknown_kind", "unknown_mode", "no_destination", "rail_without_transfers"}
TransportFaults(segments, legs) ==
  {code \in BlockingTransport \cup {"no_segments", "flight_named", "movements_short",
                                    "vvip_not_optional"} : TransportFault(code, segments, legs)}

-------------------------------------------------------------------------------
(***************************************************************************)
(* Tariffs and drives                                                      *)
(***************************************************************************)

\* A figure entered before tax is grossed up on the way out.
ToVatInclusive(tariff) ==
  IF tariff.inclusive THEN tariff.amount ELSE (tariff.amount * (100 + tariff.vat)) \div 100

\* An exact route before the destination's general rate, before another route.
Rank(tariff, route) ==
  IF route # None /\ tariff.route = route THEN 2 ELSE IF tariff.route = None THEN 1 ELSE 0

\* Mutant: the window's end is not looked at.
TariffsSince(tariffs, on) == {t \in tariffs : t.since <= on}
TariffsOn(tariffs, on) == OnFile(tariffs, on)

TariffFor(segment, tariffs, on) ==
  LET rows == {t \in TariffsOn(tariffs, on) :
                 /\ t.destination = segment.destination
                 /\ IF segment.kind = "transfer"
                    THEN t.table = "transfer_rates" /\ t.vehicleType = segment.vehicleType
                    ELSE /\ t.table = "transport_modes"
                         /\ t.mode = segment.mode /\ t.class = segment.class}
      rank(t) == IF segment.kind = "transfer" THEN Rank(t, segment.route) ELSE 0
  IN  IF segment.destination = None \/ rows = {} THEN None
      ELSE CHOOSE t \in rows : \A other \in rows :
             rank(other) < rank(t) \/ (rank(other) = rank(t) /\ other.since <= t.since)

\* Fuel prices have no end: the latest one set on or before the day.
FuelPriceOn(fuel, type, on) ==
  LET rows == {p \in fuel : p.type = type /\ p.since <= on}
  IN  IF rows = {} THEN None ELSE CHOOSE p \in rows : \A q \in rows : q.since <= p.since

DAYS_PER_MOVEMENT == 1

\* Fuel is bought in its own currency, the crew paid in the vehicle's.
DriveCharges(segment, road, price) ==
  LET vehicle == segment.vehicle
      fuel == (road.km * price.amount) \div vehicle.kmpl
      crew == (vehicle.driver + vehicle.running) * DAYS_PER_MOVEMENT
      charge(what, amount, currency) ==
        [seq |-> segment.seq, what |-> what, amount |-> amount * Max({1, segment.units}),
         currency |-> currency, optional |-> segment.optional]
  IN  Kept(<<charge("fuel", fuel, price.currency), charge("crew", crew, vehicle.currency)>>,
                LAMBDA c : c.amount # 0)

-------------------------------------------------------------------------------
(***************************************************************************)
(* One movement, and the journey                                           *)
(***************************************************************************)

\* What one movement adds: charges, or why there are none.
Nothing == [charges |-> <<>>, unpriced |-> FALSE, fault |-> {}, named |-> FALSE, road |-> None]
Unpriced(why) == [Nothing EXCEPT !.unpriced = TRUE, !.fault = why]

Drive(segment, desk, on) ==
  LET road == FindRoad(desk.routes, segment.origin, segment.destination, on)
      price == FuelPriceOn(desk.fuel, segment.vehicle.fuel, on)
      wrong == IF VehicleIsSuitable(road.takes, segment.vehicle.type)
               THEN {} ELSE {"vehicle_not_suitable"}
  IN  IF None \in {segment.origin, segment.destination} THEN Unpriced({"endpoints_missing"})
      ELSE IF road = None THEN Unpriced({"route_not_on_file"})
      ELSE IF price = None THEN Unpriced(wrong \cup {"fuel_price_missing"})
      ELSE [Nothing EXCEPT !.charges = DriveCharges(segment, road, price),
                           !.fault = wrong, !.road = road]

\* per_person is charged for each traveller; a vehicle or a leg, for the group.
Fare(segment, tariff, pax) ==
  <<[seq |-> segment.seq, what |-> "fare",
     amount |-> ToVatInclusive(tariff) * segment.units
                  * (IF tariff.basis = "per_person" THEN pax ELSE 1),
     currency |-> tariff.currency, optional |-> segment.optional]>>

PriceMovement(segment, desk, arrival, pax) ==
  LET on == IF segment.on = None THEN arrival ELSE segment.on
      tariff == TariffFor(segment, desk.tariffs, on)
  IN  IF segment.mode \in NAMED_ONLY_MODES THEN [Nothing EXCEPT !.named = TRUE]
      ELSE IF segment.mode \notin PRICED_MODES \/ segment.kind \notin KINDS THEN Unpriced({})
      ELSE IF segment.vehicle # None THEN Drive(segment, desk, on)
      ELSE IF tariff = None THEN Unpriced({})
      ELSE [Nothing EXCEPT !.charges = Fare(segment, tariff, pax)]

Journey(segments, desk, arrival, pax) ==
  LET ordered == Sorted(segments, LAMBDA a, b : a.seq < b.seq)
      priced == [i \in DOMAIN ordered |-> PriceMovement(ordered[i], desk, arrival, pax)]
      charged == FlattenSeq([i \in DOMAIN priced |-> priced[i].charges])
  IN  [charges  |-> Kept(charged, LAMBDA c : ~c.optional),
       optional |-> Kept(charged, LAMBDA c : c.optional),
       named    |-> {ordered[i].seq : i \in {j \in DOMAIN priced : priced[j].named}},
       unpriced |-> {ordered[i].seq : i \in {j \in DOMAIN priced : priced[j].unpriced}},
       faults   |-> UNION {priced[i].fault : i \in DOMAIN priced},
       roads    |-> [seq \in {ordered[i].seq : i \in {j \in DOMAIN priced : priced[j].road # None}}
                       |-> LET i == Max({j \in DOMAIN ordered :
                                           ordered[j].seq = seq /\ priced[j].road # None})
                           IN  priced[i].road]]

\* assembly._transport_problems: what of it keeps a quote from being sent.
JourneyBlocks(segments, legs, journey) ==
  (TransportFaults(segments, legs) \cap BlockingTransport) \cup journey.faults
    \cup (IF journey.unpriced = {} THEN {} ELSE {"unpriced_transport"})

==============================================================================
