------------------------------ MODULE MCCosting ------------------------------
(***************************************************************************)
(* The questions asked: every package of up to three stays of a short trip,*)
(* every map of a few places, every journey of up to three movements,      *)
(* every rate sheet of a few rows, and quotes that put all of it together. *)
(***************************************************************************)
EXTENDS Costing

-------------------------------------------------------------------------------
\* Packages: a trip of three or four nights from day 1.

Stay(seq, destination, in, out) ==
  [seq |-> seq, destination |-> destination, checkIn |-> in, checkOut |-> out]
Windows == (0..4) \X (1..5)
Sound == {w \in (1..4) \X (2..5) : w[1] < w[2]}

PackageLegs ==
  {<<>>} \cup {<<Stay(1, "mara", w[1], w[2])>> : w \in Windows}
  \cup {<<Stay(s[1], "mara", v[1], v[2]), Stay(s[2], d, w[1], w[2])>> :
          s \in {<<1, 2>>, <<2, 1>>, <<1, 1>>}, d \in {"mara", "diani"}, v \in Sound, w \in Windows}
  \cup {<<Stay(1, "mara", u[1], u[2]), Stay(3, "diani", v[1], v[2]), Stay(2, "nairobi", w[1], w[2])>> :
          u \in Sound, v \in Sound, w \in Sound}

Scheduled ==
  {[movements |-> {}, excursions |-> {}],
   [movements |-> {[seq |-> 1, on |-> 1], [seq |-> 2, on |-> None]},
    excursions |-> {[activity |-> "dhow", day |-> 2]}],
   [movements |-> {[seq |-> 1, on |-> 4]},
    excursions |-> {[activity |-> "dhow", day |-> 9], [activity |-> "walk", day |-> None]}]}

MCPackageQuestions ==
  {[legs |-> legs, arrival |-> 1, departure |-> departure, minimum |-> minimum,
    movements |-> s.movements, excursions |-> s.excursions] :
     legs \in PackageLegs, departure \in {4, 5}, minimum \in {<<>>, <<2>>}, s \in Scheduled}

-------------------------------------------------------------------------------
\* Orders: four or five stays, each road short, long or not on file.

Places == {"nairobi", "nakuru", "mara", "diani"}
RoadMaps ==
  LET pairs == {p \in SUBSET Places : Cardinality(p) = 2}
      row(km) == IF km = None THEN None ELSE [km |-> km, minutes |-> 200 * km]
  IN  {[hop \in Places \X Places |->
          IF hop[1] = hop[2] THEN None ELSE row(km[{hop[1], hop[2]}])] :
         km \in [pairs -> {1, 4, None}]}

MCOrderQuestions ==
  {[places |-> places, nights |-> [i \in DOMAIN places |-> (i % 2) + 1], roads |-> roads,
    maxMinutes |-> 600] :
     places \in {<<"nairobi", "nakuru", "mara", "diani">>, <<"nairobi", "mara", "mara", "diani">>,
                 <<"nairobi", "mara">>, <<"nairobi", "nakuru", "mara", "nakuru", "diani">>},
     roads \in RoadMaps}

-------------------------------------------------------------------------------
\* Journeys, in the days 1 to 4.

Cruiser == [type |-> "4x4", fuel |-> "diesel", kmpl |-> 2, driver |-> 10, running |-> 0,
            currency |-> "KES"]
Saloon == [Cruiser EXCEPT !.type = "saloon", !.fuel = "petrol", !.driver = 0]

ByRoad == [kind |-> "transfer", mode |-> "road", class |-> None, origin |-> "nairobi",
           destination |-> "mara", vehicleType |-> "van", vehicle |-> None, units |-> 1,
           optional |-> FALSE, vvip |-> FALSE, route |-> None, on |-> None]
Train == [ByRoad EXCEPT !.kind = "line_haul", !.mode = "rail", !.class = "first", !.units = 2]

Movements1 ==
  {ByRoad, Train, [ByRoad EXCEPT !.on = 3, !.route = "gate"], [ByRoad EXCEPT !.optional = TRUE],
   [ByRoad EXCEPT !.destination = None], [ByRoad EXCEPT !.mode = "air"],
   [Train EXCEPT !.on = 4], [ByRoad EXCEPT !.vehicle = Cruiser], [ByRoad EXCEPT !.vehicle = Saloon],
   [ByRoad EXCEPT !.vehicle = Cruiser, !.on = 3, !.units = 2, !.origin = "mara", !.destination = "nairobi"],
   [ByRoad EXCEPT !.kind = "walk", !.vvip = TRUE]}

Tariff == [table |-> "transfer_rates", destination |-> "mara", vehicleType |-> "van", mode |-> "road",
           class |-> None, route |-> None, amount |-> 100, inclusive |-> FALSE, vat |-> 16,
           currency |-> "KES", basis |-> "per_leg", since |-> 0, until |-> None]
RailFare == [Tariff EXCEPT !.table = "transport_modes", !.mode = "rail", !.class = "first",
                           !.basis = "per_person", !.inclusive = TRUE, !.amount = 20]
Road == [from |-> "nairobi", to |-> "mara", km |-> 20, minutes |-> 300, takes |-> {}, since |-> 0,
         until |-> None, entered |-> 1]
Diesel == [type |-> "diesel", amount |-> 3, currency |-> "KES", since |-> 0]

Desks ==
  {[tariffs |-> {Tariff, RailFare}, routes |-> {Road}, fuel |-> {Diesel}],
   [tariffs |-> {Tariff, [Tariff EXCEPT !.amount = 300, !.since = 1, !.until = 2],
                 [Tariff EXCEPT !.amount = 150, !.route = "gate"],
                 [RailFare EXCEPT !.until = 3]},
    routes |-> {Road, [Road EXCEPT !.takes = {"4x4"}, !.since = 2],
                [Road EXCEPT !.from = "mara", !.to = "nairobi", !.km = 30]},
    fuel |-> {Diesel, [Diesel EXCEPT !.type = "petrol"], [Diesel EXCEPT !.amount = 4, !.since = 2]}],
   [tariffs |-> {RailFare}, routes |-> {[Road EXCEPT !.takes = {"4x4"}]}, fuel |-> {}]}

InSequence(chosen) == [i \in DOMAIN chosen |-> [seq |-> Len(chosen) + 1 - i] @@ chosen[i]]
Unnumbered(chosen) == [i \in DOMAIN chosen |-> [seq |-> 0] @@ chosen[i]]

MCJourneyQuestions ==
  {[segments |-> InSequence(chosen), legs |-> legs, desk |-> desk, arrival |-> 1, pax |-> 3] :
     chosen \in UNION {[1..n -> Movements1] : n \in 0..3}, legs \in {1, 2}, desk \in Desks}
    \cup
  {[segments |-> Unnumbered(chosen), legs |-> 1, desk |-> desk, arrival |-> 1, pax |-> 3] :
     chosen \in UNION {[1..n -> Movements1] : n \in 2..3}, desk \in Desks}

-------------------------------------------------------------------------------
\* Stays of one or two nights, from a sheet of some of these rows.

Rate == [room |-> "twin", plan |-> "FB", residence |-> "citizen", occupancy |-> 2, amount |-> 100,
         discount |-> None, kind |-> "rack", child |-> None, minNights |-> None, currency |-> "KES",
         since |-> 1, until |-> 9]
RateRows ==
  {Rate, [Rate EXCEPT !.occupancy = 1, !.amount = 80, !.child = 20],
   [Rate EXCEPT !.amount = 120, !.child = 40, !.discount = 10, !.since = 2],
   [Rate EXCEPT !.plan = "HB", !.minNights = 2, !.kind = "sto", !.discount = 20, !.child = 10],
   [Rate EXCEPT !.room = "family", !.occupancy = 4, !.amount = 140, !.until = 1, !.child = 20],
   [Rate EXCEPT !.residence = "visitor", !.currency = "USD", !.amount = 60],
   [Rate EXCEPT !.residence = "visitor", !.amount = 200, !.plan = "HB"],
   [Rate EXCEPT !.room = "family", !.occupancy = 3, !.amount = 90, !.minNights = 2]}
Beds == [twin |-> 2, family |-> 4]

Cohort(residence, type, count) ==
  [residence |-> residence, type |-> type, count |-> count,
   currency |-> IF residence = "citizen" THEN "KES" ELSE "USD"]
StayGroups ==
  {<<Cohort("citizen", "adult", 2)>>,
   <<Cohort("citizen", "adult", 1), Cohort("citizen", "child", 2)>>,
   <<Cohort("citizen", "adult", 3), Cohort("citizen", "child", 1), Cohort("citizen", "infant", 1)>>,
   <<Cohort("citizen", "child", 2)>>,
   <<Cohort("citizen", "adult", 1), Cohort("citizen", "child", 1), Cohort("visitor", "adult", 3)>>}

AtTwo == [pair \in {"KES", "USD"} \X {"KES", "USD"} |->
            CASE pair[1] = pair[2] -> <<1, 1>> [] pair[1] = "USD" -> <<2, 1>> [] OTHER -> <<1, 2>>]

MCStayQuestions ==
  {[rates |-> rates, capacity |-> Beds, fx |-> AtTwo, requested |-> requested,
    stay |-> [nights |-> nights, group |-> group, presentation |-> presentation]] :
     rates \in SUBSET RateRows, group \in StayGroups, requested \in {"FB", "BB"},
     nights \in {<<1>>, <<1, 2>>}, presentation \in {"KES", "USD"}}

-------------------------------------------------------------------------------
\* Quotes: two properties, alone or as a package.  Amounts are units that divide
\* where a mixed group has them split and converted, and that do not where not.

Catalogue(unit, minNights) ==
  [rates |-> [lodge |-> {[Rate EXCEPT !.amount = 3 * unit, !.minNights = minNights],
                         [Rate EXCEPT !.amount = 4 * unit, !.minNights = minNights, !.child = unit, !.since = 2,
                                      !.discount = 10],
                         [Rate EXCEPT !.residence = "visitor", !.currency = "USD", !.amount = 2 * unit,
                                      !.minNights = minNights]},
              cottage |-> {[Rate EXCEPT !.plan = "BB", !.amount = 2 * unit, !.child = unit],
                           [Rate EXCEPT !.plan = "BB", !.residence = "visitor", !.amount = 2 * unit]}],
   capacity |-> Beds,
   destination |-> [lodge |-> "mara", cottage |-> "diani"],
   parkFees |-> {[destination |-> "mara", residence |-> "citizen", currency |-> "KES", since |-> 0, until |-> 9,
                  price |-> [adult |-> unit, child |-> unit \div 2, infant |-> 0]],
                 [destination |-> "mara", residence |-> "visitor", currency |-> "USD", since |-> 2, until |-> 9,
                  price |-> [adult |-> unit, child |-> unit \div 2, infant |-> 0]]},
   supplements |-> [lodge |-> {[room |-> "twin", plan |-> None, residence |-> None, amount |-> unit,
                                basis |-> "per_room_per_night", currency |-> "KES", since |-> 2, until |-> 2]},
                    cottage |-> {[room |-> "twin", plan |-> "BB", residence |-> None, amount |-> unit,
                                  basis |-> "per_person", currency |-> "USD", since |-> 2, until |-> 3],
                                 [room |-> None, plan |-> None, residence |-> "citizen", amount |-> unit,
                                  basis |-> "per_room", currency |-> "KES", since |-> 0, until |-> 9]}],
   mandatory |-> {"dhow"},
   fares |-> {[activity |-> "dhow", residence |-> "citizen", currency |-> "KES", since |-> 0, until |-> 9,
               price |-> [adult |-> unit, child |-> unit \div 2]]},
   tariffs |-> {[Tariff EXCEPT !.amount = unit, !.inclusive = TRUE]},
   routes |-> IF unit = 100 THEN {[Road EXCEPT !.from = "diani", !.since = 2]} ELSE {}, fuel |-> {},
   fx |-> {[base |-> "USD", quote |-> "KES", rate |-> 2, since |-> 0, entered |-> 1],
           [base |-> "USD", quote |-> "KES", rate |-> 4, since |-> 2, entered |-> 2]},
   currencies |-> {"KES", "USD"},
   rank |-> [citizen |-> 1, visitor |-> 2], currency |-> [citizen |-> "KES", visitor |-> "USD"]]

Count3(residence, type, count) == [residence |-> residence, type |-> type, count |-> count]
Parties ==
  {[paxCount |-> 2, travellers |-> <<>>, cohorts |-> <<>>],
   [paxCount |-> 3, travellers |-> <<"adult", "child", "adult">>, cohorts |-> <<>>],
   [paxCount |-> None, travellers |-> <<>>,
    cohorts |-> <<Count3("citizen", "child", 2), Count3("citizen", "adult", 1), Count3("citizen", "infant", 0)>>],
   [paxCount |-> 3, travellers |-> <<>>,
    cohorts |-> <<Count3("visitor", "adult", 1), Count3("citizen", "adult", 2)>>],
   [paxCount |-> 3, travellers |-> <<>>,
    cohorts |-> <<Count3("citizen", "adult", 1), Count3("citizen", "child", 1), Count3("citizen", "infant", 1)>>],
   [paxCount |-> None, travellers |-> <<>>, cohorts |-> <<Count3("visitor", "adult", 3)>>],
   [paxCount |-> 2, travellers |-> <<>>, cohorts |-> <<Count3("citizen", "adult", 3)>>]}
Mixed(heads) == \E i \in DOMAIN heads.cohorts : heads.cohorts[i].residence = "visitor"

Option(id, property, legs, recommended) ==
  [id |-> id, property |-> property, legs |-> legs, fee |-> 100, chef |-> None, food |-> None,
   recommended |-> recommended, comparable |-> TRUE]
Leg(seq, property, destination, in, out) ==
  [seq |-> seq, property |-> property, destination |-> destination, checkIn |-> in, checkOut |-> out,
   requested |-> None]

OptionLists(departure, unit) ==
  LET cottage == [Option("o2", "cottage", <<>>, FALSE) EXCEPT !.chef = 2 * unit, !.food = unit]
      package == [Option("o3", "lodge", <<Leg(2, "cottage", "diani", 2, departure), Leg(1, "lodge", "mara", 1, 2)>>,
                         TRUE) EXCEPT !.chef = 2 * unit, !.food = unit]
      moved == Option("o4", "cottage", <<Leg(1, "lodge", "mara", 1, departure)>>, TRUE)
  IN  {<<Option("o1", "lodge", <<>>, TRUE)>>, <<moved>>, <<Option("o1", "lodge", <<>>, FALSE), [cottage EXCEPT !.recommended = TRUE]>>,
       <<package>>, <<package, [cottage EXCEPT !.food = None]>>}

OfferQuote(heads, departure, options, segments, excursions, presentation) ==
  [arrival |-> 1, departure |-> departure, residence |-> "citizen", requested |-> "FB",
   presentation |-> presentation, options |-> options, segments |-> segments, excursions |-> excursions,
   terms |-> [contingency |-> 5, profit |-> 24, steps |-> [KES |-> 100, USD |-> 1]]] @@ heads

Dhow == [activity |-> "dhow", day |-> 2]

MCOfferQuestions ==
  {q \in {[quote |-> OfferQuote(heads, departure, options, segments, excursions, presentation),
           catalogue |-> Catalogue(IF Mixed(heads) THEN 240 ELSE 100, minNights),
           limits |-> [catered |-> 1, selfCatering |-> 1],
           refusals |-> {[source |-> "engine", property |-> "lodge", needs |-> 4, nights |-> 3],
                         [source |-> "manual", property |-> "villa", needs |-> None, nights |-> None]},
           declined |-> hand[1],
           withdrawn |-> [source |-> hand[2], property |-> "villa", needs |-> None, nights |-> None]] :
            hand \in {<<"lodge", "engine">>, <<"inn", "manual">>},
            heads \in Parties, departure \in {3, 4}, minNights \in {None, 3, 4}, presentation \in {None, "USD"},
            options \in UNION {OptionLists(d, u) : d \in {3, 4}, u \in {100, 240}},
            segments \in {<<>>, InSequence(<<ByRoad, [ByRoad EXCEPT !.on = 3]>>),
                          InSequence(<<ByRoad, [ByRoad EXCEPT !.optional = TRUE, !.units = 2], [Train EXCEPT !.mode = "air"]>>)},
            excursions \in {<<>>, <<Dhow, [activity |-> "walk", day |-> 1]>>,
                            <<Dhow, [Dhow EXCEPT !.day = 9]>>}} :
     \* A quote presented in dollars divides every shilling of it.
     /\ q.quote.presentation = "USD" => Mixed(q.quote)
     /\ \A i \in DOMAIN q.quote.options :
          q.quote.options[i].chef \in {None, 2 * (IF Mixed(q.quote) THEN 240 ELSE 100)}}

==============================================================================
