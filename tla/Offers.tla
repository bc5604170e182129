-------------------------------- MODULE Offers --------------------------------
(***************************************************************************)
(* A quote's options priced (option_pricing.compute, price_options), the   *)
(* refusals that pricing leaves on the document, and whether the quote can *)
(* be sent (assembly._grade).                                              *)
(*                                                                         *)
(* A quote is [arrival, departure, residence, paxCount, travellers,        *)
(* cohorts, requested, presentation, terms, options, segments,             *)
(* excursions]; an option [id, property, legs, fee, chef, food,            *)
(* recommended, comparable], its legs [seq, property, destination,         *)
(* checkIn, checkOut, requested].  The catalogue is everything on file.    *)
(***************************************************************************)
EXTENDS Extras

P == INSTANCE Packages
J == INSTANCE Journeys

GroupOf(quote, catalogue) == BuildGroup(quote, catalogue.rank, catalogue.currency)

\* The rates of a day, by pair of currencies; None where none is on file.
FxOn(catalogue, on) ==
  [pair \in catalogue.currencies \X catalogue.currencies |->
     EffectiveRate(catalogue.fx, pair[1], pair[2], on)]

\* Sums of lines, each in its own currency, as one amount of another.
Landed(lines, currency, fx) ==
  LET of(c) == Total([i \in DOMAIN lines |-> IF lines[i].currency = c THEN lines[i].amount ELSE 0])
  IN  FoldSet(LAMBDA c, sum : sum + Convert(of(c), fx[<<c, currency>>]), 0,
              {lines[i].currency : i \in DOMAIN lines})

-------------------------------------------------------------------------------
(***************************************************************************)
(* One option, which is one or more legs                                   *)
(***************************************************************************)

\* An option without legs is a package of one, for the whole stay.
LegsOf(option, quote) ==
  IF option.legs = <<>>
  THEN <<[seq |-> 1, property |-> option.property, requested |-> quote.requested,
          nights |-> P!StayNights(quote.arrival, quote.departure)]>>
  ELSE LET ordered == P!InOrder(option.legs)
       IN  [i \in DOMAIN ordered |->
              [seq |-> ordered[i].seq, property |-> ordered[i].property,
               requested |-> IF ordered[i].requested = None THEN quote.requested
                             ELSE ordered[i].requested,
               nights |-> P!NightsOf(ordered[i])]]

\* The room's cost as a line per residency and currency: borne by those it was
\* priced for, the children apart.
RoomBearers(residence, sharing) == IF residence \in sharing THEN {"adult", "infant"} ELSE {}

RoomLines(best) ==
  LET keys == {<<s.residence, s.rate.currency>> : s \in Range(best.slots)}
      total(key, Charge(_)) ==
        Total([i \in DOMAIN best.slots |->
                 LET s == best.slots[i]
                 IN  IF <<s.residence, s.rate.currency>> = key THEN Charge(s) ELSE 0])
      room(key) == [GroupLine("accommodation", total(key, RoomCharge), key[2])
                      EXCEPT !.residence = key[1], !.bearers = RoomBearers(key[1], best.sharing)]
      beds(key) == [GroupLine("accommodation", total(key, ChildCharge), key[2])
                      EXCEPT !.residence = key[1], !.type = "child"]
  IN  SetToSeq({room(key) : key \in keys}
                 \cup {beds(key) : key \in {k \in keys : total(k, ChildCharge) # 0}})

\* What the agent has entered for the chef, for the meals the board leaves out.
ByHand(option, plan, nights, presentation) ==
  LET chef == IF option.chef = None THEN 0 ELSE option.chef * MealsNeedingChef(plan, nights)
      food == IF option.food = None THEN 0 ELSE option.food
  IN  IF ~NeedsChef(plan) THEN <<>>
      ELSE Kept(<<GroupLine("chef", chef, presentation), GroupLine("meals", food, presentation)>>,
                     LAMBDA line : line.amount # 0)

\* What is charged beside the room, as the supplements' own rows say it.
SupplementLines(charged) ==
  [i \in DOMAIN charged |-> GroupLine("supplements", charged[i].cost, charged[i].row.currency)]

\* The room that won, and everything charged beside it: what cohorts bear of it, what
\* the leg adds to each component, and its entries on the worksheet.  A supplement is
\* of its own currency there, and in its component at the rate of the leg's first night.
CostedLeg(priced, leg, option, quote, group, catalogue) ==
  LET room == RoomLines(priced.best)
      park == ParkFees(catalogue.parkFees, catalogue.destination[leg.property], leg.nights, group)
      charged == SetToSeq(Supplements(catalogue.supplements[leg.property], quote.residence, leg.nights,
                                      priced.best.room, priced.plan, Pax(group), priced.best.rooms))
      fx == FxOn(catalogue, Head(leg.nights))
      byHand == ByHand(option, priced.plan, Len(leg.nights), quote.presentation)
      ofLeg(lines) == [i \in DOMAIN lines |-> [leg |-> leg.seq] @@ lines[i]]
      entered(label) == Total([i \in DOMAIN byHand |-> IF byHand[i].label = label THEN byHand[i].amount ELSE 0])
  IN  IF priced.status # "priced" THEN [priced |-> priced]
      ELSE [priced |-> priced,
            lines |-> room \o park.lines,
            entries |-> ofLeg(room \o SupplementLines(charged) \o park.lines \o byHand),
            components |->
              [accommodation |-> priced.best.costed,
               supplements |-> Total([i \in DOMAIN charged |->
                                 Convert(charged[i].cost, fx[<<charged[i].row.currency, quote.presentation>>])]),
               park_fees |-> Landed(park.lines, quote.presentation, FxOn(catalogue, quote.arrival)),
               chef |-> entered("chef"), meals |-> entered("meals")]]

PriceLeg(leg, option, quote, group, catalogue) ==
  LET stay == [nights |-> leg.nights, group |-> group, presentation |-> quote.presentation]
      priced == PriceStay(catalogue.rates[leg.property], catalogue.capacity, stay, leg.requested,
                          FxOn(catalogue, quote.arrival))
  IN  CostedLeg(priced, leg, option, quote, group, catalogue)

\* What an option comes to, component by component: its legs', its journey's and its
\* activities'.  One that comes to nothing is left out.
Components(costed, quote, journey, activities, catalogue) ==
  LET landed(lines) == Landed(lines, quote.presentation, FxOn(catalogue, quote.arrival))
      ofLegs == [label \in DOMAIN costed[1].components |->
                   Total([i \in DOMAIN costed |-> costed[i].components[label]])]
      whole == ofLegs @@ [transport |-> landed(journey.charges), activities |-> landed(activities.lines)]
  IN  Restrict(whole, {label \in DOMAIN whole : label = "accommodation" \/ whole[label] # 0})

\* What the whole group shares, one line for each thing however many legs it is of.
SharedLines(components, presentation) ==
  LET labels == Kept(<<"supplements", "chef", "meals">>, LAMBDA label : label \in DOMAIN components)
  IN  [i \in DOMAIN labels |-> GroupLine(labels[i], components[labels[i]], presentation)]

\* An option's components, the lines its cohorts bear, and its worksheet.  Upgrades are
\* entered under a component of their own, which the option's total has not.
OptionCosts(costed, quote, journey, activities, catalogue) ==
  LET components == Components(costed, quote, journey, activities, catalogue)
      moves(label, charges) == [i \in DOMAIN charges |->
                                  GroupLine(label, charges[i].amount, charges[i].currency)]
      driven == moves("transport", journey.charges)
  IN  [components |-> components,
       lines |-> FlattenSeq([i \in DOMAIN costed |-> costed[i].lines])
                   \o SharedLines(components, quote.presentation) \o activities.lines \o driven,
       ledger |-> FlattenSeq([i \in DOMAIN costed |-> costed[i].entries])
                    \o activities.lines \o driven \o moves("transport_optional", journey.optional)]

\* The legs are one offer: the first that cannot be priced drops the whole.
DropOption(option, legs, costed) ==
  LET first == CHOOSE i \in DOMAIN legs :
                 /\ costed[i].priced.status # "priced"
                 /\ \A j \in 1..i - 1 : costed[j].priced.status = "priced"
      worst == costed[first].priced
  IN  [status |-> "dropped", option |-> option.id,
       declined |-> IF worst.status # "declined" THEN {}
                    ELSE {[property |-> legs[first].property,
                           needs |-> worst.minNights, nights |-> Len(legs[first].nights)]},
       warned |-> Len(legs) > 1 \/ worst.status # "declined"]

OfferOption(option, legs, costed, costs, quote, group, catalogue) ==
  LET fx == FxOn(catalogue, quote.arrival)
      lead == costed[1].priced
      plans == [i \in DOMAIN legs |-> costed[i].priced.plan]
      paid(slots) == InPresentation([n \in DOMAIN slots |-> RoomPaid(slots[n])], quote.presentation, fx)
  IN  [status |-> "priced", option |-> option.id, declined |-> {}, warned |-> FALSE,
       plan |-> lead.plan, plans |-> plans,
       nights |-> FlattenSeq([i \in DOMAIN legs |-> legs[i].nights]),
       rooms |-> Max({costed[i].priced.best.rooms : i \in DOMAIN legs}),
       chef |-> DOMAIN costs.components \cap {"chef", "meals"},
       comparable |-> option.comparable /\ \A i \in DOMAIN legs : plans[i] = legs[i].requested,
       components |-> costs.components, ledger |-> costs.ledger,
       paid |-> Total([i \in DOMAIN legs |-> paid(costed[i].priced.best.slots)]),
       buildUp |-> BuildUp(FoldFunction(+, 0, costs.components), Pax(group), quote.terms,
                           option.fee, quote.terms.steps[quote.presentation], IsUniform(group)),
       cohorts |-> PriceGroup(costs.lines, group, catalogue.capacity[lead.best.room], quote.terms,
                              option.fee, quote.presentation, fx)]

OptionOutcome(option, legs, costed, quote, group, journey, activities, catalogue) ==
  IF \E i \in DOMAIN legs : costed[i].priced.status # "priced"
  THEN DropOption(option, legs, costed)
  ELSE OfferOption(option, legs, costed, OptionCosts(costed, quote, journey, activities, catalogue),
                   quote, group, catalogue)

PriceOption(option, quote, group, journey, activities, catalogue) ==
  LET legs == LegsOf(option, quote)
  IN  OptionOutcome(option, legs,
                    [i \in DOMAIN legs |-> PriceLeg(legs[i], option, quote, group, catalogue)],
                    quote, group, journey, activities, catalogue)

-------------------------------------------------------------------------------
(***************************************************************************)
(* The quote                                                               *)
(***************************************************************************)

Movements(quote) ==
  {[seq |-> quote.segments[i].seq, on |-> quote.segments[i].on] : i \in DOMAIN quote.segments}

LongestPackage(quote) ==
  Max({1} \cup {Len(quote.options[i].legs) : i \in DOMAIN quote.options})

\* assembly._sequenced: what is asked of the roads between the places of a package is
\* asked for the day it comes to them, and once: the first package to ask is answered,
\* and the others have its answer.
PlacesOf(option) == [i \in DOMAIN option.legs |-> P!InOrder(option.legs)[i].destination]

RoadMap(quote, routes) ==
  LET ordered == Kept(quote.options, LAMBDA o : Len(o.legs) > 1)
      asking(hop) == Kept(ordered, LAMBDA o : {hop[1], hop[2]} \subseteq Range(PlacesOf(o)))
      day(hop) == Head(Kept(P!InOrder(Head(asking(hop)).legs),
                                 LAMBDA leg : leg.destination = hop[2])).checkIn
      places == UNION {Range(PlacesOf(o)) : o \in Range(ordered)}
  IN  [hop \in places \X places |->
         IF hop[1] = hop[2] \/ asking(hop) = <<>> THEN None
         ELSE J!FindRoad(routes, hop[1], hop[2], day(hop))]

\* One property has no order to get wrong.
Sequenced(option, quote, routes) ==
  LET roads == RoadMap(quote, routes)
      legs == P!InOrder(option.legs)
      places == PlacesOf(option)
  IN  IF Len(legs) < 2 THEN None
      ELSE [score  |-> J!Score(J!Hops(places, [i \in DOMAIN legs |-> Len(P!NightsOf(legs[i]))], roads)),
            better |-> J!BetterOrder(places, roads)]

\* What a package offers; two of the same are one offer listed twice.
Signature(legs) ==
  LET ordered == P!InOrder(legs)
  IN  [i \in DOMAIN ordered |-> <<ordered[i].seq, ordered[i].property,
                                  ordered[i].checkIn, ordered[i].checkOut>>]

Packages(quote) == {i \in DOMAIN quote.options : quote.options[i].legs # <<>>}

\* What a quote is refused for as it is typed, rather than stored and priced wrongly.
Storable(quote) ==
  /\ CohortsAgree(quote)
  /\ \A i \in Packages(quote) :
       /\ P!Bookable(quote.options[i].legs, quote.arrival, quote.departure, <<>>)
       /\ \A j \in Packages(quote) \ {i} :
            Signature(quote.options[i].legs) # Signature(quote.options[j].legs)
  /\ J!TransportFaults(quote.segments, LongestPackage(quote)) \cap J!BlockingTransport = {}
  /\ P!Schedulable(quote.arrival, quote.departure, Movements(quote), Range(quote.excursions))

\* service.create_quote: the currency given, or else that of the residency.
CreateQuote(request, catalogue) ==
  [request EXCEPT !.presentation = IF @ # None THEN @ ELSE catalogue.currency[request.residence]]

JourneyOf(quote, group, catalogue) ==
  J!Journey(quote.segments, catalogue, quote.arrival, Pax(group))
ActivitiesOf(quote, group, catalogue) ==
  Activities(quote.excursions, catalogue.mandatory, catalogue.fares, quote.arrival, group)

\* Every option, in the order they are shown; an add-on through the same build-up.
Computed(quote, group, journey, activities, catalogue) ==
  LET extras == Landed(journey.optional, quote.presentation, FxOn(catalogue, quote.arrival))
  IN  [group |-> group, journey |-> journey, activities |-> activities,
       options |-> [i \in DOMAIN quote.options |->
                      PriceOption(quote.options[i], quote, group, journey, activities, catalogue)],
       addOn |-> IF extras = 0 THEN 0
                 ELSE BuildUp(extras, Pax(group), quote.terms, 0,
                              quote.terms.steps[quote.presentation], IsUniform(group)).total]

Compute(quote, catalogue) ==
  LET group == GroupOf(quote, catalogue)
  IN  Computed(quote, group, JourneyOf(quote, group, catalogue), ActivitiesOf(quote, group, catalogue),
               catalogue)

PricedOptions(computed) == {o \in Range(computed.options) : o.status = "priced"}
Declined(computed) == UNION {o.declined : o \in Range(computed.options)}

\* The refusals on the document: rows [source, property, needs, nights].
ByEngine(declined) ==
  {[source |-> "engine", property |-> d.property, needs |-> d.needs, nights |-> d.nights] : d \in declined}

\* Mutant: the previous run's are left where they are.
AddRefusals(refusals, computed) ==
  refusals \cup ByEngine(Declined(computed))
Reprice(refusals, computed) ==
  {r \in refusals : r.source # "engine"} \cup ByEngine(Declined(computed))

\* An agent's own refusals: of no property that is offered, and theirs to remove.
DeclineByHand(refusals, property, quote) ==
  IF \E i \in DOMAIN quote.options : quote.options[i].property = property THEN refusals
  ELSE refusals \cup {[source |-> "manual", property |-> property, needs |-> None, nights |-> None]}
RemoveRefusal(refusals, row) == IF row.source = "manual" THEN refusals \ {row} ELSE refusals

-------------------------------------------------------------------------------
(***************************************************************************)
(* Readiness: what keeps the quote from being sent                         *)
(***************************************************************************)

\* assembly._count_problems, for the faults that block: more than the page holds.
TooMany(computed, chef, most) ==
  Cardinality({o \in PricedOptions(computed) : NeedsChef(o.plan) = chef}) > most

Recommended(quote) == {o \in Range(quote.options) : o.recommended}

ReadinessBlocks(quote, computed, limits) ==
  {code \in {"unpriced_option", "missing_meal_cost", "no_recommendation",
             "multiple_recommendations", "recommendation_not_priced", "too_many_catered",
             "too_many_self_catering", "package", "itinerary"} :
     CASE code = "unpriced_option" -> \E o \in Range(computed.options) : o.warned
       [] code = "missing_meal_cost" ->
            \E o \in PricedOptions(computed) : NeedsChef(o.plan) /\ o.chef # {"chef", "meals"}
       [] code = "no_recommendation" -> Recommended(quote) = {}
       [] code = "multiple_recommendations" -> Cardinality(Recommended(quote)) > 1
       [] code = "recommendation_not_priced" ->
            /\ Cardinality(Recommended(quote)) = 1
            /\ \A r \in Recommended(quote), o \in PricedOptions(computed) : o.option # r.id
       [] code = "too_many_catered" -> TooMany(computed, FALSE, limits.catered)
       [] code = "too_many_self_catering" -> TooMany(computed, TRUE, limits.selfCatering)
       [] code = "package" ->
            \E o \in Range(quote.options) :
              o.legs # <<>> /\ ~P!Bookable(o.legs, quote.arrival, quote.departure, <<>>)
       [] code = "itinerary" ->
            ~P!Schedulable(quote.arrival, quote.departure, Movements(quote),
                           computed.activities.scheduled)}
  \cup J!JourneyBlocks(quote.segments, LongestPackage(quote), computed.journey)

==============================================================================
