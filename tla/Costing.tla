------------------------------- MODULE Costing -------------------------------
(***************************************************************************)
(* The pricing engine as the questions an agent asks of it.  Each          *)
(* behaviour is one question, drawn from a bounded set of inputs, and its  *)
(* answer; the properties say what the answer promises.                    *)
(***************************************************************************)
EXTENDS Papers

CONSTANTS
  PackageQuestions,   \* [legs, arrival, departure, minimum, movements, excursions]
  OrderQuestions,     \* [places, nights, roads, maxMinutes]
  JourneyQuestions,   \* [segments, legs, desk, arrival, pax]
  StayQuestions,      \* [rates, capacity, stay, requested, fx]
  OfferQuestions      \* [quote, catalogue, limits, refusals, declined, withdrawn]

\* Where an option is slept.
SleptAt(o) == IF o.legs = <<>> THEN {o.property} ELSE {leg.property : leg \in Range(o.legs)}

IsList(rows) == rows \in Seq(Range(rows))

\* Rows of a quote as they are read: an id is an option's own, headcounts and days
\* are numbers, and a refusal is the engine's or an agent's.
QuoteIsRead(quote, refusals) ==
  /\ {"options", "segments", "excursions", "cohorts", "travellers", "paxCount", "residence",
      "requested", "arrival", "departure"} \subseteq DOMAIN quote
  /\ IsList(quote.options) /\ IsList(quote.segments) /\ IsList(quote.excursions)
  /\ IsList(quote.cohorts) /\ IsList(quote.travellers)
  /\ \A i, j \in DOMAIN quote.options : quote.options[i].id = quote.options[j].id => i = j
  /\ \A o \in Range(quote.options) :
       /\ IsList(o.legs)
       /\ \A leg \in Range(o.legs) : {leg.seq, leg.checkIn, leg.checkOut} \subseteq Int
  /\ {quote.arrival, quote.departure} \subseteq Int /\ quote.arrival < quote.departure
  /\ quote.paxCount \in Int \cup {None}
  /\ \A c \in Range(quote.cohorts) : c.count \in Int /\ c.type \in Range(TYPES)
  /\ \A r \in refusals : r.source \in {"engine", "manual"}

\* The rates of a property, each for one of its rooms, and the beds of the rooms.
RatesAreRead(rates, capacity) ==
  /\ IsFiniteSet(rates)
  /\ \A r \in rates : /\ r.room \in DOMAIN capacity
                      /\ {r.occupancy, r.since, r.until} \subseteq Int
                      /\ r.minNights \in Int \cup {None}
  /\ \A room \in DOMAIN capacity : capacity[room] \in Nat \ {0}

\* A refusal, as _price_room_type gives one, is never taken for none.
RefusalsOf(rates) ==
  {[why |-> "unhousable"]} \cup {[why |-> "short", minNights |-> r.minNights] : r \in rates}

\* Each night of a stay is slept once, by somebody, and what is charged for it is in a
\* currency with an exchange rate on file: effective_rate raises where there is none.
StayIsRead(asked) ==
  LET stay == asked.stay
  IN  /\ stay.nights \in Seq(Int)
      /\ \A i, j \in DOMAIN stay.nights : stay.nights[i] = stay.nights[j] => i = j
      /\ IsList(stay.group) /\ \A c \in Range(stay.group) : c.count \in Nat \ {0}
      /\ RatesAreRead(asked.rates, asked.capacity) /\ None \notin RefusalsOf(asked.rates)
      /\ \A r \in RatesOf(asked.rates, stay) :
           /\ r.amount \in Int /\ {r.discount, r.child} \subseteq Int \cup {None}
           /\ asked.fx[<<r.currency, stay.presentation>>] \in Int \X (Nat \ {0})
\* The movements of a journey, the tariffs and roads on file, and a unit of money in
\* which the fuel of no road is nothing: kilometres, consumption and prices are positive.
JourneyIsRead(asked) ==
  LET desk == asked.desk
  IN  /\ IsList(asked.segments) /\ asked.pax \in Nat \ {0}
      /\ IsFiniteSet(desk.tariffs) /\ IsFiniteSet(desk.routes) /\ IsFiniteSet(desk.fuel)
      /\ None \notin desk.tariffs \cup desk.routes \cup desk.fuel
      /\ \A s \in Range(asked.segments) :
           /\ s.seq \in Int /\ s.units \in Nat \ {0} /\ s.optional \in BOOLEAN
           /\ s.on \in Int \cup {None}
           /\ s.vehicle # None =>
                /\ s.vehicle.kmpl \in Nat \ {0} /\ {s.vehicle.driver, s.vehicle.running} \subseteq Int
                /\ \A r \in desk.routes, p \in desk.fuel : r.km * p.amount >= s.vehicle.kmpl
      /\ asked.arrival \in Int
      /\ \A t \in desk.tariffs : t.since \in Int /\ {t.amount, t.vat} \subseteq Nat
      /\ \A r \in desk.routes : {r.since, r.entered, r.km} \subseteq Int
      /\ \A p \in desk.fuel : {p.since, p.amount} \subseteq Int

\* The rates of every property on the quote, and somebody to sell them to.
FilesAreRead(asked) ==
  LET catalogue == asked.catalogue
  IN  /\ GroupOf(asked.quote, catalogue) # None
      /\ \A c \in Range(CountsOf(asked.quote)) : catalogue.rank[c.residence] \in Int
      /\ \A property \in UNION {SleptAt(o) : o \in Range(asked.quote.options)} :
           RatesAreRead(catalogue.rates[property], catalogue.capacity)

\* QuoteCreate._check_dates: a quote is of at least a night.
ASSUME CostingAssumption ==
  /\ None \notin Int
  /\ \A asked \in PackageQuestions :
       /\ IsList(asked.legs)
       /\ \A leg \in Range(asked.legs) : {leg.seq, leg.checkIn, leg.checkOut} \subseteq Int
       /\ {asked.arrival, asked.departure} \subseteq Int /\ asked.arrival < asked.departure
       /\ \A seq \in DOMAIN asked.minimum : asked.minimum[seq] \in Int
       /\ \A m \in asked.movements : m.on \in Int \cup {None}
       /\ \A x \in asked.excursions : x.day \in Int \cup {None}
  /\ \A asked \in OrderQuestions :
       /\ IsList(asked.places)
       /\ \A x, y \in Range(asked.places) :
            asked.roads[<<x, y>>] = None \/ asked.roads[<<x, y>>].km \in Int
  /\ \A asked \in JourneyQuestions : JourneyIsRead(asked)
  /\ \A asked \in StayQuestions : StayIsRead(asked)
  /\ \A asked \in OfferQuestions : QuoteIsRead(asked.quote, asked.refusals) /\ FilesAreRead(asked)

VARIABLES
  question,   \* which question is asked
  given,      \* its input
  answer      \* what the code answers; None before it does

vars == <<question, given, answer>>

Init ==
  /\ answer = None
  /\ \/ question = "package" /\ given \in PackageQuestions
     \/ question = "order" /\ given \in OrderQuestions
     \/ question = "journey" /\ given \in JourneyQuestions
     \/ question = "stay" /\ given \in StayQuestions
     \/ question = "offer" /\ given \in OfferQuestions

Answer(asked, result) ==
  /\ question = asked /\ answer = None
  /\ answer' = result
  /\ UNCHANGED <<question, given>>

AskPackage ==
  Answer("package",
    [bookable    |-> P!Bookable(given.legs, given.arrival, given.departure, given.minimum),
     programme   |-> P!Programme(given.legs, given.arrival, given.departure,
                                 given.movements, given.excursions),
     schedulable |-> P!Schedulable(given.arrival, given.departure,
                                   given.movements, given.excursions)])

AskOrder ==
  Answer("order",
    [problems |-> J!SequenceProblems(given.places, given.nights, given.roads, given.maxMinutes),
     score    |-> J!Score(J!Hops(given.places, given.nights, given.roads)),
     better   |-> J!BetterOrder(given.places, given.roads)])

AskJourney ==
  LET journey == J!Journey(given.segments, given.desk, given.arrival, given.pax)
  IN  Answer("journey", [journey |-> journey,
                         blocks  |-> J!JourneyBlocks(given.segments, given.legs, journey)])

AskStay ==
  Answer("stay", PriceStay(given.rates, given.capacity, given.stay, given.requested, given.fx))

RefuseOffer ==
  /\ question = "offer" /\ ~Storable(given.quote)
  /\ Answer("offer", [stored |-> FALSE])

OfferAnswer(quote, computed, entered) ==
  [stored    |-> TRUE,
   quote     |-> quote,
   computed  |-> computed,
   refusals  |-> Reprice(entered, computed),
   blocks    |-> ReadinessBlocks(quote, computed, given.limits),
   version   |-> None]

\* The quote is stored, the agent declines one property and takes back one refusal,
\* and it is priced.
AskOffer ==
  LET quote == CreateQuote(given.quote, given.catalogue)
      entered == RemoveRefusal(DeclineByHand(given.refusals, given.declined, quote), given.withdrawn)
  IN  /\ question = "offer" /\ Storable(given.quote)
      /\ Answer("offer", OfferAnswer(quote, Compute(quote, given.catalogue), entered))

Priced == question = "offer" /\ answer # None /\ answer.stored
Issued == Priced /\ answer.version # None

IssueOffer ==
  /\ Priced /\ answer.blocks = {} /\ answer.version = None
  /\ answer' = [answer EXCEPT !.version = Issue(answer.quote, answer.computed, answer.refusals,
                                                given.catalogue)]
  /\ UNCHANGED <<question, given>>

Next ==
  \/ AskPackage \/ AskOrder \/ AskJourney \/ AskStay
  \/ RefuseOffer \/ AskOffer \/ IssueOffer

Spec == Init /\ [][Next]_vars

Answered(asked) == question = asked /\ answer # None

-------------------------------------------------------------------------------

\* A package is bookable exactly when its stays, in their order, are the nights of
\* the trip, each slept once and none shorter than its minimum; its programme then
\* gives every day the stay whose night it is, changes stay on the day it says it
\* moves, and shows every movement and excursion of the trip on its own day only.
PackageCoversTheTrip ==
  Answered("package") =>
    LET ordered == P!InOrder(given.legs)
        slept == FlattenSeq([i \in DOMAIN ordered |-> P!NightsOf(ordered[i])])
        nights == [i \in DOMAIN ordered |-> ordered[i].checkOut - ordered[i].checkIn]
        day == answer.programme
    IN  /\ answer.bookable <=>
             /\ slept = P!StayNights(given.arrival, given.departure)
             /\ \A i \in DOMAIN ordered :
                  /\ nights[i] > 0
                  /\ ordered[i].seq \in DOMAIN given.minimum => nights[i] >= given.minimum[ordered[i].seq]
             /\ \A i, j \in DOMAIN ordered : i # j => ordered[i].seq # ordered[j].seq
        /\ answer.bookable =>
             \A n \in DOMAIN day :
               /\ day[n].leg # None
               /\ ordered[day[n].leg].checkIn <= day[n].on
               /\ day[n].on < ordered[day[n].leg].checkOut \/ (n = Len(day) /\ ~day[n].night)
               /\ (day[n].movesFrom # None) <=> (n > 1 /\ day[n].leg # day[n - 1].leg)
               /\ n > 1 => day[n].leg \in {day[n - 1].leg, day[n - 1].leg + 1}
        /\ answer.schedulable =>
             /\ \A m \in {x \in given.movements : x.on # None} :
                  {n \in DOMAIN day : m \in day[n].movements} = {m.on - given.arrival + 1}
             /\ \A x \in {y \in given.excursions : y.day # None} :
                  {n \in DOMAIN day : x \in day[n].excursions} = {x.day}

\* An order suggested in place of an agent's can be driven: it visits the same
\* places, starts and ends where the trip does, uses only roads on file, is as much
\* shorter as it says, and nothing that keeps the ends is shorter still.
BetterOrderIsDrivable ==
  Answered("order") /\ answer.better # None =>
    LET order == answer.better.order
        hops(places) == {<<places[i], places[i + 1]>> : i \in 1..Len(places) - 1}
                          \ {<<x, x>> : x \in Range(places)}
        drivable(places) == \A hop \in hops(places) : given.roads[hop] # None
        km(places) == Total([i \in 1..Len(places) - 1 |->
                        IF places[i] = places[i + 1] THEN 0 ELSE given.roads[<<places[i], places[i + 1]>>].km])
    IN  /\ ToBag(order) = ToBag(given.places)
        /\ Head(order) = Head(given.places) /\ Last(order) = Last(given.places)
        /\ drivable(order) /\ drivable(given.places)
        /\ answer.better.saving = km(given.places) - km(order) /\ answer.better.saving > 0
        /\ \A p \in J!Reorderings(given.places) :
             drivable(J!Reordered(given.places, p)) /\ km(J!Reordered(given.places, p)) >= km(order)
        /\ answer.score.unknown = 0

\* A journey nothing blocks charges every movement of the package once, however its
\* segments are numbered: as many fares and tanks of fuel are charged under a number as
\* movements by tariff and drives of our own, none of them a flight; each charge is of a
\* movement, an add-on apart, at a fare in force on the day it travels or for
\* the fuel it burns; and our own vehicle can take the road it is sold on.
ReadyJourneyIsCharged ==
  Answered("journey") /\ answer.blocks = {} =>
    LET journey == answer.journey
        segments == given.segments
        on(s) == IF s.on = None THEN given.arrival ELSE s.on
        priced(s) == s.mode \in J!PRICED_MODES
        all == journey.charges \o journey.optional
        charged(seq, what) == Len(Kept(all, LAMBDA c : c.seq = seq /\ c.what = what))
        byTariff(seq) == Len(Kept(segments, LAMBDA s : s.seq = seq /\ priced(s) /\ s.vehicle = None))
        driven(seq) == Len(Kept(segments, LAMBDA s : s.seq = seq /\ priced(s) /\ s.vehicle # None))
        inForce(r, s) == r.since <= on(s) /\ (r.until = None \/ on(s) <= r.until)
    IN  /\ \A s \in Range(segments) :
             /\ charged(s.seq, "fare") = byTariff(s.seq)
             /\ charged(s.seq, "fuel") = driven(s.seq) /\ charged(s.seq, "crew") <= driven(s.seq)
             /\ s.mode \in J!NAMED_ONLY_MODES => s.seq \in journey.named
             /\ priced(s) /\ s.vehicle # None =>
                  \E r \in given.desk.routes :
                    /\ {r.from, r.to} = {s.origin, s.destination} /\ inForce(r, s)
                    /\ r.takes = {} \/ s.vehicle.type \in r.takes
        /\ \A c \in Range(all) :
             \E s \in Range(segments) :
               /\ s.seq = c.seq /\ priced(s)
               /\ c \in Range(IF s.optional THEN journey.optional ELSE journey.charges)
               /\ IF s.vehicle # None THEN c.what = "fuel" => c.amount > 0
                  ELSE \E t \in given.desk.tariffs :
                         /\ t.destination = s.destination /\ t.currency = c.currency /\ inForce(t, s)
                         /\ c.amount >= t.amount * s.units

\* A stay that is priced has a bed for every traveller on every night, each child
\* charged exactly once, as a guest of a room or on a bed of its own; no room is
\* sold at a rate quoted for fewer guests, another residency, another night or a
\* longer stay; and the worksheet's lines add up to what is charged.
BedsForEveryone ==
  Answered("stay") /\ answer.status = "priced" =>
    LET slots == answer.best.slots
        group == given.stay.group
        here(residence, night) == Kept(slots, LAMBDA s : s.residence = residence /\ s.night = night)
        people(rooms) == Total([i \in DOMAIN rooms |-> rooms[i].guests + rooms[i].children])
        charged(currency) ==
          Total([i \in DOMAIN slots |-> IF slots[i].rate.currency = currency
                                        THEN RoomCharge(slots[i]) + ChildCharge(slots[i]) ELSE 0])
        sheet(currency) == {l \in Worksheet(slots) : l.rate.currency = currency}
    IN  /\ \A residence \in Residences(group), night \in Range(given.stay.nights) :
             people(here(residence, night)) = Headcount(group, residence)
        /\ \A s \in Range(slots) :
             /\ s.guests <= s.rate.occupancy /\ s.guests <= given.capacity[answer.best.room]
             /\ s.rate.residence = s.residence /\ s.rate.plan = answer.plan
             /\ s.rate.since <= s.night /\ s.night <= s.rate.until
             /\ s.rate.minNights # None => Len(given.stay.nights) >= s.rate.minNights
             /\ s.children > 0 => s.rate.child # None
        /\ \A currency \in {s.rate.currency : s \in Range(slots)} :
             FoldSet(LAMBDA l, sum : sum + l.extended, 0, sheet(currency)) = charged(currency)

\* What a priced option costs is what its cohorts bear, to the last unit: no line
\* is lost, and none is charged twice.  In one currency, what they pay covers that
\* cost, the margin and the fee, by less than one rounding step a head.
CohortsBearTheCost ==
  Priced =>
    \A o \in PricedOptions(answer.computed) :
      LET group == answer.computed.group
          paid == o.cohorts.cohorts
          fx == FxOn(given.catalogue, answer.quote.arrival)
          terms == answer.quote.terms
          landed(c) == Convert(paid[c].cost, fx[<<group[c].currency, answer.quote.presentation>>])
          pays == Total([c \in DOMAIN paid |-> paid[c].total])
          owes == SellingTotal(o.buildUp.cost, terms, o.buildUp.fee)
          step == terms.steps[answer.quote.presentation]
      IN  /\ o.cohorts # None
          /\ Total([c \in DOMAIN paid |-> landed(c)]) = o.buildUp.cost
          /\ \A c \in DOMAIN paid : paid[c].cost > 0
          /\ (\A c \in DOMAIN group : group[c].currency = answer.quote.presentation) =>
               /\ pays * 10000 >= owes
               /\ pays * 10000 < owes + 10000 * step * Pax(group)

\* Every option is priced for every night of the trip, or the document says why
\* not, or the quote cannot be sent; what the document says is what these dates
\* and these rates refuse, and the agent's own refusals are kept.
EveryOptionIsAccountedFor ==
  Priced =>
    LET quote == answer.quote
        outcome(o) == CHOOSE r \in Range(answer.computed.options) : r.option = o.id
        dropped == {o \in Range(quote.options) : outcome(o).status = "dropped"}
        engine == {r \in answer.refusals : r.source = "engine"}
        kept == {r \in given.refusals : r.source = "manual"} \ {given.withdrawn}
    IN  /\ \A o \in dropped :
             \/ "unpriced_option" \in answer.blocks
             \/ \E r \in engine : r.property \in SleptAt(o)
        /\ \A r \in engine : /\ r.needs > r.nights
                             /\ \E o \in dropped : r \in ByEngine(outcome(o).declined)
        /\ kept \subseteq answer.refusals
        /\ \A r \in answer.refusals \ (engine \cup kept) :
             r.property = given.declined /\ \A o \in Range(quote.options) : o.property # r.property
        /\ answer.blocks = {} =>
             /\ Cardinality({o \in Range(quote.options) : o.recommended /\ o \notin dropped}) = 1
             /\ \A o \in Range(quote.options) \ dropped :
                  outcome(o).nights = P!StayNights(quote.arrival, quote.departure)
        /\ answer.blocks \cap ({"package", "itinerary"} \cup J!BlockingTransport) = {}

\* What lines come to at the rates of a day.
LandedOn(lines, on) == Landed(lines, answer.quote.presentation, FxOn(given.catalogue, on))

\* The worksheet's lines make up every figure above them, supplements at the rates of the
\* day their stay begins and all else at the arrival's, and, once each, the journey; a
\* package it misses no road for has one for every move, the day a package makes it.
SheetAddsUp(sheet, version) ==
  LET quote == answer.quote
      journey == answer.computed.journey
      amounts(lines) == ToBag([i \in DOMAIN lines |-> <<lines[i].amount, lines[i].currency>>])
      roadOn(on, hop) == \E r \in given.catalogue.routes :
        {r.from, r.to} = hop /\ r.since <= on /\ (r.until = None \/ on <= r.until)
      arrivals(place) == {leg.checkIn : leg \in {l \in UNION {Range(o.legs) : o \in Range(quote.options)} :
                                                   l.destination = place}}
  IN  /\ \A i \in DOMAIN sheet.options :
           LET groups == Kept(sheet.options[i].groups, LAMBDA g : g.component # "transport_optional")
               driving == sheet.options[i].driving
               legs == version.options[i].legs
           IN  /\ Total([g \in DOMAIN groups |-> groups[g].total]) = sheet.options[i].figures.subtotal
               /\ \A g \in DOMAIN groups :
                    LET of(leg) == Kept(groups[g].lines, LAMBDA l : l.leg = leg.seq)
                    IN  groups[g].total =
                          IF groups[g].component = "supplements"
                          THEN Total([n \in DOMAIN legs |-> LandedOn(of(legs[n]), legs[n].checkIn)])
                          ELSE LandedOn(groups[g].lines, quote.arrival)
               /\ driving # None /\ driving.unknown = 0 =>
                    \A n \in 1..Len(legs) - 1 :
                      LET hop == {legs[n].destination, legs[n + 1].destination}
                      IN  Cardinality(hop) = 2 =>
                            \E on \in arrivals(legs[n + 1].destination) : roadOn(on, hop)
      /\ amounts(sheet.journey) = amounts(journey.charges \o journey.optional)

\* What the client reads of an option adds up to what is billed for it; its one price
\* is the total's share where the document is in its currency; and its days, dates and
\* stays are those of the page the client who books it is given.
PageAddsUp(page, o, figures, version) ==
  LET quote == answer.quote
      fx == FxOn(given.catalogue, quote.arrival)
      inOneCurrency == \A c \in Range(o.cohorts) : c.currency = quote.presentation
      trip == TripOf(version, [option |-> page.option])
  IN  /\ page.groupTotal = (IF figures.billed = None THEN figures.groupTotal ELSE figures.billed)
      /\ page.cohorts # <<>> =>
           Total([c \in DOMAIN page.cohorts |->
                    Convert(page.cohorts[c].total, fx[<<page.cohorts[c].currency, quote.presentation>>])])
             = page.groupTotal
      /\ page.cohorts = <<>> => page.perPerson # None
      /\ page.perPerson # None /\ inOneCurrency => page.perPerson * version.pax = page.groupTotal
      /\ page.itinerary # <<>> /\ Len(page.days) = quote.departure - quote.arrival + 1
      /\ Len(trip.days) = Len(page.days) /\ Len(trip.stays) = Len(page.itinerary)
      /\ \A n \in DOMAIN page.days :
           /\ <<trip.days[n].on, trip.days[n].property, trip.days[n].board>>
                = <<page.days[n].on, page.days[n].property, page.days[n].board>>
           /\ trip.days[n].movements \cup trip.days[n].excursions = page.days[n].events
      /\ \A n \in DOMAIN trip.stays :
           trip.stays[n].nights
             = Cardinality({d \in DOMAIN page.days : page.days[d].board # None
                              /\ page.days[d].property = page.itinerary[n].property})
      /\ page.recommended => TripOf(version, [option |-> None]).days = trip.days

\* The document leads on the recommended option, at the version's sale, of which what
\* is booked as profit is the margin, the fee and the rounding.
LeadsOnTheSale(paper, sheet, version) ==
  LET lead == {i \in DOMAIN paper.pages : paper.pages[i].recommended}
      quote == answer.quote
      step == quote.terms.steps[quote.presentation]
  IN  \E i \in lead :
        LET figures == sheet.options[i].figures
            spare == version.money.profit * 10000 - figures.margin - figures.fee * 10000
        IN  /\ lead = {i}
            /\ paper.pages[i].groupTotal = version.money.selling
            /\ paper.programme.of \in {None, paper.pages[i].option}
            /\ (\A c \in Range(version.options[i].cohorts) : c.currency = quote.presentation) =>
                 0 <= spare /\ spare < 10000 * step * version.pax

\* No movement, flight or upgrade is left off the page that should name it.
JourneyIsNamed(paper, version) ==
  LET journey == answer.computed.journey
  IN  /\ \A s \in Range(answer.quote.segments) :
           /\ s.mode \in J!NAMED_ONLY_MODES => [what |-> "flight", of |-> s.seq] \in paper.exclusions
           /\ s.mode \in J!PRICED_MODES =>
                \E r \in paper.transport.routes :
                  <<r.route[1], r.route[2], r.optional>> = <<s.kind, s.mode, s.optional>>
      /\ paper.transport # None =>
           FoldSet(LAMBDA r, sum : sum + r.count, 0, paper.transport.routes) = Len(version.journey.movements)
      /\ (\E x \in paper.exclusions : x.what = "upgrades") <=> journey.optional # <<>>

\* The papers of an issued version say one thing: the worksheet, the proposal and the
\* page of the client who books.  The table of the proposal lists every page, dearest last.
PapersAgree ==
  Issued =>
    LET version == answer.version
        sheet == WorksheetOf(version)
        paper == ProposalOf(version)
    IN  /\ SheetAddsUp(sheet, version)
        /\ \A i \in DOMAIN paper.pages :
             PageAddsUp(paper.pages[i], version.options[i], sheet.options[i].figures, version)
        /\ LeadsOnTheSale(paper, sheet, version)
        /\ JourneyIsNamed(paper, version)
        /\ ToBag(paper.comparison) = ToBag(paper.pages)
        /\ \A i \in 1..Len(paper.comparison) - 1 :
             paper.comparison[i].groupTotal <= paper.comparison[i + 1].groupTotal

==============================================================================
