-------------------------------- MODULE Papers --------------------------------
(***************************************************************************)
(* What is frozen when a quote is issued (assembly.issue, _snapshot), and  *)
(* the two papers made of the frozen version: the client's proposal        *)
(* (documents/viewmodel.py), with no cost on it, and the worksheet         *)
(* (documents/worksheet.py), with every one.  A cost line stands for the   *)
(* worksheet's entries of the same component, residency and currency.      *)
(***************************************************************************)
EXTENDS Offers

Under(lines, label) == Kept(lines, LAMBDA l : l.label = label)

-------------------------------------------------------------------------------
(***************************************************************************)
(* The version                                                             *)
(***************************************************************************)

\* A charge of the journey, under the words the charge was given.
Movement(charge, segments) ==
  LET segment == CHOOSE s \in Range(segments) : s.seq = charge.seq
  IN  [label |-> <<segment.kind, segment.mode, charge.what>>] @@ charge

FreezeJourney(quote, computed) ==
  LET charges == computed.journey.charges \o computed.journey.optional
  IN  [movements |-> [i \in DOMAIN charges |-> Movement(charges[i], quote.segments)],
       named |-> computed.journey.named, addOn |-> computed.addOn]

FreezeCohorts(priced, group) ==
  [c \in DOMAIN priced.cohorts.cohorts |->
     LET paid == priced.cohorts.cohorts[c]
     IN  [residence |-> group[c].residence, type |-> group[c].type, headcount |-> group[c].count,
          currency |-> group[c].currency, perPerson |-> paid.perPerson, total |-> paid.total]]

FreezeLegs(priced, option, quote, catalogue) ==
  LET legs == LegsOf(option, quote)
  IN  [i \in DOMAIN legs |->
         [seq |-> legs[i].seq, property |-> legs[i].property, plan |-> priced.plans[i],
          nights |-> Len(legs[i].nights),
          destination |-> catalogue.destination[legs[i].property],
          checkIn |-> Head(legs[i].nights), checkOut |-> Last(legs[i].nights) + 1]]

FreezeOption(priced, option, quote, computed, catalogue) ==
  LET legs == FreezeLegs(priced, option, quote, catalogue)
  IN  [option |-> option.id, property |-> option.property, recommended |-> option.recommended,
       comparable |-> priced.comparable, plan |-> priced.plan, rooms |-> priced.rooms,
       ledger |-> priced.ledger, components |-> priced.components,
       buildUp |-> priced.buildUp, paid |-> priced.paid, terms |-> quote.terms,
       clientTotal |-> IF priced.cohorts = None THEN priced.buildUp.total ELSE priced.cohorts.total,
       cohorts |-> IF priced.cohorts = None THEN <<>> ELSE FreezeCohorts(priced, computed.group),
       legs |-> legs, driving |-> Sequenced(option, quote, catalogue.routes),
       days |-> P!Programme(legs, quote.arrival, quote.departure, Movements(quote),
                            computed.activities.scheduled)]

\* What is kept of a concession: costed to the client, and not paid to the property.
Retained(o) == o.components["accommodation"] - o.paid

\* assembly._headline_money: the sale is what is billed, the cost what is paid out.
HeadlineMoney(o) ==
  LET internal == o.buildUp.cost - Retained(o)
  IN  [selling |-> o.clientTotal, internal |-> internal, profit |-> o.clientTotal - internal]

Issue(quote, computed, refusals, catalogue) ==
  LET kept == Kept([i \in DOMAIN quote.options |-> i],
                        LAMBDA i : computed.options[i].status = "priced")
      options == [k \in DOMAIN kept |->
                    FreezeOption(computed.options[kept[k]], quote.options[kept[k]],
                                 quote, computed, catalogue)]
      lead == CHOOSE o \in Range(options) : o.recommended
  IN  [pax |-> Pax(computed.group), options |-> options, journey |-> FreezeJourney(quote, computed),
       refused |-> refusals, money |-> HeadlineMoney(lead)]

-------------------------------------------------------------------------------
(***************************************************************************)
(* The worksheet                                                           *)
(***************************************************************************)

COMPONENT_ORDER == <<"accommodation", "supplements", "park_fees", "activities", "chef", "meals",
                     "transport", "transport_optional">>

\* A component the total does not carry is summed where one currency will do.
OwnTotal(lines) ==
  IF Cardinality({l.currency : l \in Range(lines)}) # 1 THEN None
  ELSE Total([i \in DOMAIN lines |-> lines[i].amount])

WorksheetGroups(o) ==
  LET shown == Kept(COMPONENT_ORDER, LAMBDA c : Under(o.ledger, c) # <<>>)
  IN  [g \in DOMAIN shown |->
         [component |-> shown[g], lines |-> Under(o.ledger, shown[g]),
          total |-> IF shown[g] \in DOMAIN o.components THEN o.components[shown[g]]
                    ELSE OwnTotal(Under(o.ledger, shown[g]))]]

\* The build-up's figures and the margin's, in hundredths of a percent of a unit.
WorksheetFigures(o) ==
  LET contingency == o.buildUp.cost * o.terms.contingency * 100
      profit == o.buildUp.cost * (100 + o.terms.contingency) * o.terms.profit
  IN  [subtotal |-> o.buildUp.cost, contingency |-> contingency, profit |-> profit,
       fee |-> o.buildUp.fee, perPerson |-> o.buildUp.perPerson, groupTotal |-> o.buildUp.total,
       billed |-> IF o.clientTotal # o.buildUp.total THEN o.clientTotal ELSE None,
       margin |-> profit + contingency + Retained(o) * 10000]

\* Nothing is said of a package that was not graded, or has nowhere to drive.
DrivingPhrase(driving) ==
  IF driving = None \/ (driving.score.km = 0 /\ driving.score.minutes = 0 /\ driving.score.unknown = 0)
  THEN None
  ELSE driving.score

\* The journey is every option's, and is shown once.  Mutant: once for each.
EveryJourney(options) ==
  FlattenSeq([i \in DOMAIN options |->
    Kept(options[i].ledger, LAMBDA l : l.label \in {"transport", "transport_optional"})])
JourneyLines(options) ==
  LET of == [i \in DOMAIN options |->
               Kept(options[i].ledger, LAMBDA l : l.label \in {"transport", "transport_optional"})]
      some == Kept(of, LAMBDA lines : lines # <<>>)
  IN  IF some = <<>> THEN <<>> ELSE Head(some)

WorksheetOf(version) ==
  [options |-> [i \in DOMAIN version.options |->
                  [groups |-> WorksheetGroups(version.options[i]),
                   figures |-> WorksheetFigures(version.options[i]),
                   driving |-> DrivingPhrase(version.options[i].driving),
                   cohorts |-> version.options[i].cohorts]],
   journey |-> JourneyLines(version.options), refused |-> version.refused]

-------------------------------------------------------------------------------
(***************************************************************************)
(* The proposal                                                            *)
(***************************************************************************)

\* A day as it is read: there is no board on the day they leave.
PageDays(o) ==
  [n \in DOMAIN o.days |->
     LET day == o.days[n]
     IN  [on |-> day.on, property |-> o.legs[day.leg].property,
          from |-> IF day.movesFrom = None THEN None ELSE o.legs[day.movesFrom].property,
          events |-> day.movements \cup day.excursions,
          board |-> IF day.night THEN o.legs[day.leg].plan ELSE None]]

\* One cohort is a group of one price, and its rows are not shown.
ProposalOption(o) ==
  [option |-> o.option, recommended |-> o.recommended, comparable |-> o.comparable,
   itinerary |-> P!InOrder(o.legs), days |-> PageDays(o),
   perPerson |-> o.buildUp.perPerson, groupTotal |-> o.clientTotal,
   cohorts |-> IF Len(o.cohorts) < 2 THEN <<>> ELSE o.cohorts]

\* The days of the option the document leads on, if anything happens on them.
ProgrammePage(pages) ==
  LET leads == Kept(pages, LAMBDA page : page.recommended)
      chosen == IF leads = <<>> THEN Head(pages) ELSE Head(leads)
      eventful == \/ Len(chosen.itinerary) > 1
                  \/ \E n \in DOMAIN chosen.days : chosen.days[n].events # {}
  IN  IF pages = <<>> \/ ~eventful THEN [of |-> None, days |-> <<>>]
      ELSE [of |-> chosen.option, days |-> chosen.days]

\* Cheapest first, whatever order the pages are in.
Comparison(pages) == Sorted(pages, LAMBDA a, b : a.groupTotal < b.groupTotal)

\* A route is shown once, with how often it is travelled; a flight is the client's.
TransportPage(journey) ==
  LET moves == journey.movements
      key(m) == [route |-> m.label, optional |-> m.optional]
      times(k) == Len(Kept(moves, LAMBDA m : key(m) = k))
  IN  IF moves = <<>> /\ journey.named = {} THEN None
      ELSE [routes |-> {k @@ [count |-> times(k)] : k \in {key(m) : m \in Range(moves)}},
            booked |-> journey.named,
            addOn |-> IF journey.addOn > 0 THEN journey.addOn ELSE None]

\* What the price does not cover: besides the standing list, flights and upgrades.
Exclusions(page) ==
  IF page = None THEN {}
  ELSE {[what |-> "flight", of |-> seq] : seq \in page.booked}
       \cup (IF page.addOn = None THEN {} ELSE {[what |-> "upgrades", of |-> page.addOn]})

ProposalOf(version) ==
  LET pages == [i \in DOMAIN version.options |-> ProposalOption(version.options[i])]
      transport == TransportPage(version.journey)
  IN  [pages |-> pages, comparison |-> Comparison(pages), programme |-> ProgrammePage(pages),
       transport |-> transport, exclusions |-> Exclusions(transport),
       declined |-> {r.property : r \in version.refused}]

-------------------------------------------------------------------------------
(***************************************************************************)
(* The client's own page (portal/view.py), once the trip is booked: a      *)
(* booking is [option, arrival, departure, total].                         *)
(***************************************************************************)

\* The booked option; where none was selected, the one the client was steered to.
OptionOf(version, option) ==
  LET those(Test(_)) == Kept(version.options, Test)
      found == those(LAMBDA o : o.option = option) \o those(LAMBDA o : o.recommended) \o version.options
  IN  IF found = <<>> THEN None ELSE Head(found)

TripStays(o) ==
  P!InOrder([i \in DOMAIN o.legs |->
    [seq |-> o.legs[i].seq, property |-> o.legs[i].property, destination |-> o.legs[i].destination,
     board |-> o.legs[i].plan, nights |-> o.legs[i].nights]])

TripDays(o) ==
  [n \in DOMAIN o.days |->
     LET day == o.days[n]
     IN  [on |-> day.on, property |-> o.legs[day.leg].property,
          movements |-> day.movements, excursions |-> day.excursions,
          board |-> IF day.night THEN o.legs[day.leg].plan ELSE None, night |-> day.night]]

\* The money and the dates are the booking's, the itinerary the version's.
TripOf(version, booking) ==
  LET o == OptionOf(version, booking.option)
  IN  IF o = None THEN [stays |-> <<>>, days |-> <<>>] @@ booking
      ELSE [property |-> o.property, board |-> o.plan, stays |-> TripStays(o), days |-> TripDays(o)]
             @@ booking

==============================================================================
