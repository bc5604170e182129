-------------------------------- MODULE Extras --------------------------------
(***************************************************************************)
(* What a stay costs besides its rooms (option_pricing._park_fees,         *)
(* _activities, _supplements): each fee charged to the cohort that owes    *)
(* it, each supplement to the group.                                       *)
(***************************************************************************)
EXTENDS Stays

Latest(rows) == CHOOSE r \in rows : \A other \in rows : other.since <= r.since
InForceOn(rows, on) == {r \in rows : r.since <= on /\ on <= r.until}

\* A charge of one cohort, as the line that says so.
CohortLine(label, cohort, amount, currency) ==
  [label |-> label, amount |-> amount, currency |-> currency, basis |-> "per_group",
   residence |-> cohort.residence, type |-> cohort.type, bearers |-> {},
   nights |-> 0, days |-> 0, units |-> 1]
GroupLine(label, amount, currency) ==
  [label |-> label, amount |-> amount, currency |-> currency, basis |-> "per_group",
   residence |-> None, type |-> None, bearers |-> {}, nights |-> 0, days |-> 0, units |-> 1]

-------------------------------------------------------------------------------

\* A destination's entry fees, each night at the schedule in force on it.  A fee
\* is [destination, residence, price, currency, since, until], price by type.
ParkFees(fees, destination, nights, group) ==
  LET here == {f \in fees : /\ f.destination = destination
                            /\ f.residence \in Residences(group)
                            /\ \E n \in DOMAIN nights : f.since <= nights[n] /\ nights[n] <= f.until}
      onNight(residence, n) == InForceOn({f \in here : f.residence = residence}, nights[n])
      owed(cohort, n) ==
        LET tonight == onNight(cohort.residence, n)
        IN  IF tonight = {} THEN <<>>
            ELSE <<CohortLine("park_fees", cohort, Latest(tonight).price[cohort.type] * cohort.count,
                              Latest(tonight).currency)>>
  IN  [lines |-> IF here = {} THEN <<>>
                 ELSE FlattenSeq([c \in DOMAIN group |->
                        FlattenSeq([n \in DOMAIN nights |-> owed(group[c], n)])]),
       uncovered |-> IF here = {} THEN {}
                     ELSE {r \in Residences(group) : \E n \in DOMAIN nights : onNight(r, n) = {}}]

\* Excursions are [activity, day]; the first selection of one says its day.
FirstSelections(excursions) ==
  Kept([i \in DOMAIN excursions |-> i],
            LAMBDA i : \A j \in 1..i - 1 : excursions[j].activity # excursions[i].activity)

\* The included ones only, at the fare of their own day, once per person.  A fare
\* is [activity, residence, price, currency, since, until], price an adult's and
\* a child's; an infant is charged the adult's.
Activities(excursions, mandatory, fares, arrival, group) ==
  LET included == Kept(FirstSelections(excursions),
                            LAMBDA i : excursions[i].activity \in mandatory)
      on(x) == arrival + Max({1, IF x.day = None THEN 1 ELSE x.day}) - 1
      rows(x, residence) ==
        {f \in InForceOn(fares, on(x)) : f.activity = x.activity /\ f.residence = residence}
      owed(x, cohort) ==
        LET fare == Latest(rows(x, cohort.residence))
            each == fare.price[IF cohort.type = "infant" THEN "adult" ELSE cohort.type]
        IN  IF rows(x, cohort.residence) = {} \/ each = 0 THEN <<>>
            ELSE <<CohortLine("activities", cohort, each * cohort.count, fare.currency)>>
  IN  [lines |-> FlattenSeq([k \in DOMAIN included |->
                   FlattenSeq([c \in DOMAIN group |-> owed(excursions[included[k]], group[c])])]),
       scheduled |-> {excursions[included[k]] : k \in DOMAIN included},
       uncovered |-> {excursions[included[k]].activity :
                        k \in {j \in DOMAIN included : \E r \in Residences(group) :
                                 rows(excursions[included[j]], r) = {}}}]

-------------------------------------------------------------------------------

\* What a supplement adds: [room, plan, residence, basis, amount, currency, since,
\* until], None on a scope applying it regardless.
Affected(supplement, nights) ==
  Len(Kept(nights, LAMBDA on : supplement.since <= on /\ on <= supplement.until))

SupplementCost(supplement, nights, pax, rooms) ==
  LET affected == Affected(supplement, nights)
  IN  IF affected = 0 THEN 0
      ELSE supplement.amount * (CASE supplement.basis = "per_person_per_night" -> pax * affected
                                  [] supplement.basis = "per_person" -> pax
                                  [] supplement.basis = "per_room_per_night" -> rooms * affected
                                  [] supplement.basis = "per_room" -> rooms)

\* The ones this stay runs into, by the quote's own residency.
Supplements(rows, residence, nights, room, plan, pax, rooms) ==
  {[row |-> s, cost |-> SupplementCost(s, nights, pax, rooms)] :
     s \in {x \in rows : /\ x.room \in {None, room} /\ x.plan \in {None, plan}
                         /\ x.residence \in {None, residence}
                         /\ SupplementCost(x, nights, pax, rooms) # 0}}

==============================================================================
