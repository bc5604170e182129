-------------------------------- MODULE Stays --------------------------------
(***************************************************************************)
(* One leg of an option: which room, on which board, for how many, and at  *)
(* which of the property's rates (option_pricing._price_leg and            *)
(* _price_room_type, with the rules of quotes/options.py).                 *)
(*                                                                         *)
(* A rate is a row [room, plan, residence, occupancy, amount, discount,    *)
(* kind, child, minNights, currency, since, until]; capacity gives a       *)
(* room's beds.  A stay is [nights, group, presentation], nights the       *)
(* sequence of days slept.                                                 *)
(***************************************************************************)
EXTENDS Cohorts

-------------------------------------------------------------------------------
(***************************************************************************)
(* Rules                                                                   *)
(***************************************************************************)

MEAL_PLAN_FALLBACK ==
  [FB |-> <<"FB", "HB", "BB">>, HB |-> <<"HB", "FB", "BB">>, BB |-> <<"BB", "HB", "FB">>,
   AI |-> <<"AI", "FB", "HB", "BB">>, RO |-> <<"RO", "BB", "HB", "FB">>]

\* The first plan of the chain that is to be had; None where none is.
ResolvePlan(requested, available) ==
  LET chain == Kept(MEAL_PLAN_FALLBACK[requested], LAMBDA plan : plan \in available)
  IN  IF chain = <<>> THEN None ELSE Head(chain)

NeedsChef(plan) == plan \notin {"FB", "AI", "HB"}
MealsNeedingChef(plan, nights) == nights * (CASE plan = "BB" -> 2 [] plan = "RO" -> 3 [] OTHER -> 0)

\* What the hotel is paid; what the client is charged, half of a rack discount kept.
Discount(rate) == IF rate.discount = None THEN 0 ELSE rate.discount
SupplierPaid(rate, amount) == (amount * (100 - Discount(rate))) \div 100
CostedRate(rate, amount) ==
  IF rate.kind = "sto" THEN SupplierPaid(rate, amount)
  ELSE (amount * (200 - Discount(rate))) \div 200

MeetsMinimumStay(nights, rate) == rate.minNights = None \/ nights >= rate.minNights

-------------------------------------------------------------------------------
(***************************************************************************)
(* The rate of one room, one night                                         *)
(***************************************************************************)

\* A rate in the currency the client is billed in, then the later one.
Supersedes(candidate, current, presentation) ==
  IF (candidate.currency = presentation) # (current.currency = presentation)
  THEN candidate.currency = presentation
  ELSE candidate.since > current.since

\* Every usable rate of the property: one that is in force on a night of the stay.
RatesOf(rates, stay) ==
  {r \in rates : /\ r.residence \in Residences(stay.group)
                 /\ \E n \in DOMAIN stay.nights : r.since <= stay.nights[n] /\ stay.nights[n] <= r.until}

\* The rates quoted for as many guests, or for more.
Holds(rows, guests) == {r \in rows : r.occupancy >= guests}

RateForOccupancy(rows, guests, presentation) ==
  LET fit == Holds(rows, guests)
      smallest == {r \in fit : \A other \in fit : r.occupancy <= other.occupancy}
  IN  IF fit = {} THEN None
      ELSE CHOOSE r \in smallest : \A other \in smallest : ~Supersedes(other, r, presentation)

RateFor(rates, residence, night, guests, presentation) ==
  RateForOccupancy({r \in rates : r.residence = residence /\ r.since <= night /\ night <= r.until},
                   guests, presentation)

-------------------------------------------------------------------------------
(***************************************************************************)
(* The whole stay in one room type, on one plan: rates are those of both   *)
(***************************************************************************)

\* The residencies whose children every room and night has a rate of their own for.
Occupants(group, residence) == Headcount(group, residence) - CountOf(group, residence, "child")
ChildSharing(rates, stay, capacity) ==
  {residence \in Residences(stay.group) :
     /\ CountOf(stay.group, residence, "child") > 0
     /\ Occupants(stay.group, residence) > 0
     /\ \A n \in DOMAIN stay.nights :
          \A guests \in Range(RoomPlan(Occupants(stay.group, residence), capacity)) :
            LET rate == RateFor(rates, residence, stay.nights[n], guests, stay.presentation)
            IN  rate # None /\ rate.child # None}

\* Who each residency's rooms are priced for.  Mutant: for the children as well.
AllGuests(group, sharing) == [residence \in sharing |-> Headcount(group, residence)]
PricedFor(group, sharing) == [residence \in sharing |-> Occupants(group, residence)]

\* Children spread across the rooms, the larger share first.
ChildrenPerRoom(children, rooms) ==
  [room \in 1..rooms |-> children \div rooms + (IF room <= children % rooms THEN 1 ELSE 0)]

\* Every room of every residency on every night, in the order they are costed.
RoomNights(rates, stay, capacity) ==
  LET sharing == ChildSharing(rates, stay, capacity)
      rooming == Rooming(stay.group, capacity, PricedFor(stay.group, sharing))
      ranked == Kept([i \in DOMAIN stay.group |-> i],
                          LAMBDA i : \A j \in 1..i - 1 : stay.group[j].residence # stay.group[i].residence)
      ofNight(residence, night) ==
        LET plan == rooming[residence]
            children == ChildrenPerRoom(IF residence \in sharing
                                        THEN CountOf(stay.group, residence, "child") ELSE 0, Len(plan))
        IN  [room \in DOMAIN plan |->
              [residence |-> residence, night |-> night, guests |-> plan[room],
               children |-> children[room],
               rate |-> RateFor(rates, residence, night, plan[room], stay.presentation)]]
      ofResidence(residence) ==
        FlattenSeq([n \in DOMAIN stay.nights |-> ofNight(residence, stay.nights[n])])
  IN  FlattenSeq([i \in DOMAIN ranked |-> ofResidence(stay.group[ranked[i]].residence)])

\* What a room-night is charged at: the room, and the children on beds of their own.
RoomCharge(slot) == CostedRate(slot.rate, slot.rate.amount)
ChildCharge(slot) ==
  IF slot.children = 0 THEN 0 ELSE CostedRate(slot.rate, slot.rate.child) * slot.children

\* What the property is paid for it.
RoomPaid(slot) ==
  [currency |-> slot.rate.currency,
   amount |-> SupplierPaid(slot.rate, slot.rate.amount)
                + IF slot.children = 0 THEN 0
                  ELSE SupplierPaid(slot.rate, slot.rate.child) * slot.children]

\* The subtotals of a list of amounts, each currency converted once.
InPresentation(amounts, presentation, fx) ==
  LET subtotal(c) == Total([i \in DOMAIN amounts |->
                              IF amounts[i].currency = c THEN amounts[i].amount ELSE 0])
  IN  FoldSet(LAMBDA c, sum : sum + Convert(subtotal(c), fx[<<c, presentation>>]), 0,
              {amounts[i].currency : i \in DOMAIN amounts})

\* Why the first room-night that cannot be sold cannot be; None where all can.
Refusal(slots, nights) ==
  LET refused == Kept(slots, LAMBDA s : s.rate = None \/ ~MeetsMinimumStay(nights, s.rate))
  IN  IF refused = <<>> THEN None
      ELSE IF Head(refused).rate = None THEN [why |-> "unhousable"]
      ELSE [why |-> "short", minNights |-> Head(refused).rate.minNights]

CostOfSlots(slots, presentation, fx) ==
  InPresentation([i \in DOMAIN slots |-> [currency |-> slots[i].rate.currency,
                                          amount   |-> RoomCharge(slots[i]) + ChildCharge(slots[i])]],
                 presentation, fx)

RoomTypePriced(room, slots, sharing, stay, fx) ==
  LET refusal == Refusal(slots, Len(stay.nights))
  IN  [room |-> room, slots |-> slots, refusal |-> refusal, sharing |-> sharing,
       rooms |-> Len(Kept(slots, LAMBDA s : s.night = Head(stay.nights))),
       costed |-> IF refusal # None THEN None ELSE CostOfSlots(slots, stay.presentation, fx)]

PriceRoomType(room, rates, stay, capacity, fx) ==
  RoomTypePriced(room, RoomNights(rates, stay, capacity), ChildSharing(rates, stay, capacity), stay, fx)

\* The worksheet's lines for it: one per rate, occupancy and residency, one per
\* rate and residency for the children on it.
Worksheet(slots) ==
  LET rooms == {<<s.rate, s.guests, s.residence>> : s \in Range(slots)}
      beds == {<<s.rate, s.residence>> : s \in {t \in Range(slots) : t.children > 0}}
      nights(key) == Len(Kept(slots, LAMBDA s : <<s.rate, s.guests, s.residence>> = key))
      childNights(key) ==
        Total([i \in DOMAIN slots |->
                 IF <<slots[i].rate, slots[i].residence>> = key THEN slots[i].children ELSE 0])
  IN  {[rate |-> key[1], residence |-> key[3], of |-> "room", guests |-> key[2], quantity |-> nights(key),
        extended |-> CostedRate(key[1], key[1].amount) * nights(key)] : key \in rooms}
      \cup
      {[rate |-> key[1], residence |-> key[2], of |-> "child", guests |-> None, quantity |-> childNights(key),
        extended |-> CostedRate(key[1], key[1].child) * childNights(key)] : key \in beds}

-------------------------------------------------------------------------------
(***************************************************************************)
(* The leg: the cheapest room on the plan every residency has a rate on    *)
(***************************************************************************)

PlansOf(rates, residence) == {r.plan : r \in {x \in rates : x.residence = residence}}
PlansForAll(rates) ==
  {plan \in {r.plan : r \in rates} :
     \A residence \in {r.residence : r \in rates} : plan \in PlansOf(rates, residence)}

NoRoom(status) == [status |-> status, minNights |-> None, plan |-> None, best |-> None]

\* Every room type of the plan tried: the cheapest that can be sold, or why none can.
CheapestRoom(attempts, plan, onPlan, nights) ==
  LET offers == {a \in attempts : a.refusal = None}
      short == {a \in attempts : a.refusal # None /\ a.refusal.why = "short"}
      uncovered == {n \in Range(nights) : \A r \in onPlan : n \notin r.since..r.until}
  IN  IF offers # {}
      THEN [status |-> "priced", minNights |-> None, plan |-> plan,
            best |-> CHOOSE a \in offers : \A other \in offers : a.costed <= other.costed]
      ELSE IF short # {}
      THEN [NoRoom("declined") EXCEPT !.minNights = Min({a.refusal.minNights : a \in short})]
      ELSE NoRoom(IF uncovered # {} THEN "season_gap" ELSE "unhousable")

PriceStay(rates, capacity, stay, requested, fx) ==
  LET usable == RatesOf(rates, stay)
      plan == ResolvePlan(requested, PlansForAll(usable))
      onPlan == {r \in usable : r.plan = plan}
      attempt(room) ==
        PriceRoomType(room, {r \in onPlan : r.room = room}, stay, capacity[room], fx)
  IN  IF usable = {} THEN NoRoom("no_rates")
      ELSE IF plan = None THEN NoRoom("no_plan")
      ELSE CheapestRoom({attempt(room) : room \in {r.room : r \in onPlan}}, plan, onPlan, stay.nights)

==============================================================================
