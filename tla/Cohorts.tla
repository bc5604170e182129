------------------------------- MODULE Cohorts -------------------------------
(***************************************************************************)
(* Who travels, what each of them bears, and what each of them pays        *)
(* (quotes/cohorts.py, quotes/group.py, the build-up of quotes/options.py, *)
(* currency/fx.py).                                                        *)
(*                                                                         *)
(* Amounts are integers of the quantum a share is quantized to.  A group   *)
(* is a sequence of cohorts [residence, type, count, currency]; a cost     *)
(* line is [amount, currency, basis, residence, type, bearers, nights,     *)
(* days, units].                                                           *)
(***************************************************************************)
EXTENDS Rounding, Rows, SequencesExt

CONSTANT None   \* no value

Total(seq) == FoldLeft(+, 0, seq)

-------------------------------------------------------------------------------
(***************************************************************************)
(* Exchange rates                                                          *)
(***************************************************************************)

\* The latest row for the day, a correction of the same day before what it corrects.
LatestRate(rows, base, quote, on) ==
  LET known == {r \in rows : r.base = base /\ r.quote = quote /\ r.since <= on}
  IN  IF known = {} THEN None
      ELSE CHOOSE r \in known : \A other \in known :
             other.since < r.since \/ (other.since = r.since /\ other.entered <= r.entered)

\* A rate is a fraction: a direct row, the reciprocal of an inverse one, or None.
EffectiveRate(rows, from, to, on) ==
  LET direct == LatestRate(rows, from, to, on)
      inverse == LatestRate(rows, to, from, on)
  IN  IF from = to THEN <<1, 1>>
      ELSE IF direct # None THEN <<direct.rate, 1>>
      ELSE IF inverse # None THEN (IF inverse.rate # 0 THEN <<1, inverse.rate>> ELSE None)
      ELSE None

\* The amounts given to it divide: nothing is rounded here.
Convert(amount, rate) == (amount * rate[1]) \div rate[2]

-------------------------------------------------------------------------------
(***************************************************************************)
(* The group                                                               *)
(***************************************************************************)

TYPES == <<"adult", "child", "infant">>
TypeRank(type) == CHOOSE i \in DOMAIN TYPES : TYPES[i] = type

\* Cohorts as the residency's own order, then the traveller's type; no empty one.
InRank(counts, rank) ==
  Sorted(Kept(counts, LAMBDA c : c.count > 0),
         LAMBDA a, b : \/ rank[a.residence] < rank[b.residence]
                       \/ rank[a.residence] = rank[b.residence] /\ TypeRank(a.type) < TypeRank(b.type))

HeadcountSaysMore(quote) ==
  quote.paxCount # None /\ quote.paxCount # Len(quote.travellers)

\* group.build_group: cohorts, else a headcount that says more, else the travellers.
CountsOf(quote) ==
  LET row(type, count) == [residence |-> quote.residence, type |-> type, count |-> count]
      of(type) == Len(Kept(quote.travellers, LAMBDA t : t = type))
  IN  IF quote.cohorts # <<>> THEN quote.cohorts
      ELSE IF HeadcountSaysMore(quote) THEN <<row("adult", quote.paxCount)>>
      ELSE [i \in DOMAIN TYPES |-> row(TYPES[i], of(TYPES[i]))]

\* None where nobody travels, or a residency that does is billed in no currency.
BuildGroup(quote, rank, currency) ==
  LET counts == InRank(CountsOf(quote), rank)
  IN  IF counts = <<>> \/ \E i \in DOMAIN counts : currency[counts[i].residence] = None THEN None
      ELSE [i \in DOMAIN counts |->
              [residence |-> counts[i].residence, type |-> counts[i].type,
               count |-> counts[i].count, currency |-> currency[counts[i].residence]]]

\* service._attach_cohorts: a headcount given beside the cohorts has to agree.
CohortsAgree(quote) ==
  \/ quote.cohorts = <<>> \/ quote.paxCount = None
  \/ quote.paxCount = Total([i \in DOMAIN quote.cohorts |-> quote.cohorts[i].count])

Heads(cohorts) == Total([i \in DOMAIN cohorts |-> cohorts[i].count])
Pax(group) == Heads(group)
Residences(group) == {group[i].residence : i \in DOMAIN group}
Headcount(group, residence) == Heads(Kept(group, LAMBDA c : c.residence = residence))
CountOf(group, residence, type) ==
  Heads(Kept(group, LAMBDA c : c.residence = residence /\ c.type = type))
IsUniform(group) == Len(group) = 1

\* One entry per room, the fullest first; the last room holds who is left.
RoomsRequired(pax, capacity) == Ceiling(pax, capacity)
RoomPlan(pax, capacity) ==
  [room \in 1..RoomsRequired(pax, capacity) |->
     IF room * capacity <= pax THEN capacity ELSE pax % capacity]

\* Rooms are split by residency only; occupants overrides who they are priced for.
Rooming(group, capacity, occupants) ==
  [residence \in Residences(group) |->
     RoomPlan(IF residence \in DOMAIN occupants THEN occupants[residence]
              ELSE Headcount(group, residence), capacity)]

TotalRooms(group, capacity) ==
  LET rooms == Rooming(group, capacity, <<>>)
  IN  FoldSet(LAMBDA residence, sum : sum + Len(rooms[residence]), 0, Residences(group))

-------------------------------------------------------------------------------
(***************************************************************************)
(* Costs, and who bears them                                               *)
(***************************************************************************)

\* A basis is a head count, a length of time, both, or neither.
Multiplier(line, pax, rooms) ==
  LET heads == CASE line.basis \in {"per_person", "per_person_per_night", "per_person_per_day"} -> pax
                 [] line.basis \in {"per_room", "per_room_per_night"} -> rooms
                 [] OTHER -> 1
      times == CASE line.basis \in {"per_person_per_night", "per_room_per_night",
                                    "per_group_per_night"} -> line.nights
                 [] line.basis \in {"per_person_per_day", "per_group_per_day"} -> line.days
                 [] OTHER -> 1
  IN  heads * times * line.units

\* The positions in the group of the cohorts a line belongs to.
Targets(line, group) ==
  Kept([i \in DOMAIN group |-> i],
            LAMBDA i : /\ line.residence \in {None, group[i].residence}
                       /\ line.type \in {None, group[i].type}
                       /\ line.bearers = {} \/ group[i].type \in line.bearers)

\* Divided by heads and summing exactly: the last cohort takes the remainder.
\* Mutant: so does every cohort take its own rounded share.
RoundedShares(total, cohorts) ==
  [i \in DOMAIN cohorts |-> HalfEven(total * cohorts[i].count, Heads(cohorts))]
SplitPerHead(total, cohorts) ==
  LET rounded == RoundedShares(total, cohorts)
  IN  [i \in DOMAIN cohorts |->
         IF i < Len(cohorts) THEN rounded[i] ELSE total - Total(Front(rounded))]

CostOf(line, group, capacity) ==
  LET targets == Targets(line, group)
      pax == IF line.residence = None THEN Pax(group)
             ELSE Heads([i \in DOMAIN targets |-> group[targets[i]]])
      rooms == IF line.residence = None THEN TotalRooms(group, capacity)
               ELSE RoomsRequired(Headcount(group, line.residence), capacity)
  IN  line.amount * Multiplier(line, pax, rooms)

\* A line's shares in its own currency, by position in the group; nobody's is nothing.
SharesOf(line, group, capacity) ==
  LET targets == Targets(line, group)
      shares == SplitPerHead(CostOf(line, group, capacity),
                             [i \in DOMAIN targets |-> group[targets[i]]])
  IN  [c \in DOMAIN group |->
         IF \E i \in DOMAIN targets : targets[i] = c
         THEN shares[CHOOSE i \in DOMAIN targets : targets[i] = c] ELSE 0]

\* A line that names its bearers is owed by somebody, in a currency that converts.
Attributable(lines, group, rates) ==
  \A n \in DOMAIN lines :
    /\ lines[n].bearers # {} => Targets(lines[n], group) # <<>>
    /\ \A i \in Range(Targets(lines[n], group)) :
         rates[<<lines[n].currency, group[i].currency>>] # None

\* Each cohort's costs in its own currency: split first, and only then converted.
Attribute(lines, group, capacity, rates) ==
  LET shares == [n \in DOMAIN lines |-> SharesOf(lines[n], group, capacity)]
  IN  [c \in DOMAIN group |->
         Total([n \in DOMAIN lines |->
                  IF shares[n][c] = 0 THEN 0
                  ELSE Convert(shares[n][c], rates[<<lines[n].currency, group[c].currency>>])])]

-------------------------------------------------------------------------------
(***************************************************************************)
(* The build-up                                                            *)
(***************************************************************************)

RoundUpTo(numerator, denominator, step) == Ceiling(numerator, denominator * step) * step

\* Contingency is inside the profit, the fee outside it; hundredths of a percent.
SellingTotal(cost, terms, fee) ==
  cost * (100 + terms.contingency) * (100 + terms.profit) + fee * 10000

\* Rounded up per person and multiplied back out, so the two figures agree.
BuildUp(cost, pax, terms, fee, step, uniform) ==
  LET selling == SellingTotal(cost, terms, fee)
      each == RoundUpTo(selling, 10000 * pax, step)
  IN  [cost |-> cost, fee |-> fee, selling |-> selling,
       perPerson |-> IF uniform THEN each ELSE None,
       total |-> IF uniform THEN each * pax ELSE RoundUpTo(selling, 10000, step)]

\* terms: [contingency, profit, steps], the rounding step of each currency.
PriceGroup(lines, group, capacity, terms, fee, currency, rates) ==
  LET cost == Attribute(lines, group, capacity, rates)
      fees == SplitPerHead(fee, group)
      paid == [c \in DOMAIN group |->
                 BuildUp(cost[c], group[c].count, terms, fees[c], terms.steps[group[c].currency], TRUE)]
      landed(c) == rates[<<group[c].currency, currency>>]
  IN  IF ~Attributable(lines, group, rates) \/ \E c \in DOMAIN group : landed(c) = None THEN None
      ELSE [cohorts |-> paid, currency |-> currency,
            total |-> Total([c \in DOMAIN group |-> Convert(paid[c].total, landed(c))])]

==============================================================================
