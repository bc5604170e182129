# Heissal Tours: specifications and proofs

TLA+ modules of the back office in `src/apps/api/app` (FastAPI over async
SQLAlchemy and PostgreSQL), the TLC configurations that check them, and theorems
TLAPS proves about them. File references below are relative to
`src/apps/api/app/modules/` unless they begin with `src/`.

To check a run, `tlc -config Sales.cfg MCSales.tla`; to check the proofs,
`tlapm` on each module whose name ends in `Proofs`.

## 1. The system

One API process serves concurrent HTTP requests. A request gets one database
session (`src/apps/api/app/db/session.py`) with `expire_on_commit=False` and
`autoflush=False`, over PostgreSQL at READ COMMITTED. That session decides how
everything below can go wrong:

* a request may lose the processor at any `await`, and other requests commit there;
* rows it loaded stay as they were in its memory until it refreshes them;
* a commit writes only the columns whose value differs from the loaded copy, and
  never checks that the row is still what it was;
* a query does not flush pending changes first;
* nothing but the database's constraints and the two counters' row locks orders
  two requests.

### Inventory

| Component | State | Operations | Correct when |
|---|---|---|---|
| Bookings and receipts (`bookings/service.py`, `models.py`) | `bookings`, `booking_instalments`, `payments`, `booking_counters` | create from a quote, record a payment, cancel, complete | references are gapless; a trip is held once; confirmed means the deposit is in; what is over stays over |
| Schedule and statements (`bookings/schedule.py`) | none; reads the above | `build`, `owed`, `is_confirmable`, `position`, `due` | instalments sum to the total; the walk finds the first shortfall; nobody unpaid is missed |
| Quote assembly and outcome (`quotes/assembly.py`, `outcomes.py`) | `quotes`, `quote_options`, `quote_versions` | add, update, remove an option; issue; select; accept; decline; set status | marking an option unmarks the rest; a version never changes and leads on its recommended price; what was accepted was shown |
| Option pricing (`quotes/option_pricing.py`, `options.py`, `cohorts.py`, `packages.py`, `transport.py`, `sequencing.py`, `routing.py`) | refusals; the room and board resolved on each option | `compute`, `price_options`, the checks of a package, a journey, an order | every night has a bed; a cost is borne once; what is not priced is accounted for |
| The older engine (`quotes/pricing_service.py`, `engine.py`) | appends versions | `price_quote` | arithmetic of one itinerary; only its version enters the models |
| Fleet and crew (`operations/service.py`, `roster.py`) | `trip_assignments`, vehicles, crew | assign, release, readiness, departures | nobody is in two places on one day unless overridden |
| Trip logs (`operations/service.py`, `actuals.py`) | `trip_logs`, `fuel_fills` | open, close, fill, audit | one log per assignment; odometers move forward |
| Supplier bookings (`operations/supply.py`) | `supplier_bookings` | add, move, invoice, settle | legal transitions; confirmed has a reference; payables add up |
| Portal (`portal/service.py`, `view.py`) | `booking_access_grants` | issue, revoke, resolve, statement | a withdrawn or expired link stays shut |
| Leads (`leads/service.py`, `pipeline.py`) | `leads`, stages, stage events | create, move, update, morning list | history is a path to the lead's stage; closed leads leave the list |
| Communications (`comms/service.py`, `rules.py`) | `communications`, stamps on leads | log, amend, void, recompute | stamps are what the log says, and what was last read of the client |
| Narratives (`narratives/service.py`) | `narratives` | generate, compose, revise, approve, reject | only approved text is printed; one per subject |
| Supplier documents (`supplier_docs/service.py`) | documents and proposed rows | store, extract, confirm | a decided row stays decided; reviewed means none pending |
| Rate intake and parsing (`rate_intake/`, `supplier_docs/parsing.py`, `blocks.py`) | writes rates | import a sheet | deterministic reading of a sheet |
| Quotation documents (`documents/`) | settings | the proposal and the worksheet of a version | both papers say what was frozen |
| Media (`media/`) | images | upload with a sole flag | one hero per owner |
| Catalogue, currency, pricing settings | rates, fees, rates of exchange | row-at-a-time edits | effective dates select one rate |
| Users, roles, authentication, audit | accounts, tokens | | out of scope: every operation is taken to be permitted |
| Admin front end (`src/apps/admin`), migrations, seeds, `src/legacy` | | | no state of the business |

How they meet: a booking copies its figures from the version its quote points
at, in the request that makes it, and nothing joins the two afterwards. The
status of a booking decides what fleet, supplier and portal operations allow and
which assignments count; those modules read it and never write it. Communications
stamp leads. Rates and rates of exchange reach a quote only when it is priced.

### What is hard

`PROJECT.json` lists the hazards at their lines. They are of six kinds: a check
and an insert with an `await` between them (double booking, two
recommendations, double assignment, double approval); a decision taken on a copy
that a rival has overtaken (confirming, paying a cancelled booking, issuing); a
number, a lock or a second commit that a transaction may not reach (references,
the stamps of a lead); legal calls in an order nobody intended (selecting,
re-pricing or re-issuing after an acceptance, a sheet extracted again); boundaries
of cents, beds and days (schedules, windows, stays, tariffs, shares that do not
divide); and one fact told in several places (what is owed, a version and the
papers made of it, a stage and the history of it, a log and its stamps).

## 2. Modules

| Module | Models |
|---|---|
| `Clock` | the day, and the year a day is in |
| `Schedule` | `build`, `is_confirmable` and rounding, in whole cents |
| `Bookings` | bookings, counters, payments, cancel and complete, as concurrent transactions |
| `BookingsProps` | their properties; `TripHolding` is the abstract promise they refine |
| `Statements` | `owed`, `position` and `due` over the state of `Bookings` |
| `Quoting`, `QuotingProps` | a quote from draft to the client's answer, and its properties |
| `Sales` | `Quoting` and `Bookings` composed over one calendar (`SalesSpec`), and the properties relating a booking to its quote |
| `Requests`, `Trips` | a request's reads and its commit, reused by every desk; bookings as the desks see them |
| `Fleet` | crew, vehicles, assignments, clashes, readiness, the departure board |
| `TripLogs` | odometers, fuel, the audit of a vehicle's model (over `Fleet`) |
| `Supply` | supplier bookings: moves, bills, what is owed, concerns |
| `Portal` | links to a trip |
| `TripDesks` | the four above beside their bookings, and their properties |
| `Pipeline`, `Comms` | leads, their stages, histories and clients; the contact log, its stamps and the morning list |
| `Narratives`, `Review` | approval of texts; rate sheets read, extracted again and confirmed |
| `RecordDesks` | the three desks above and their properties |
| `Rounding`, `Rows`, `Packages`, `Roads`, `Journeys`, `Cohorts`, `Stays`, `Extras` | the parts of option pricing, as operators |
| `Offers` | a quote priced, its refusals, and what keeps it from being sent |
| `Papers` | what issuing freezes, the proposal, the worksheet and the client's trip page |
| `Costing` | questions put to all of these and answered, and what the answers promise |
| `MCBookings`, `MCQuoting`, `MCSales`, `MCTrips`, `MCRecords`, `MCCosting` | constants for TLC; `MCSales` also holds what the two violated runs of it claim |
| `SumProofs` | lemmas on sums over finite sets |
| `BookingsProofs` | theorems about `Bookings`, with requests at once and in turn, and about what it says is owed (`Statements`) |
| `QuotingProofs`, `SalesProofs` | theorems about a quote, and about a quote beside its bookings |
| `TripProofs`, `RecordProofs` | theorems about `TripDesks` and about `RecordDesks` |
| `CostingProofs` | the theorems about packages and about the order of the legs |
| `OfferProofs` | the theorems about the options of a priced quote, the beds of a stay, the charges of a journey and the shares of a group |

### How state and actions correspond to the code

A request is a value of `req[s]` (`edit[e]` in `Quoting`): `pc` says which await
it has reached, the other fields are its local variables and its copies of rows.
A `Begin...` action is everything up to the last read its decisions rest on, a
`Commit...` action the transaction's commit, and actions between the two are
reads whose order against rivals' commits matters:

* `create_from_quote` = `BeginCreate` (checks, version, schedule), then
  `next_reference` as `MissCounter` and `LockCounter`, then `CommitCreate`. A row
  lock is `lock[year]`, held until the commit or the rollback. A request that
  found no counter row inserts one: PostgreSQL makes that insert wait for a
  rival's uncommitted one, which is the same lock, and refuses it once the
  rival's row is there (`Refuse`). No explicit retry exists in the code.
* `record_payment` = `BeginPayment` (the cancelled check), `WeighPayment` (flush
  and refresh: its own payment and committed ones), `CommitPayment`. The status
  column is written only if the request confirms.
* `cancel`, `complete` = a check and a commit that writes the status whatever it
  has become.
* `issue` = `BeginIssue` (price the options, which commits the refusals),
  `FreezeIssue` (read the options and the refusals again, grade, take `max + 1`),
  `CommitIssue` (refused by
  `uq_quote_version_no` if a rival has the number). Columns equal to those of the
  copy in `seen` are not written: that is the `IF` in each written column.
* `add_option`, `update_option`, `remove_option` = `BeginOption`, `CommitOption`;
  `_make_sole_recommendation` clears only flags its session saw as set.
* `Crash` and `Fail` end any request at any await: a client that leaves, an
  error, or the server going down. The row lock goes with the transaction.

`booking[b].received` is the sum of a booking's payments, and `terms` is what it
copied. `price` is what each option costs at the rates of the moment, or `None` where its
minimum stay is longer than the quote's dates, so every edit of the catalogue is
`ChangePrices`. Pricing drops such an option and names it among the refusals
(`refused[q]`, which each pricing replaces and each issue freezes), and the option
stays on the quote. The code names a refusal by the property and the model by the
option; they are one for an option of one property, and of a package the property
names the leg that refused it. A quote begins with any options, any of them flagged,
as `create_quote` stores what is typed; nothing before the grading of an issue
asks that one is. `agreed` is a history variable: the
option and the version current at each acceptance.

Left out on purpose: a booking of a quote (in `Bookings` alone) may carry any
terms, as if the quote had been accepted; `Sales` puts the quote back. Labels,
notes, actors, payment methods, currencies (one booking has one) and the
readiness problems of a quote other than recommendation and pricing do not
appear. Two rows for one property on a quote cannot be represented.

**The desks.** `work[s]` is what a request has decided to write: a `Begin...`
action reads and checks everything, a `Commit...` writes the columns the code
writes, and `Abandon` is the rollback of a failure in between. An operation whose
write depends on nothing it read is one step. `serial` is drawn at the start of a
behaviour: where it is true no request begins or commits between another's read
and its commit. Desks write no table of another's, so a behaviour follows one
(`desk`) beside the bookings it reads; that is a product taken apart and loses
nothing the properties speak of. A desk whose properties are all about requests in
turn is followed only so. `SupplyMoves` and `SupplyBills` split one desk the same
way: moves race, bills are typed.

A booking, in `Trips`, confirms, ends and is cancelled whenever `Bookings` would
let it.

A lead arrives at the stage it is given or the default one, and `Update` is all of
`PATCH /leads/{id}` that anything reads: the next action, the owner, the reason it
was lost, and the client. `events[l]` is a *set*: rows of `lead_stage_events` have no
order but their times, by which they are read (`leads/models.py:200`). A day is
therefore told apart into so many moments (`Instants`), a move takes the next one
(`IsNow`) when it begins, at `leads/service.py:314`, and its event carries that
moment however late it commits. Entries about a client are on the timeline of the
leads that are its (`ClientEntries`) and stamp none of them when they are logged
(`Behind`, `_lead_behind`). `borrowed` is a ghost: what the client's entries said
when a lead's timeline was last read.

`Comms` shows the one operation of the code with two transactions: an
amendment commits, and the request then rebuilds the stamps of the lead
(`restamp`, `stamps`); `unstamped` is the ghost of a crash in between. `Review`
counts what is pending as the session that does not flush sees it.

**Pricing.** `option_pricing.py` keeps no state while it computes, so each
behaviour of `Costing` is a question from a set of inputs and its answer, and the
one sequence that matters: a quote is stored, priced over the refusals it had,
graded, issued, and read back as the proposal, the worksheet and the trip page. A
rate, a fare, a road and a fee are rows with the days they are in force, as in the
tables. An amount is an integer of the quantum a share is cut to. A leg answers
(`CostedLeg`) with three things the code keeps apart: what its cohorts bear, what it
adds to each component, and its entries on the worksheet. A supplement is an entry per
row, in that row's currency; its component is converted at the rate of the leg's first
night (`quotes/option_pricing.py:2489`), where the other components are converted at
that of the arrival; and its cohorts bear one line of what the component comes to
(`SharedLines`). `FreezeOption` copies both ledger and components, and makes neither
of the other. Left out: the
wording of the ledger, advisory warnings, imagery, and that the catalogue moves
while one pricing reads it.

## 3. Runs

| Run | Question | Result |
|---|---|---|
| `bookings_concurrent` | two requests, two bookings of one quote, four days, crashes | holds: `TypeOK`, `ReferencesAreGapless`, `ConfirmedHasDeposit`, and `RequestsEnd` under fairness |
| `bookings_serial` | one request at a time, two quotes, five-cent and one-cent totals | holds: refinement of `TripHolding`, the statements, closing |
| `bookings_held_twice` | the same promise with two requests | **violated**: finding 1 |
| `quoting` | two requests on one quote, two options, two versions | holds: versions and current version agree |
| `quoting_decided` | one request at a time, is an answer final? | **violated**: finding 2 |
| `sales` | one request on quotes beside one on bookings, minimum stays that come and go | holds: marking is sole, an acceptance keeps its option and was of one shown before, a booking stands on an acceptance and invoices a frozen figure in full |
| `sales_total`, `sales_version` | is what was accepted what is booked? | **violated**: findings 3 and 4 |
| `trip_desks` | fleet, logs, supply and portal beside bookings that move under them | holds: nobody out twice, clear trips can leave, kilometres counted once, audits with a trip behind them, silent trips held, one account of what is owed, links that last |
| `trip_two_places` | are single days safe as well? | **violated**: finding 5 |
| `records` | leads, contact log, narratives and rate sheets | holds: histories, stamps, the morning list, one approved text, one rate per row, nothing pending once reviewed |
| `pricing` | do the answers of the pricing code keep their promises? | holds: packages, orders, journeys, beds, shares, refusals, papers |

**Bounds.** `Horizon` (days), `MaxReceived` (money sent), `MaxVersions` and the
sets of ids. Two requests suffice for every race above: each is one request's
read overtaken by one rival's commit, or one waiter on a lock. Two bookings are
what a double booking and a duplicated reference need; a year is two days, so
that references restart within the horizon. Totals of 4 at 50%, and of 5 and 1
at 30%, give an even split, a split that rounds, a deposit that rounds to
nothing (refused by the database) and a booking too late for two instalments.
Payments of 1 and 3 up to 6 stop short of, meet and overrun both instalments.
Two versions are enough for an acceptance and what comes after it. In
`sales` minimum stays make either option too short for its quote, and move between
any two requests (rates that move are covered by the theorems of `SalesProofs`); in
`sales_total` and `sales_version` the options differ in price.

The desks: two trips, the second collected on the first's last day, one vehicle
and one person who can drive and guide, who may be retired, and three assignments,
so that a release, an override and a clash fit together; windows asked for on
other days than the trip's make the two collide, and the run with a day of its own
in the middle of the first trip is that of finding 5. Readings 0, 2 and 4 and three litres give
logs that overlap, that are closed again, and audits on both sides of the model.
Two supplier rows, one of them raced, in two currencies. One lead with a quote, that is a client's or nobody's and may be given to either,
three entries about it and its quote over three days, or two about those and the client; a
pipeline of a default, a won and a lost stage, at most two moves of a lead (`MostMoves`),
which is what two raced moves need, and four moments of a day (`Instants`), as many as
the arrival, a move and two raced ones take. Three drafts of one subject by
one author in two texts, two documents of three rows between them. Questions of
`Costing`: every package of up to three stays in a trip of three or four nights,
every map of four places whose roads are
short, long or missing, journeys of up to three movements under tariffs that end,
begin or have tax to add, their segments numbered in turn or not at all, stays of one and two nights from sheets of up to a few
rows for one and two residencies, and quotes of two properties, alone, as a package,
or moved to another than its leg's,
in one and two currencies, with amounts that divide and amounts that do not, with
supplements by head and by room in both currencies at the second leg of a package, and
with a rate of exchange that moves on the trip's second day.
Symmetry is used only in runs that check safety. Deadlock is not checked: at the horizon,
with nothing in flight, the model has nothing left to do, and a question answered
is answered.

**Fairness.** `FairSpec` gives each request weak fairness on going on, since the
server keeps running coroutines that are ready, and strong fairness on
`LockCounter`: PostgreSQL queues the waiters of a row, so a request that waits
again and again for a lock that is free again and again gets it. Nothing makes a
client call or a crash happen. `RequestsEnd` would fail without the strong part.

### Findings

1. *A trip can be held twice.* Two `create_from_quote` requests both find no
   active booking and both insert (`bookings/service.py:131`). No constraint or
   lock backs "It will not hold one trip twice" (`bookings/service.py:14`). With
   requests in turn the promise holds, and so does the refinement.
2. *A client's answer can be undone.* `issue` does not look at the status and
   writes `sent` (`quotes/assembly.py:874`), so an accepted quote that is issued
   again is open to a second outcome, against "has been decided and does not move
   again" (`quotes/outcomes.py:47`).
3. *The wrong option is invoiced.* The total is the version's selling price, the
   recommended option's (`bookings/service.py:180`); accepting any other option
   books that option at the recommended one's price.
4. *Not the version accepted.* The booking takes the quote's current version and
   selected option (`bookings/service.py:150`), and both can move between the
   acceptance and the booking (`quotes/pricing_service.py:160`,
   `quotes/assembly.py:880`).

5. *A single day inside a longer trip is no clash.* `is_handover` wants one shared
   day, different first days and different last days
   (`operations/roster.py:94`). A one-day window strictly inside another passes
   all three, and the vehicle or guide goes out twice with nothing raised, against
   "neither window *is* that day" (`operations/roster.py:97`) and the test named
   `test_a_single_day_trip_against_a_longer_one_is_a_clash_either_way`, which tries
   only days at the ends. For windows longer than a day there is a proof
   (section 4).

What concurrency breaks beside the double booking is stated by keeping the
properties in two groups in `BookingsProps` and `QuotingProps`. Those of the
second group are checked with requests in turn, and the hazards say why: two part
payments weighed at once leave a booking unconfirmed, a payment may land on, or
revive, a booking cancelled meanwhile, and two requests may each leave their own
recommendation.

`NobodyOutTwice`, `KilometresCountedOnce`, `ClientReadsWhatWasApproved`,
`StampsFollowTheLog`, `ReviewedHasNothingPending` and the path of
`HistoryIsAPath` begin with `serial =>` for that reason: with two requests at once
each is violated, since nothing in the code orders them. `SilentTripIsHeld` and
`LinkLastsTheTrip` hold however requests race, and so does the first part of
`HistoryIsAPath`: a lead is where one of its recorded moves took it, since that
move, it arrived once and first, and every move left a stage it had been brought to. `RateHasItsRow` and `OwedEverywhere` are stated for requests in turn too.

### Met while modelling, and not among the findings

Differences between the code and what is written beside it, or surprises, that no
run is about; each is in the model as the code has it.

* Two requests that each mark an option clear only the flags they loaded
  (`quotes/assembly.py:239`), so a quote may be left with both marked, against "setting
  one clears the rest" (`quotes/assembly.py:210`); and `POST /quotes` stores several as
  typed, which the grading of an issue then refuses. `MarkingIsSole` is what holds: in
  turn, marking one leaves no other.
* An option under its minimum stay is dropped without blocking the issue
  (`quotes/option_pricing.py:711`) and stays on the quote, where an acceptance may name
  it (`quotes/assembly.py:944`) though no version prices it, against the reason given
  for asking for one (`quotes/outcomes.py:18`). It was in the document as refused:
  `AcceptedWasShown` is what holds.
* Of two moves at once the one with the earlier time may commit last
  (`leads/service.py:314`): the lead has its stage and `stage_since`, and the history,
  read by time, ends with the other, against "the history is the pipeline"
  (`leads/service.py:12`). `HistoryIsAPath` promises that end in turn only.
* `recompute` reads the client's entries (`comms/service.py:458`), which nothing stamps
  when they are logged (line 508), and a lead given to another client keeps what was
  rebuilt from the last one's. Rebuilding can so change a stamp, even in turn, against
  "a test proves it agrees" (`leads/models.py:179`).
* A supplement of a later leg is converted at the rate of that leg's first night
  (`quotes/option_pricing.py:2489`) and everything else at the arrival's, so when the
  rate has moved its lines on the worksheet do not make its subtotal at the option's
  rates, against "every figure on one option is converted at the same rate as every
  other" (`quotes/option_pricing.py:1592`).
* An enquiry with nothing but inbound entries is never listed as never contacted
  (`leads/pipeline.py:194`).
* `payables` keeps to running bookings (`operations/service.py:994`): what a
  completed trip's suppliers are still owed is on no list.
* Deciding the last pending row of a sheet does not mark it reviewed
  (`supplier_docs/service.py:329`): the query runs before the decision is flushed.
* A supplier cancelled and asked again is confirmed on the number it had before.
* An option that stops pricing keeps the room and board of when it did
  (`quotes/option_pricing.py:564`), and `is_comparable` once lost is not regained
  (`quotes/option_pricing.py:1104`).
* In a one-cohort group whose currency is not the document's, the price per person
  times the headcount is not the total printed (`quotes/option_pricing.py:349`);
  `PapersAgree` claims it for one currency only.
* An agent's cover fee is split over cohorts without converting it to theirs
  (`quotes/cohorts.py:588`); `CohortsBearTheCost` is about one currency there.
* A vehicle on one booking twice, for its first days and again for its last, counts
  its seats twice (`operations/service.py:462`, `operations/roster.py:268`), though
  "Seats are counted across every vehicle on the booking" (`operations/roster.py:23`).
  A failed proof showed it (section 4); `ClearTripCanLeave` is about trips whose
  vehicles are out together.
* `transport.check` counts an optional transfer towards the two a rail leg needs.
* `POST /quotes/{id}/price` makes a version with no options the newest, and the
  document printed by default is then without any.

## 4. Proofs

Every theorem is about all values of the constants within the named assumptions of
the modules: any sets of requests, quotes, bookings, options, vehicles, people,
suppliers, leads, texts and rows (finite where a sum is taken over them), any
amounts, rates, days and policies. Where a row says "in turn", the promise is about
requests that are served one after another: with two at once the code breaks it
(section 3), and the hypothesis is what the server does when it is not busy. It is
`OneSession` or `OneAtATime` (a single client) where nothing else orders the
requests, and `serial` in the desks. The contact log is followed in turn only
(`Init` of `RecordDesks`).

| Module | Theorem | States | Under |
|---|---|---|---|
| `BookingsProofs` | `BookingsTypeCorrect` | `TypeOK` | |
| | `ConfirmedIsPaid` | `ConfirmedHasDeposit` | |
| | `ReferencesNeverGap` | `ReferencesAreGapless` | |
| | `TripsHeldOnce` | `OneTripHeldOnce` | in turn |
| | `DepositsConfirm` | `DepositConfirms` | in turn |
| | `CancelledStaysClosed` | `CancelledIsClosed` (every step) | in turn |
| | `BookingsHoldTrips` | `HoldsTrips`: `Bookings` implements `TripHolding` | in turn |
| | `WalksFindShortfalls` | `WalkFindsTheShortfall` | |
| | `SettledBookingsOweNothing` | `SettledMeansNothingDue` | |
| | `UnpaidAreChased` | `UnpaidIsChased` | |
| | `PaymentsSettle` | `PaymentsOnlySettle` (every step) | |
| `QuotingProofs` | `QuotesTypeCorrect` | `QuoteTypeOK` | |
| | `CurrentIsAlwaysNewest` | `CurrentIsNewest` | |
| | `SentOnlyIfIssued` | `SentWasIssued` | `OnlyReopened` |
| | `OneIsMarked` | `MarkingIsSole` (every step) | in turn |
| | `AcceptedKeepsOption` | `AcceptanceKeepsItsOption` | in turn, `NotAcceptedByHand` |
| | `AcceptedOffersWereShown` | `AcceptedWasShown` | in turn, `OnlyReopened` |
| `SalesProofs` | `BookedOnAcceptance` | `BookedWasAccepted` | `NotAcceptedByHand` |
| | `BookedFiguresLast` | `BookedFigureIsFrozen` | |
| | `SalesQuotes`, `SalesBookings` | `Sales` implements `Quoting` and `Bookings` | |
| `TripProofs` | `NobodyIsOutTwice` | `NobodyOutTwice` | in turn |
| | `ClearTripsCanLeave` | `ClearTripCanLeave` | in turn |
| | `NoKilometreTwice` | `KilometresCountedOnce` | in turn |
| | `AuditsHaveTheirTrip` | `AuditHasItsTrip` | |
| | `SilentTripsAreHeld` | `SilentTripIsHeld` | |
| | `OwedIsOwedEverywhere` | `OwedEverywhere` | |
| | `LinksLast` | `LinkLastsTheTrip` | |
| `RecordProofs` | `HistoriesArePaths` | `HistoryIsAPath` | its path: in turn |
| | `ClientsReadTheApproved` | `ClientReadsWhatWasApproved` | in turn |
| | `RatesHaveTheirRows` | `RateHasItsRow` | in turn |
| | `ReviewedIsSettled` | `ReviewedHasNothingPending` | in turn |
| | `StampsFollow` | `StampsFollowTheLog` | in turn |
| | `MorningListIsComplete` | `MorningListMissesNobody` | |
| `CostingProofs` | `PackagesCoverTheTrip` | `PackageCoversTheTrip` | |
| | `BetterOrdersAreDrivable` | `BetterOrderIsDrivable` | |
| `OfferProofs` | `EveryOptionAccounted` | `EveryOptionIsAccountedFor` | |
| | `BedsAreForEveryone` | `BedsForEveryone` | |
| | `ReadyJourneysAreCharged` | `ReadyJourneyIsCharged` | |
| | `EveryLineIsBorne` | none: of `SharesOf`, for any group and line | |
| | `GroupsPayTheirWay` | none: of `PriceGroup`, for any group billed in one currency | |

`OnlyReopened` and `NotAcceptedByHand` are about `PATCH /quotes/{id}/status`, which
lets a member of staff write any status (`StatusEdits`): that it is used to put a
quote back to draft, or at least not to write `accepted`. Without them the
properties are false for a reason nobody would dispute: a status written by hand
has no version or answer behind it. The configurations give `StatusEdits` the same
restriction.

### The arguments

*Bookings.* `TypeOK` is inductive as it stands, because it says what a request in
each phase knows (`WellFormed`); it rests on facts of `Schedule`
(`BuildIsSchedule`, `OpeningIsInstalment`). `ConfirmedHasDeposit` is not: the
request that confirms decided on a sum it read earlier. `DepositInv` adds that
what it has seen, with its own payment, covers the opening instalment, and still
does, since what a booking has received never falls and its schedule never changes.
For the references, `LockInv` says that a numbered request holds its year's lock
and its number is the counter plus one; `NumberInv` that the numbers given out in a
year are `1..counter`, by distinct bookings. The count follows from the bijection
between the bookings of a year and their numbers, so `BookingIds` need not be finite.

*Bookings in turn.* `HoldingInv` says of the one request in flight that what it
checked when it began is still so (`NothingMoved`: the trip is free, the booking
active, the payment weighed against the row as it is), that a trip is held once,
and that no booking which could be confirmed has been left provisional. The
refinement follows step by step: each commit is one action of `TripHolding`, every
other step leaves `Fates` and `Trips` alone.

*Statements.* `BillInv` says that a schedule on file is one that `build` made of the
booking's terms (`Drafted`): its instalments add up to the total to the cent, the
first is due by the day of the booking and a second by the arrival. A schedule has
one instalment or two, so the walk `position` makes is unfolded (`WalkFinds`) and compared with the
definition by running totals (`Short`). That a booking is chased rests on
`WithinDays` not being negative, which the route enforces.

*Quotes.* `Shape` is `QuoteTypeOK` with what a request in each phase has read
(`Knows`) and that every written row comes of a row it saw. A version is never
changed and its number is one more than those there are, because
`uq_quote_version_no` refuses a rival's: so the current one is the newest whoever
races. `IssuedInv` adds that an answer on its way answers a quote with an issued
version. In turn, `NothingStale` says the copy a request holds is the row;
`KeepInv` that nobody edits the options of an accepted quote; `OfferInv` that the options of
a sent quote are each priced or refused in some issued version on record
(`CoveredBy`), since an issue in flight has priced or refused every one
(`IssuesShowAll`). `MarkingIsSole` is of steps: a request in turn holds the row as it
is, so the flags it clears are all there are (`SoleIsSole`).

*Sales.* `SalesInv` joins the two sides: an accepted quote was accepted at its
current version or an earlier one (`Answered`), and what a booking, or a request
that is making one, carries is a price of the version it names, invoiced in full
(`Sold`). The two refinements are what lets the theorems of `Quoting` and
`Bookings` be used of the composition: their commits touch no variable of each
other's, and the terms `Sales` gives are terms `Bookings` would take.

*Fleet and logs.* `FleetInv`: in turn at most one request is in flight, no two rows
clash without an override, and the row being written was weighed against all there
are (`Weighed`). A booking never runs again once it is over and rows are only
released meanwhile (`CalmStep`), so the weighing still holds at the commit.
`LetThroughIsApart` is the fact about windows: two that are longer than a day and
not refused share no day or meet end to start. It is false without "longer than a
day": finding 5. `LogsInv` orders the logs of a vehicle (`InOrder`) and says that
a log being opened goes on from the reading of the last. `CommittedAssumption` says
the assignments the logs desk starts from were made by the same rules; TLC
evaluates it. For the audit, that some trip did worse follows from the sums: a sum
of terms none of which is smaller is not smaller.

*Supply and portal.* `SupplyInv`: a move to confirmed in flight brings a number or
read one on its row, and a number is never taken off, so it is there when the move
commits whatever committed in between. That the three lists agree is an equation of
sums over the same rows. `PortalInv` keeps, for each link issued without a date,
the date it was given at or after the trip's end and its margin, whoever visits or
withdraws.

*Records.* `LeadInv` says that a lead is at a stage of its history since the moment
that history gives, that the events are one arrival and moves placed after it, each from
a stage that an earlier event brought the lead to (`HistoryOf`, `Placed`), and of a move
in flight that before its moment the lead was brought to the stage it leaves
(`MoveDecided`), which no rival's commit undoes, for a history only grows. In turn a move in
flight also leaves the stage the lead still has, and is later than everything
(`HistoryGrows`), so the moves by their times are a path and end where the lead is. `NarrativeInv`: in turn, at most
one text of a subject is in force and it is the one its approver read, and a
decision in flight is about the text as it is. `ReviewInv`: in turn, rates and
confirmed rows go one to one, and a document marked reviewed has no row pending; a
decision in flight is about a row that still is.

*The contact log.* What the log says of a lead is a fold over its entries in the
order of their times. The order is chosen, so it must first exist (`LogIsOrdered`,
by induction on the entries: the latest can always be put last), and then the fold
is unfolded from its end (`TellingGoesOn`) into what it comes to: the time of the
last word, that of the last reply, and the number of our calls after it
(`HistoryTold`). `LogInv` says that a lead's stamps are those of its own log or of what
was last read of its client's, whichever is later (`Faithful`), unless a repair is under
way or was lost, and of a request in flight
that what it read is still so: an entry on its way carries the stamps of the lead as
it is, a repair those of the timeline as it is. An entry joins the log as the last
word exactly when it is later than the last (`StandGrows`), which is what `log`
compares; correcting one disturbs the stamps of one lead, whose repair has then
begun. A change of client touches neither the
stamps nor what was read, which is why the equation names the client's entries as they
stood (`borrowed`) and is exact, where rebuilding would not be (section 3).
The morning list needs of this only that the log is well formed: it is read
from the log itself.

*Packages.* `packages.check` looks at neighbours (a gap, an overlap, a late start, a
short end); the promise is about the whole: that the nights of the stays, put end to
end, are the nights of the trip. The two meet in `Contiguous`: each stay begins the
morning the one before it ends, and they span the trip. One way
(`ContiguousIsSlept`) is an induction over the stays. The other
(`SleptIsContiguous`) reads off, at the place in the whole where each stay begins,
which night it is, since each part of a flattened sequence begins the whole
(`PartsBeginTheWhole`). Contiguous stays follow in turn (`StaysInTurn`), so every
night is under one of them and no other (`NightsAreHeld`), which gives the programme its days and its moves.
`CostingAssumption` says the dates are dates and the trip is of at least a night,
which `QuoteCreate._check_dates` refuses otherwise. The order of the legs is that of
`sorted`: a row goes to the place counted by the rows before it, and a count shows
that every place is taken (`EveryPlaceIsTaken`).

*The order of the legs.* `sequencing.better_order` drives every reordering that keeps
the ends and takes the first of the shortest. Its hops are the neighbours that differ
(`HopsAreMoves`), so what an order drives is a sum of kilometres over its moves, or
unknown where one of them has no road (`OrderKmTold`). That something is the first of
the shortest is `LeastOfAll`: a finite set that is ordered has a least element, by
`SubsetInduction`, for the order by kilometres and then by turn of being tried
(`PrecedesIsTotal`, `PrecedesIsTransitive`). The order it returns visits the same places
as often because it takes them by a bijection of positions (`ShuffledBag`), and
`RowsKept` and `SortingRearranges` say the same of what is kept and of what is sorted.

*Offers.* `OfferInv` says that what is answered is the pricing of the quote as it was
stored (`Stored`), over the refusals as they were entered (`Entered`). The rest is about
one option. A leg that cannot be priced drops the option, with a warning, which blocks
the quote (`BlocksRead`), or with a refusal of the place of that leg (`DropTold`); a
refusal says how many nights the rates want, and they want more than the stay has
(`DeclinedIsShort`). To know that for any group, every step before it is read as the
list it makes: rooms are numbers of guests (`PlanIsAList`), the room-nights of a stay are
at rates on file or at none (`RoomNightsRead`), a stay refused as short is short
(`ShortIsShort`), and the least and the greatest of such numbers exist because rates are
finite. An outcome is found by the option's id (`OutcomesFound`), for which
`QuoteIsRead` has distinct ids. What a quote can be stored with (`Storable`) is what its
days, its packages and its transport are checked for again when it is graded, over
fewer rows (`FewerStillFit`, `StoredFits`): so those blocks never come, and the legs of a
priced option are put end to end the nights of the trip, by the packages' own lemmas
(`TripIsSlept`).

*Beds.* `PriceStay` answers with the cheapest room type and meal plan that can be sold,
and everything said of the answer is said of any of them (`StayIsSold`; that a cheapest
exists is where what a room costs must be a number, `SlotIsCharged`: an exchange rate
that is not on file raises). That everybody has a bed is a chain of four
sums. The rooms of a residency hold its priced guests: full rooms and one that is not
(`PlanHoldsAll`). The children who share are dealt over the same rooms, so a room's
children sum to them (`RoomsHoldAll`). The rows of a residency on a night are those
rooms, in their order (`NightsAreListed`), whatever else is in the list of the stay
(`SumOverOneList`); and a night occurs once in it, for which `StayIsRead` has distinct
nights. The rate of each row was taken among those that are for the residency, the
night, the plan and at least as many guests (`RateOfNight`, `RoomIsSold`), and a row
with no rate, or one that wants a longer stay, would have been a refusal
(`NoneIsRefused`). The worksheet groups the rows by rate, guests and extra beds:
its lines, each a quantity times a price, add up to the rows one key at a time
(`SumByKey`, `RoomLinesAddUp`, `ChildLinesAddUp`, `LinesAreCharged`).

*Journeys.* What a movement comes to is told of one segment (`MoveIsTold`): it is left
unpriced, which blocks the quote, or named, or has one fare at a tariff that is in force
on its day (`TariffIsOnFile`, `FareIsTold`), or the fuel of a road on file, and perhaps
a crew (`RoadIsOnFile`, `TankIsFilled`). The latest of the rows on file is a last one of
a finite set (`OneIsLast`). That no movement is charged twice and none is
lost is then a chain of equal sums. The charges of a kind under a sequence number
(`KindIsCounted`) are those of the two lists, which part one list
(`PartedRowsSum`); that list is the movements' own lists end to end (`SumOverFlat`);
each movement adds what is due for it (`MoveIsCounted`); and the movements in their turn
are a rearrangement of the segments (`MovementsInTurn`, `SumOnto`), which `DueIsCounted`
counts.

*Shares.* `split_per_head` rounds every share but the last, which takes what is left; so
shares add up to what is shared whatever the rounding does (`SharesAddUp`), and the
shares of a line, put back at the places of its bearers in the group, to what the line
costs (`LineIsShared`, `EveryLineIsBorne`). Lines by cohorts are then a table, which adds
up to the same by rows and by columns (`TableAddsUp`): what the cohorts bear together is
what the lines come to (`LinesAreAttributed`). A cohort's figure is rounded up to a step a
head (`RoundedUpCovers`), and the slack of each, positive and under its bound, is summed
(`TogetherTheyPay`). `GroupsPayTheirWay` supposes that every line has somebody to bear it,
which `Attributable` asks only of lines that name their bearers, that the cohorts are
billed in the currency of the quote, and that lines in other currencies have a direct rate,
a whole number in these units.

*Sums.* Seats, kilometres, litres and money are sums of a function over a finite
set (`SumFunctionOnSet`), whose definition chooses a recursive function.
`SumProofs` shows it exists and is unfolded by any element of the set. The
library's induction theorems take an operator, which these provers cannot
instantiate, so its induction is stated for a *set* of subsets
(`SubsetInduction`), by the least cardinality of a counterexample. Everything
about sums then follows as lemmas for every function and set: a sum is an integer,
is monotone, is split by one of its terms, and is the same over the same terms.

### What the proofs taught

* The attempt at `ClearTripCanLeave` failed on seats: the code adds up the capacity
  of every assignment of the booking (`operations/service.py:462`,
  `operations/roster.py:268`), so a vehicle assigned to its first days and again to
  its last counts twice. The property, and the theorem, are
  of trips whose vehicles are out together (`Collide`); then, by
  `NobodyOutTwice`, they are distinct vehicles.
* `StatementsAssumption`, the finite sets of ids where sums are taken, and the
  positive `MinTrips` and `TolerancePct` are assumptions the proofs asked for and the
  code gives: a table holds finitely many rows, and the others are constants or
  bounded by the route.

* The fold over the log could not be unfolded where an entry is voided and
  inbound: `Tell` was a `CASE` with guards that overlap, and a `CASE` does not say
  which branch is taken. `Tell`, `Access`, `Audit` and the rows `CommitExtract`
  writes are now `IF ... ELSE IF`, in the order of the code.
* The legs of a package were sorted by `SortSeq`, whose definition leaves open which
  of two rows with the same sequence number comes first; Python's `sorted` keeps them
  as they were. `Rows` says so.
* `EveryOptionIsAccountedFor` said that a refusal names the property of its option. The
  proof asked why, and nothing in the code says so: an option of one leg is priced for the
  leg's property, and `create` stores the option's own as it is typed
  (`quotes/service.py:170`). The property now says a place the option is slept at
  (`SleptAt`), and the run asks about an option moved to another property than its leg's.
* `ReadyJourneyIsCharged` said that each segment finds its own charges by its sequence
  number, and that each of them is of something. Neither is so for every quote: the number
  is 0 where none is given (`quotes/schemas.py:102`) and nothing compares two of them,
  and a tariff of nothing may be filed (`transport/schemas.py:72`). The property now counts
  fares, fuel and crews under a number against the movements under it, which is
  true however they are numbered, and the run asks about segments that are not numbered
  at all. The roads a journey is explained by are kept by that number too
  (`quotes/option_pricing.py:2270`), so of two drives with one number the last is kept:
  `Journey` had the first.
* The prover cannot see into `SelectSeq` nor into `@@`. `Rows` has `Kept`, by the positions
  that are kept, and `ByEngine` writes out the rows of a refusal.
* `CostingAssumption` says what pricing is asked about. Of an order, that roads have a
  length. Of a journey (`JourneyIsRead`), finitely many rows on file, prices that are not
  negative, and, as `Field(gt=0)` has them, distances, consumption, fuel prices and
  travellers that are positive, in a unit of money in which the fuel of no road rounds to
  nothing. Of a quote (`QuoteIsRead`), its rows as the tables type them: distinct option
  ids, dates, a trip of at least a night, headcounts, traveller types of the list. Of its
  files (`FilesAreRead`), a group, without which `build_group` refuses to price
  (`quotes/group.py:78`), rooms that hold somebody, and finitely many rates. Of a stay
  (`StayIsRead`), also that a night is slept once, that a group counts at least one of
  each kind it lists, and that what is charged has an exchange rate on file, without
  which `effective_rate` raises (`currency/fx.py:73`). TLC evaluates it on every question
  of the run.
* `CommsAssumption` has a finite log, leads and clients that can be talked about, clients
  behind whom there is no lead, and `NULL` unlike any row: facts of the tables and of
  `_lead_behind`.
* That a history ends at its lead's stage was proved once of a list in the order of
  the commits. The table has no such order; with the times it has, the statement is
  false (section 3), and what is left of it when moves race is the first part of
  `HistoryIsAPath`.

### What TLC checks and TLAPS does not

* `RequestsEnd`: liveness under fairness.
* `CohortsBearTheCost` of `Costing`, as it stands: with cohorts billed in several
  currencies it compares what was converted twice with what was converted once, which agrees
  only where the rates on file agree with each other and divide the amounts, as those of the
  run do. Nothing in the code makes them: `Convert` cuts a quotient. What does not turn on the
  rates is proved of its operators (`EveryLineIsBorne`, `GroupsPayTheirWay`).
* `PapersAgree` of `Costing`: it compares sums over several lists made one from the other
  (charges, margins, printed lines), with quotients cut to a quantum in between; what such
  a chain computes for every input is an induction over data at each link. It has the
  lines of each component add up to it at the rates the code converts them at
  (`LandedOn`), the supplements' by leg.

## 5. Plan

Done, in this order: `Bookings`, `Schedule`, `Statements` and `TripHolding`;
`Quoting`; `Sales`; `Fleet` and `TripLogs`; `Supply`; `Portal`; `Pipeline` and
`Comms`; `Narratives` and `Review`; the operators of pricing, `Offers`, `Papers`
and `Costing`; the theorems above.

Left:

1. Proofs: that what is printed adds up (`PapersAgree`).
2. Two pricings of one quote at once, which insert the refusals twice
   (`quotes/option_pricing.py:587`), as requests over `Offers`.
3. The counts of the lead report, the older engine, the reading of rate sheets.

## 6. Not modelled

* The older itinerary engine (`quotes/engine.py`): nothing that is issued uses its
  figures; its version enters `Quoting`.
* Rate intake and parsing: text and cell layouts; what they propose enters `Review`
  as rows.
* Media, the templates and printing: one flag per owner, and layout.
* Maintaining the catalogue and the rates of exchange: a row at a time, with no rule
  across rows; `Costing` ranges over what they may contain.
* Users, roles and sessions: every operation is taken to be permitted.
* The admin front end, migrations, seeds and `src/legacy`: no state of the business.

`PROJECT.json` gives the reason for each component.
