----------------------------- MODULE SalesProofs -----------------------------
(***************************************************************************)
(* Theorems about Sales: what joins a booking to the quote it was made     *)
(* from, for any number of requests on either side, any rates and days.    *)
(***************************************************************************)
EXTENDS Sales, QuotingProofs

-------------------------------------------------------------------------------
(***************************************************************************)
(* The quote: what was agreed, and of which version                        *)
(***************************************************************************)

\* The quote was accepted, at the version or an earlier one (as far as acceptances
\* are not set by hand).
AcceptedBy(q, version) ==
  NotAcceptedByHand => \E a \in agreed[q] : a.version <= version

\* An accepted quote was accepted at its current version or an earlier one; an
\* answer on its way was read at one.
Answered ==
  /\ \A q \in Quotes : quote[q].status = "accepted" => AcceptedBy(q, quote[q].current)
  /\ \A e \in Editors : edit[e].pc = "accepting" =>
       edit[e].seen.current <= quote[edit[e].quote].current

QuoteSide == Shape /\ CurrentIsNewest /\ Answered

LEMMA InitQuoteSide == Init => QuoteSide
<1>1. Init => Answered
  BY InitQuotes DEF Answered
<1>. QED
  BY <1>1, InitShape, InitCurrent DEF QuoteSide

\* No step takes back an acceptance.
LEMMA AgreementsLast ==
  ASSUME Shape, UNCHANGED today, QuoteNext, NEW q \in Quotes
  PROVE  agreed[q] \subseteq agreed'[q]
<1>1. ASSUME NEW e \in Editors, Written(e) PROVE agreed[q] \subseteq agreed'[q]
  BY <1>1 DEF Written, Shape
<1>. QED
  BY <1>1, Begins, Freezes, Commits DEF QuoteNext, PriceOptions, Fail, SetStatus, ChangePrices

\* The version a quote points at only advances.
LEMMA CurrentAdvances ==
  ASSUME Shape, CurrentIsNewest, UNCHANGED today, QuoteNext, NEW q \in Quotes
  PROVE  quote[q].current <= quote'[q].current
<1>1. ASSUME NEW e \in Editors, Written(e) PROVE quote[q].current <= quote'[q].current
  <2>1. PICK p \in Quotes :
          /\ p = edit[e].quote
          /\ Writes(edit[e], quote[p], quote'[p])
          /\ \A o \in Quotes \ {p} : quote'[o] = quote[o]
    BY <1>1, WrittenRow
  <2>2. \A o \in Quotes : quote[o].current \in Nat /\ quote[o].current = Len(versions[o])
    BY DEF Shape, SoundRows, QuoteRows, CurrentIsNewest
  <2>3. CASE edit[e].pc \in {"frozen", "repriced"}
    <3>1. quote'[p].current = quote[p].current + 1
      BY <1>1, <2>1, <2>2, <2>3 DEF Written, NumberFree, Writes
    <3>. QED
      BY <2>1, <2>2, <3>1
  <2>4. CASE edit[e].pc \notin {"frozen", "repriced"}
    BY <2>1, <2>2, <2>4 DEF Writes
  <2>. QED
    BY <2>3, <2>4
<1>2. ASSUME NEW p \in Quotes, NEW status \in StatusEdits, SetStatus(p, status)
      PROVE  quote[q].current <= quote'[q].current
  <2>1. quote'[q].current = quote[q].current /\ quote[q].current \in Nat
    BY <1>2, StatusSet DEF Shape, SoundRows, QuoteRows
  <2>. QED
    BY <2>1
<1>3. quote[q].current <= quote[q].current
  BY DEF Shape, SoundRows, QuoteRows
<1>. QED
  BY <1>1, <1>2, <1>3, Begins, Freezes, Commits DEF QuoteNext, PriceOptions, Fail, ChangePrices

\* What was accepted by a version was accepted by every later one, for good.
LEMMA AcceptanceLasts ==
  ASSUME Shape, UNCHANGED today, QuoteNext, NEW q \in Quotes,
         NEW version \in Int, AcceptedBy(q, version), NEW later \in Int, version <= later
  PROVE  AcceptedBy(q, later)'
<1>. SUFFICES ASSUME NotAcceptedByHand PROVE AcceptedBy(q, later)'
  BY DEF AcceptedBy
<1>1. PICK a \in agreed[q] : a.version <= version
  BY DEF AcceptedBy
<1>2. a.version \in Nat /\ a \in agreed'[q]
  BY AgreementsLast DEF Shape, Agreements
<1>. QED
  BY <1>1, <1>2 DEF AcceptedBy

LEMMA AnsweredStep ==
  ASSUME QuoteSide, UNCHANGED today, QuoteNext
  PROVE  Answered'
<1>0. \A q \in Quotes : /\ quote[q].current \in Int /\ quote'[q].current \in Int
                        /\ quote[q].current <= quote'[q].current
  <2>1. Shape'
    BY QuoteNextShape DEF QuoteSide
  <2>. QED
    BY <2>1, CurrentAdvances DEF QuoteSide, Shape, SoundRows, QuoteRows
<1>1. ASSUME NEW q \in Quotes, quote[q].status = "accepted"
      PROVE  AcceptedBy(q, quote[q].current)'
  <2>1. AcceptedBy(q, quote[q].current)
    BY <1>1 DEF QuoteSide, Answered
  <2>. QED
    BY <1>0, <2>1, AcceptanceLasts DEF QuoteSide, AcceptedBy
<1>2. ASSUME NEW e \in Editors, edit[e].pc = "accepting", edit'[e] = edit[e]
      PROVE  edit'[e].seen.current <= quote'[edit'[e].quote].current
  <2>1. edit[e].quote \in Quotes /\ edit[e].seen.current \in Nat
    BY <1>2, UnderWay DEF QuoteSide, Knows
  <2>2. edit[e].seen.current <= quote[edit[e].quote].current
    BY <1>2 DEF QuoteSide, Answered
  <2>. QED
    BY <1>0, <1>2, <2>1, <2>2
<1>3. ASSUME \A q \in Quotes : quote'[q].status = "accepted" => quote[q].status = "accepted",
             \A e \in Editors : edit'[e].pc = "accepting" => edit'[e] = edit[e]
      PROVE  Answered'
  BY <1>1, <1>2, <1>3 DEF Answered, AcceptedBy
<1>4. ASSUME NEW e \in Editors, Written(e) PROVE Answered'
  <2>1. PICK q \in Quotes :
          /\ q = edit[e].quote
          /\ Writes(edit[e], quote[q], quote'[q])
          /\ \A p \in Quotes \ {q} : quote'[p] = quote[p]
          /\ edit'[e] = Unused
          /\ OthersWait(e)
    BY <1>4, WrittenRow DEF QuoteSide
  <2>2. edit[e].pc \in EditPhases \ {"idle", "priced"}
    BY <1>4, UnderWay DEF Written, Edits, QuoteSide
  <2>3. \A f \in Editors : edit'[f].pc = "accepting" => edit'[f] = edit[f]
    BY <2>1 DEF OthersWait, Unused
  <2>4. CASE edit[e].pc # "accepting"
    <3>1. quote'[q].status = "accepted" => quote[q].status = "accepted"
      BY <2>1, <2>2, <2>4 DEF Writes, EditPhases
    <3>. QED
      BY <1>3, <2>1, <2>3, <3>1
  <2>5. CASE edit[e].pc = "accepting"
    <3>1. edit[e].seen.current <= quote[q].current /\ edit[e].seen.current \in Nat
      BY <2>1, <2>5, UnderWay DEF QuoteSide, Answered, Knows
    <3>2. Answer(edit[e]) \in agreed'[q]
      BY <1>4, <2>1, <2>5 DEF Written, QuoteSide, Shape
    <3>3. Answer(edit[e]).version <= quote'[q].current
      BY <1>0, <3>1 DEF Answer
    <3>4. AcceptedBy(q, quote[q].current)'
      BY <3>2, <3>3 DEF AcceptedBy
    <3>5. \A p \in Quotes : quote'[p].status = "accepted" => AcceptedBy(p, quote[p].current)'
      BY <1>1, <2>1, <3>4
    <3>6. \A f \in Editors : edit'[f].pc = "accepting" =>
            edit'[f].seen.current <= quote'[edit'[f].quote].current
      BY <1>2, <2>3
    <3>. QED
      BY <3>5, <3>6 DEF Answered, AcceptedBy
  <2>. QED
    BY <2>4, <2>5
<1>5. ASSUME NEW e \in Editors, NEW q \in Quotes, BeginEdit(e, q) PROVE Answered'
  <2>1. /\ edit'[e].quote = q /\ Begun(edit'[e], quote[q])
        /\ UNCHANGED quote /\ OthersWait(e)
    BY <1>5, Begins DEF QuoteSide
  <2>2. ASSUME NEW f \in Editors, edit'[f].pc = "accepting"
        PROVE  edit'[f].seen.current <= quote'[edit'[f].quote].current
    <3>1. CASE f = e
      BY <1>0, <2>1, <2>2, <3>1 DEF Begun
    <3>2. CASE f # e
      BY <1>2, <2>1, <2>2, <3>2 DEF OthersWait
    <3>. QED
      BY <3>1, <3>2
  <2>. QED
    BY <1>1, <2>1, <2>2 DEF Answered, AcceptedBy
<1>6. ASSUME NEW q \in Quotes, NEW status \in StatusEdits, SetStatus(q, status) PROVE Answered'
  <2>1. UNCHANGED edit /\ (NotAcceptedByHand => status # "accepted")
    BY <1>6 DEF SetStatus, NotAcceptedByHand
  <2>2. NotAcceptedByHand => \A p \in Quotes : quote'[p].status = "accepted" => quote[p].status = "accepted"
    BY <1>6, <2>1, StatusSet DEF QuoteSide
  <2>3. CASE NotAcceptedByHand
    BY <1>3, <2>1, <2>2, <2>3
  <2>4. CASE ~NotAcceptedByHand
    BY <1>2, <2>1, <2>4 DEF Answered, AcceptedBy
  <2>. QED
    BY <2>3, <2>4
<1>7. ASSUME NEW e \in Editors, CommitEdit(e) PROVE Answered'
  <2>1. CASE FreezeIssue(e)
    BY <1>3, <2>1, Freezes DEF QuoteSide, OthersWait
  <2>. QED
    BY <1>4, <1>7, <2>1, Commits DEF QuoteSide
<1>8. ASSUME NEW e \in Editors, Fail(e) PROVE Answered'
  BY <1>3, <1>8 DEF Fail, QuoteSide, Shape, Unused
<1>9. ASSUME UNCHANGED <<quote, edit, agreed>> PROVE Answered'
  BY <1>3, <1>9
<1>. QED
  BY <1>5, <1>6, <1>7, <1>8, <1>9 DEF QuoteNext, PriceOptions, ChangePrices

-------------------------------------------------------------------------------
(***************************************************************************)
(* The booking: what a request and then a row carry of a sale              *)
(***************************************************************************)

\* The instalments of a schedule come to a total.
AddsUpTo(schedule, total) ==
  total = schedule[1].amount + (IF Len(schedule) = 2 THEN schedule[2].amount ELSE 0)

\* build loses no cent: whatever is not the deposit is the balance.
LEMMA BuildAddsUp ==
  ASSUME NEW total \in Nat, NEW pct \in Nat, NEW travelFrom, NEW daysBefore, NEW day
  PROVE  AddsUpTo(B!Build(total, pct, travelFrom, daysBefore, day), total)
<1>. DEFINE deposit == B!Deposit(total, pct)
            full == [dueOn |-> day, amount |-> total]
            first == [dueOn |-> day, amount |-> deposit]
            second == [dueOn |-> B!BalanceDay(travelFrom, daysBefore), amount |-> total - deposit]
            schedule == B!Build(total, pct, travelFrom, daysBefore, day)
<1>1. deposit \in Int
  <2>1. 2 * (total * pct) + 100 \in Int
    OBVIOUS
  <2>. QED
    BY <2>1 DEF B!Deposit, B!RoundHalfUp
<1>2. schedule = <<full>> \/ schedule = <<first, second>>
  BY DEF B!Build
<1>3. full.amount = total /\ first.amount = deposit /\ second.amount = total - deposit
  OBVIOUS
<1>. HIDE DEF deposit, full, first, second, schedule
<1>4. ASSUME schedule = <<full>> PROVE AddsUpTo(schedule, total)
  BY <1>3, <1>4 DEF AddsUpTo
<1>5. ASSUME schedule = <<first, second>> PROVE AddsUpTo(schedule, total)
  BY <1>1, <1>3, <1>5 DEF AddsUpTo
<1>. QED
  BY <1>2, <1>4, <1>5 DEF schedule

\* The terms of a sale stand on an acceptance of the quote and repeat the figure
\* of the version they name; the schedule comes to it.
Stands(q, terms, schedule) ==
  /\ q \in Quotes
  /\ terms.version \in DOMAIN versions[q]
  /\ AcceptedBy(q, terms.version)
  /\ terms.total = versions[q][terms.version].headline
  /\ AddsUpTo(schedule, terms.total)

BookingColumns == {"status", "quote", "terms", "schedule", "received"}
RequestColumns == {"pc", "quote", "terms", "schedule", "booking"}

Serving(s) == req[s].pc \in {"paying", "paid", "cancelling", "completing"}

\* Each row and request has its columns; a request on a booking has one there is.
BookingShape ==
  /\ DOMAIN booking = BookingIds /\ DOMAIN req = Sessions
  /\ \A b \in BookingIds : BookingColumns \subseteq DOMAIN booking[b]
  /\ \A s \in Sessions : RequestColumns \subseteq DOMAIN req[s]
  /\ \A s \in Sessions : Serving(s) => req[s].booking \in BookingIds /\ B!Exists(req[s].booking)

Sold ==
  /\ \A b \in Booked : Stands(booking[b].quote, booking[b].terms, booking[b].schedule)
  /\ \A s \in Sessions : B!Creating(s) => Stands(req[s].quote, req[s].terms, req[s].schedule)

SalesInv == QuoteSide /\ BookingShape /\ Sold

LEMMA InitSales == SalesInit => SalesInv
<1>1. B!BookingInit => BookingShape /\ Sold
  BY DEF B!BookingInit, B!NoBooking, B!Idle, B!Exists, B!Creating, BookingShape, Sold, Booked,
         Serving, BookingColumns, RequestColumns
<1>. QED
  BY <1>1, InitQuoteSide DEF SalesInit, SalesInv

\* What a step of a request on bookings may do to the sales in it.
SameSale(new, old) ==
  new.quote = old.quote /\ new.terms = old.terms /\ new.schedule = old.schedule

CarriesOn ==
  /\ \A s \in Sessions : B!Creating(s)' => B!Creating(s) /\ SameSale(req'[s], req[s])
  /\ \A b \in BookingIds : B!Exists(b)' =>
       \/ B!Exists(b) /\ SameSale(booking'[b], booking[b])
       \/ \E s \in Sessions : B!Creating(s) /\ SameSale(booking'[b], req[s])

\* A request that goes on, or ends with no booking written.
LEMMA RequestGoesOn ==
  ASSUME BookingShape, NEW s \in Sessions, NEW r, RequestColumns \subseteq DOMAIN r,
         UNCHANGED booking, req' = [req EXCEPT ![s] = r],
         r.pc \in {"numbering", "inserting", "numbered"} => B!Creating(s) /\ SameSale(r, req[s]),
         r.pc \in {"paying", "paid", "cancelling", "completing"} =>
           r.booking \in BookingIds /\ B!Exists(r.booking)
  PROVE  BookingShape' /\ CarriesOn
BY DEF BookingShape, CarriesOn, B!Exists, B!Creating, Serving, SameSale

LEMMA IdleGoesNowhere == /\ RequestColumns \subseteq DOMAIN B!Idle
                         /\ B!Idle.pc = "idle"
BY DEF RequestColumns, B!Idle

\* A request that ends with a booking written.
LEMMA RequestWrites ==
  ASSUME BookingShape, NEW s \in Sessions, NEW b \in BookingIds, NEW row,
         BookingColumns \subseteq DOMAIN row, row.status # "absent",
         booking' = [booking EXCEPT ![b] = row], req' = [req EXCEPT ![s] = B!Idle],
         \/ B!Exists(b) /\ SameSale(row, booking[b])
         \/ B!Creating(s) /\ SameSale(row, req[s])
  PROVE  BookingShape' /\ CarriesOn
BY IdleGoesNowhere DEF BookingShape, CarriesOn, B!Exists, B!Creating, Serving, SameSale

LEMMA ServingCarriesOn ==
  ASSUME BookingShape, NEW s \in Sessions,
         (\E b \in BookingIds : B!BeginWork(s, b)) \/ B!Step(s) \/ B!Crash(s)
  PROVE  BookingShape' /\ CarriesOn
<1>. DEFINE Goal == BookingShape' /\ CarriesOn
<1>0. RequestColumns \subseteq DOMAIN req[s]
  BY DEF BookingShape
<1>1. ASSUME NEW r, UNCHANGED booking, req' = [req EXCEPT ![s] = r], RequestColumns \subseteq DOMAIN r,
             r.pc \in {"numbering", "inserting", "numbered"} => B!Creating(s) /\ SameSale(r, req[s]),
             r.pc \in {"paying", "paid", "cancelling", "completing"} =>
               r.booking \in BookingIds /\ B!Exists(r.booking)
      PROVE  Goal
  BY <1>1, RequestGoesOn
<1>2. ASSUME UNCHANGED booking, req' = [req EXCEPT ![s] = B!Idle] PROVE Goal
  BY <1>1, <1>2, IdleGoesNowhere
<1>3. ASSUME NEW b \in BookingIds, B!Exists(b), UNCHANGED booking,
             NEW r, req' = [req EXCEPT ![s] = r], RequestColumns \subseteq DOMAIN r,
             r.pc \in {"paying", "cancelling", "completing"}, r.booking = b
      PROVE  Goal
  BY <1>1, <1>3
<1>4. ASSUME NEW b \in BookingIds, B!BeginWork(s, b) PROVE Goal
  <2>1. ASSUME NEW amount, B!BeginPayment(s, b, amount) PROVE Goal
    <3>. DEFINE r == [B!Idle EXCEPT !.pc = "paying", !.booking = b, !.amount = amount]
    <3>1. r.pc = "paying" /\ r.booking = b /\ RequestColumns \subseteq DOMAIN r
      BY DEF B!Idle, RequestColumns
    <3>2. UNCHANGED booking /\ B!Exists(b) /\ req' = [req EXCEPT ![s] = r]
      BY <2>1 DEF B!BeginPayment, B!Payable
    <3>. HIDE DEF r
    <3>. QED
      BY <1>3, <3>1, <3>2
  <2>2. ASSUME NEW phase \in {"cancelling", "completing"}, UNCHANGED booking, B!Active(b),
               req' = [req EXCEPT ![s] = [B!Idle EXCEPT !.pc = phase, !.booking = b]]
        PROVE  Goal
    <3>. DEFINE r == [B!Idle EXCEPT !.pc = phase, !.booking = b]
    <3>1. r.pc = phase /\ r.booking = b /\ RequestColumns \subseteq DOMAIN r
      BY DEF B!Idle, RequestColumns
    <3>2. UNCHANGED booking /\ B!Exists(b) /\ req' = [req EXCEPT ![s] = r]
      BY <2>2 DEF B!Active, B!ACTIVE_STATUSES, B!Exists
    <3>. HIDE DEF r
    <3>. QED
      BY <1>3, <3>1, <3>2
  <2>3. CASE B!BeginCancel(s, b)
    BY <2>2, <2>3 DEF B!BeginCancel, B!Cancellable
  <2>4. CASE B!BeginComplete(s, b)
    BY <2>2, <2>4 DEF B!BeginComplete
  <2>. QED
    BY <1>4, <2>1, <2>3, <2>4 DEF B!BeginWork
<1>5. CASE B!MissCounter(s) \/ B!LockCounter(s)
  <2>1. CASE B!MissCounter(s)
    <3>. DEFINE r == [req[s] EXCEPT !.pc = "inserting"]
    <3>1. r.pc = "inserting" /\ SameSale(r, req[s]) /\ RequestColumns \subseteq DOMAIN r
      BY <1>0 DEF RequestColumns, SameSale
    <3>2. /\ UNCHANGED booking /\ req' = [req EXCEPT ![s] = r] /\ B!Creating(s)
      BY <2>1 DEF B!MissCounter, B!Creating
    <3>. HIDE DEF r
    <3>. QED
      BY <1>1, <3>1, <3>2
  <2>2. CASE B!LockCounter(s)
    <3>. DEFINE r == [req[s] EXCEPT !.pc = "numbered", !.number = counter[req[s].year] + 1]
    <3>1. r.pc = "numbered" /\ SameSale(r, req[s]) /\ RequestColumns \subseteq DOMAIN r
      BY <1>0 DEF RequestColumns, SameSale
    <3>2. /\ UNCHANGED booking /\ req' = [req EXCEPT ![s] = r] /\ B!Creating(s)
      BY <2>2 DEF B!LockCounter, B!Creating, BookingShape
    <3>. HIDE DEF r
    <3>. QED
      BY <1>1, <3>1, <3>2
  <2>. QED
    BY <1>5, <2>1, <2>2
<1>6. CASE B!WeighPayment(s)
  <2>1. PICK confirms :
          req' = [req EXCEPT ![s].pc = "paid", ![s].confirms = confirms]
    BY <1>6 DEF B!WeighPayment
  <2>. DEFINE r == [req[s] EXCEPT !.pc = "paid", !.confirms = confirms]
  <2>2. r.pc = "paid" /\ r.booking = req[s].booking /\ RequestColumns \subseteq DOMAIN r
    BY <1>0 DEF RequestColumns
  <2>3. UNCHANGED booking /\ Serving(s) /\ req' = [req EXCEPT ![s] = r]
    BY <1>6, <2>1 DEF B!WeighPayment, Serving, BookingShape
  <2>. HIDE DEF r
  <2>. QED
    BY <1>1, <2>2, <2>3 DEF BookingShape
<1>7. CASE B!Refuse(s) \/ B!Crash(s)
  BY <1>2, <1>7 DEF B!Refuse, B!Crash, B!RollBack
<1>8. ASSUME NEW b \in BookingIds, B!CommitCreate(s, b) PROVE Goal
  <2>. DEFINE row == [status |-> "provisional", quote |-> req[s].quote, terms |-> req[s].terms,
                      schedule |-> req[s].schedule, year |-> req[s].year,
                      number |-> req[s].number, received |-> 0]
  <2>1. row.status # "absent" /\ SameSale(row, req[s]) /\ BookingColumns \subseteq DOMAIN row
    BY DEF SameSale, BookingColumns
  <2>2. /\ booking' = [booking EXCEPT ![b] = row] /\ req' = [req EXCEPT ![s] = B!Idle]
        /\ B!Creating(s)
    BY <1>8 DEF B!CommitCreate, B!Creating
  <2>. HIDE DEF row
  <2>. QED
    BY <2>1, <2>2, RequestWrites
<1>9. CASE B!CommitPayment(s) \/ B!CommitCancel(s) \/ B!CommitComplete(s)
  <2>1. PICK b : b = req[s].booking
    OBVIOUS
  <2>2. Serving(s)
    BY <1>9 DEF Serving, B!CommitPayment, B!CommitCancel, B!CommitComplete
  <2>3. b \in BookingIds /\ B!Exists(b) /\ BookingColumns \subseteq DOMAIN booking[b]
    BY <2>1, <2>2 DEF BookingShape
  <2>4. ASSUME NEW row, booking' = [booking EXCEPT ![b] = row], row.status # "absent",
               SameSale(row, booking[b]), BookingColumns \subseteq DOMAIN row
        PROVE  Goal
    BY <1>9, <2>3, <2>4, RequestWrites DEF B!CommitPayment, B!CommitCancel, B!CommitComplete
  <2>5. CASE B!CommitPayment(s)
    <3>. DEFINE row == B!Paid(booking[b], req[s])
    <3>1. row.status # "absent" /\ SameSale(row, booking[b]) /\ BookingColumns \subseteq DOMAIN row
      BY <2>3 DEF B!Paid, B!Exists, SameSale, BookingColumns
    <3>2. booking' = [booking EXCEPT ![b] = row]
      BY <2>1, <2>5 DEF B!CommitPayment
    <3>. HIDE DEF row
    <3>. QED
      BY <2>4, <3>1, <3>2
  <2>6. ASSUME NEW status \in {"cancelled", "completed"},
               booking' = [booking EXCEPT ![b].status = status]
        PROVE  Goal
    <3>. DEFINE row == [booking[b] EXCEPT !.status = status]
    <3>1. row.status # "absent" /\ SameSale(row, booking[b]) /\ BookingColumns \subseteq DOMAIN row
      BY <2>3 DEF SameSale, BookingColumns
    <3>2. booking' = [booking EXCEPT ![b] = row]
      BY <2>6
    <3>. HIDE DEF row
    <3>. QED
      BY <2>4, <3>1, <3>2
  <2>. QED
    BY <1>9, <2>1, <2>5, <2>6 DEF B!CommitCancel, B!CommitComplete
<1>. QED
  BY <1>4, <1>5, <1>6, <1>7, <1>8, <1>9 DEF B!Step

\* What is sold stays sold on the terms it was: versions and acceptances last.
LEMMA QuoteKeepsSales ==
  ASSUME QuoteSide, UNCHANGED today, QuoteNext, NEW q, NEW terms, NEW schedule,
         Stands(q, terms, schedule)
  PROVE  Stands(q, terms, schedule)'
<1>1. q \in Quotes /\ terms.version \in DOMAIN versions[q] /\ terms.version \in Int
  BY DEF Stands, QuoteSide, Shape
<1>2. terms.version \in DOMAIN versions'[q] /\ versions'[q][terms.version] = versions[q][terms.version]
  BY <1>1, VersionsLast DEF QuoteSide
<1>3. AcceptedBy(q, terms.version)'
  <2>1. PICK version \in Int : version = terms.version
    BY <1>1
  <2>2. AcceptedBy(q, version)
    BY <2>1 DEF Stands
  <2>. QED
    BY <1>1, <2>1, <2>2, AcceptanceLasts DEF QuoteSide, AcceptedBy
<1>. QED
  BY <1>1, <1>2, <1>3 DEF Stands, AcceptedBy

\* A request begins a sale: the quote is accepted, and the version it points at
\* is on record.
LEMMA SaleBegins ==
  ASSUME SalesInv, NEW s \in Sessions, NEW q \in Quotes, BookQuote(s, q), UNCHANGED quoteVars
  PROVE  BookingShape' /\ Sold'
<1>. DEFINE terms == TermsOf(q)
            schedule == B!Build(terms.total, DepositPct, terms.arrival, BalanceDays, today)
            current == quote[q].current
<1>1. versions[q] \in Seq(Versions) /\ current \in Nat /\ current = Len(versions[q])
  BY DEF SalesInv, QuoteSide, Shape, CurrentIsNewest, SoundRows, QuoteRows
<1>2. current # 0 /\ AcceptedBy(q, current)
  BY DEF BookQuote, SalesInv, QuoteSide, Answered
<1>3. current \in DOMAIN versions[q] /\ versions[q][current] \in Versions
  BY <1>1, <1>2
<1>4. terms.version = current /\ terms.total = versions[q][current].headline /\ terms.total \in Nat
  BY <1>3 DEF TermsOf, Versions
<1>5. Stands(q, terms, schedule)
  <2>1. DepositPct \in Nat
    BY SalesAssumption
  <2>2. AddsUpTo(schedule, terms.total)
    BY <1>4, <2>1, BuildAddsUp
  <2>. QED
    BY <1>2, <1>3, <1>4, <2>2 DEF Stands
<1>. DEFINE r == [B!Idle EXCEPT !.pc = "numbering", !.quote = q, !.terms = terms,
                                !.schedule = schedule, !.year = B!YearOf(today)]
<1>6. /\ r.pc = "numbering" /\ r.quote = q /\ r.terms = terms /\ r.schedule = schedule
      /\ RequestColumns \subseteq DOMAIN r
  BY DEF B!Idle, RequestColumns
<1>7. UNCHANGED booking /\ req' = [req EXCEPT ![s] = r]
  BY DEF BookQuote, B!BeginCreate
<1>. HIDE DEF r, terms, schedule
<1>8. \A t \in Sessions : req'[t] = IF t = s THEN r ELSE req[t]
  BY <1>7 DEF SalesInv, BookingShape
<1>9. BookingShape'
  BY <1>6, <1>7, <1>8 DEF SalesInv, BookingShape, Serving, B!Exists
<1>10. Sold'
  <2>1. ASSUME NEW t \in Sessions, B!Creating(t)'
        PROVE  Stands(req'[t].quote, req'[t].terms, req'[t].schedule)
    BY <1>5, <1>6, <1>8, <2>1 DEF SalesInv, Sold, B!Creating
  <2>2. ASSUME NEW b \in BookingIds, B!Exists(b)'
        PROVE  Stands(booking'[b].quote, booking'[b].terms, booking'[b].schedule)
    BY <1>7, <2>2 DEF SalesInv, Sold, Booked, B!Exists
  <2>. QED
    BY <2>1, <2>2 DEF Sold, Booked, Stands, AcceptedBy, quoteVars
<1>. QED
  BY <1>9, <1>10

LEMMA SalesStep ==
  ASSUME SalesInv, [SalesNext]_salesVars
  PROVE  SalesInv'
<1>1. ASSUME UNCHANGED quoteVars, [Next]_vars PROVE QuoteSide'
  BY <1>1, NextShape, NextCurrent DEF SalesInv, QuoteSide, Answered, AcceptedBy, quoteVars
<1>2. ASSUME UNCHANGED bookings, \A q, terms, schedule :
                                   Stands(q, terms, schedule) => Stands(q, terms, schedule)'
      PROVE  BookingShape' /\ Sold'
  <2>1. BookingShape'
    BY <1>2 DEF bookings, SalesInv, BookingShape, Serving, B!Exists
  <2>2. ASSUME NEW s \in Sessions, B!Creating(s)'
        PROVE  Stands(req[s].quote, req[s].terms, req[s].schedule)'
    <3>1. Stands(req[s].quote, req[s].terms, req[s].schedule) /\ req'[s] = req[s]
      BY <1>2, <2>2 DEF bookings, SalesInv, Sold, B!Creating
    <3>2. PICK q, terms, schedule : q = req[s].quote /\ terms = req[s].terms /\ schedule = req[s].schedule
      OBVIOUS
    <3>3. Stands(q, terms, schedule)'
      BY <1>2, <3>1, <3>2
    <3>. QED
      BY <3>1, <3>2, <3>3 DEF Stands, AcceptedBy
  <2>3. ASSUME NEW b \in BookingIds, B!Exists(b)'
        PROVE  Stands(booking[b].quote, booking[b].terms, booking[b].schedule)'
    <3>1. Stands(booking[b].quote, booking[b].terms, booking[b].schedule) /\ booking'[b] = booking[b]
      BY <1>2, <2>3 DEF bookings, SalesInv, Sold, Booked, B!Exists
    <3>2. PICK q, terms, schedule :
            q = booking[b].quote /\ terms = booking[b].terms /\ schedule = booking[b].schedule
      OBVIOUS
    <3>3. Stands(q, terms, schedule)'
      BY <1>2, <3>1, <3>2
    <3>. QED
      BY <3>1, <3>2, <3>3 DEF Stands, AcceptedBy
  <2>. QED
    BY <2>1, <2>2, <2>3 DEF Sold, Booked
<1>3. ASSUME UNCHANGED quoteVars
      PROVE  \A q, terms, schedule : Stands(q, terms, schedule) => Stands(q, terms, schedule)'
  BY <1>3 DEF quoteVars, Stands, AcceptedBy
<1>4. CASE UNCHANGED salesVars
  BY <1>1, <1>2, <1>3, <1>4 DEF salesVars, vars, SalesInv
<1>5. CASE UNCHANGED <<quoteVars, bookings>> /\ Tick
  BY <1>1, <1>2, <1>3, <1>5 DEF Next, SalesInv
<1>6. CASE UNCHANGED <<today, bookings>> /\ QuoteNext
  <2>1. QuoteSide'
    BY <1>6, QuoteNextShape, NextCurrent, AnsweredStep DEF SalesInv, QuoteSide, Next
  <2>2. \A q, terms, schedule : Stands(q, terms, schedule) => Stands(q, terms, schedule)'
    BY <1>6, QuoteKeepsSales DEF SalesInv
  <2>. QED
    BY <1>2, <1>6, <2>1, <2>2 DEF SalesInv
<1>7. ASSUME UNCHANGED <<today, quoteVars>>, NEW s \in Sessions, SellStep(s) PROVE SalesInv'
  <2>1. QuoteSide'
    BY <1>1, <1>7 DEF vars
  <2>2. CASE \E q \in Quotes : BookQuote(s, q)
    BY <1>7, <2>1, <2>2, SaleBegins DEF SalesInv
  <2>3. CASE ~\E q \in Quotes : BookQuote(s, q)
    <3>1. BookingShape' /\ CarriesOn
      BY <1>7, <2>3, ServingCarriesOn DEF SellStep, SalesInv
    <3>2. ASSUME NEW t \in Sessions, B!Creating(t)'
          PROVE  Stands(req'[t].quote, req'[t].terms, req'[t].schedule)
      BY <3>1, <3>2 DEF CarriesOn, SameSale, SalesInv, Sold
    <3>3. ASSUME NEW b \in BookingIds, B!Exists(b)'
          PROVE  Stands(booking'[b].quote, booking'[b].terms, booking'[b].schedule)
      BY <3>1, <3>3 DEF CarriesOn, SameSale, SalesInv, Sold, Booked
    <3>4. Sold'
      BY <1>7, <3>2, <3>3 DEF Sold, Booked, Stands, AcceptedBy, quoteVars
    <3>. QED
      BY <2>1, <3>1, <3>4 DEF SalesInv
  <2>. QED
    BY <2>2, <2>3
<1>. QED
  BY <1>4, <1>5, <1>6, <1>7 DEF SalesNext

LEMMA SalesHold == SalesSpec => []SalesInv
<1>1. SalesInv /\ [SalesNext]_salesVars => SalesInv'
  BY SalesStep
<1>. QED
  BY InitSales, <1>1, PTL DEF SalesSpec

\* Every booking stands on an acceptance of its quote, of the version it invoices
\* or of an earlier one: for any number of requests that edit, issue, accept and
\* book at once, while nobody sets "accepted" by hand.
THEOREM BookedOnAcceptance ==
  ASSUME NotAcceptedByHand
  PROVE  SalesSpec => []BookedWasAccepted
<1>1. SalesInv => BookedWasAccepted
  BY DEF SalesInv, Sold, Stands, AcceptedBy, BookedWasAccepted
<1>. QED
  BY SalesHold, <1>1, PTL

\* A booking invoices the figure of the version it names, and its instalments
\* come to it to the cent, whatever is issued, repriced or set by hand afterwards.
THEOREM BookedFiguresLast == SalesSpec => []BookedFigureIsFrozen
<1>1. SalesInv => BookedFigureIsFrozen
  BY DEF SalesInv, Sold, Stands, AddsUpTo, BookedFigureIsFrozen, VersionOf
<1>. QED
  BY SalesHold, <1>1, PTL

-------------------------------------------------------------------------------
(***************************************************************************)
(* Each half is what its own module says it is                             *)
(***************************************************************************)

\* Quotes that are booked are the quotes of Quoting: what is proved of those
\* holds of these.
THEOREM SalesQuotes == SalesSpec => Spec
<1>1. SalesInit => Init
  BY DEF SalesInit
<1>2. [SalesNext]_salesVars => [Next]_vars
  BY DEF SalesNext, Next, salesVars, vars
<1>. QED
  BY <1>1, <1>2, PTL DEF SalesSpec, Spec

\* What a request is about to write in a version is a figure somebody priced.
Figured(r) ==
  /\ r.pc = "priced" =>
       \A o \in DOMAIN r.version.prices : r.version.prices[o] \in Figures
  /\ r.pc \in {"frozen", "repriced"} => r.version.headline \in Figures

FiguresInv ==
  /\ \A q \in Quotes : \A n \in DOMAIN versions[q] : versions[q][n].headline \in Figures
  /\ \A e \in Editors : Figured(edit[e])

LEMMA InitFigures == Init => FiguresInv
BY InitQuotes DEF FiguresInv, Figured

LEMMA FiguresBegin ==
  ASSUME Shape, NEW e \in Editors, NEW q \in Quotes, BeginEdit(e, q)
  PROVE  Figured(edit'[e])
<1>1. ASSUME NEW columns, NEW request, Load(e, q, columns, request),
             {"pc", "version"} \subseteq DOMAIN request, Figured(request)
      PROVE  Figured(edit'[e])
  <2>. DEFINE loaded == [request EXCEPT !.quote = q, !.seen = Restrict(quote[q], columns)]
  <2>1. loaded.pc = request.pc /\ loaded.version = request.version
    BY <1>1
  <2>2. edit'[e] = loaded
    BY <1>1 DEF Load, Shape
  <2>. HIDE DEF loaded
  <2>. QED
    BY <1>1, <2>1, <2>2 DEF Figured
<1>2. CASE BeginIssue(e, q)
  <2>. DEFINE offered == Priced(q)
              prices == [o \in offered |-> price[o]]
              request == [Unused EXCEPT !.pc = "priced", !.version.prices = prices]
  <2>1. \A o \in DOMAIN prices : prices[o] \in Figures
    <3>1. price \in Tables /\ offered \subseteq Options /\ \A o \in offered : price[o] # None
      BY DEF Shape, SoundRows, QuoteRows, Priced
    <3>. HIDE DEF offered
    <3>. QED
      BY <3>1 DEF Figures
  <2>. HIDE DEF offered, prices
  <2>2. request.pc = "priced" /\ request.version.prices = prices
        /\ {"pc", "version"} \subseteq DOMAIN request
    BY DEF Unused, NoVersion
  <2>3. Load(e, q, {"status", "validUntil"}, request)
    BY <1>2 DEF BeginIssue, prices, offered
  <2>. HIDE DEF request
  <2>. QED
    BY <1>1, <2>1, <2>2, <2>3 DEF Figured
<1>3. ASSUME NEW p \in Itineraries, BeginReprice(e, q, p) PROVE Figured(edit'[e])
  <2>. DEFINE number == Len(versions[q]) + 1
              request == [Unused EXCEPT !.pc = "repriced", !.number = number,
                                        !.version.headline = p]
  <2>1. request.pc = "repriced" /\ request.version.headline = p
        /\ {"pc", "version"} \subseteq DOMAIN request
    BY DEF Unused, NoVersion
  <2>2. Load(e, q, {}, request)
    BY <1>3 DEF BeginReprice
  <2>. HIDE DEF request
  <2>. QED
    BY <1>1, <2>1, <2>2 DEF Figured, Figures
<1>4. ASSUME NEW columns, NEW phase \in {"option", "selecting", "accepting", "declining"},
             NEW o, NEW change,
             Load(e, q, columns,
                  [Unused EXCEPT !.pc = phase, !.option = o, !.change = change])
      PROVE  Figured(edit'[e])
  <2>. DEFINE request == [Unused EXCEPT !.pc = phase, !.option = o, !.change = change]
  <2>1. request.pc = phase /\ {"pc", "version"} \subseteq DOMAIN request
    BY DEF Unused
  <2>. HIDE DEF request
  <2>. QED
    BY <1>1, <1>4, <2>1 DEF Figured, request
<1>5. ASSUME NEW o \in Options, NEW change \in Changes, BeginOption(e, q, o, change)
      PROVE  Figured(edit'[e])
  BY <1>4, <1>5 DEF BeginOption
<1>6. ASSUME NEW columns, NEW phase \in {"option", "selecting", "accepting", "declining"}, NEW o,
             Load(e, q, columns, [Unused EXCEPT !.pc = phase, !.option = o])
      PROVE  Figured(edit'[e])
  <2>. DEFINE request == [Unused EXCEPT !.pc = phase, !.option = o]
  <2>1. request.pc = phase /\ {"pc", "version"} \subseteq DOMAIN request
    BY DEF Unused
  <2>. HIDE DEF request
  <2>. QED
    BY <1>1, <1>6, <2>1 DEF Figured, request
<1>7. CASE BeginDecline(e, q)
  <2>. DEFINE request == [Unused EXCEPT !.pc = "declining"]
  <2>1. request.pc = "declining" /\ {"pc", "version"} \subseteq DOMAIN request
    BY DEF Unused
  <2>2. Load(e, q, {}, request)
    BY <1>7 DEF BeginDecline
  <2>. HIDE DEF request
  <2>. QED
    BY <1>1, <2>1, <2>2 DEF Figured
<1>8. ASSUME NEW o \in Options, BeginSelect(e, q, o) PROVE Figured(edit'[e])
  BY <1>6, <1>8 DEF BeginSelect
<1>9. ASSUME NEW given, BeginAccept(e, q, given) PROVE Figured(edit'[e])
  BY <1>6, <1>9 DEF BeginAccept
<1>. QED
  BY <1>2, <1>3, <1>5, <1>7, <1>8, <1>9 DEF BeginEdit

LEMMA FiguresFreeze ==
  ASSUME Shape, FiguresInv, NEW e \in Editors, FreezeIssue(e)
  PROVE  Figured(edit'[e])
<1>. DEFINE prices == edit[e].version.prices
            short == refused[edit[e].quote]
<1>1. PICK o \in DOMAIN prices :
        edit' = [edit EXCEPT ![e].pc = "frozen",
                             ![e].number = Len(versions[edit[e].quote]) + 1,
                             ![e].version = Frozen(prices, short, o)]
  BY DEF FreezeIssue
<1>2. edit[e].pc = "priced" /\ edit[e] \in Edits
  BY UnderWay DEF FreezeIssue
<1>3. prices[o] \in Figures
  BY <1>2 DEF FiguresInv, Figured
<1>. HIDE DEF prices
<1>4. Frozen(prices, short, o).headline \in Figures
  BY <1>3 DEF Frozen
<1>5. edit'[e].pc = "frozen" /\ edit'[e].version = Frozen(prices, short, o)
  BY <1>1, <1>2 DEF Shape, Edits
<1>. QED
  BY <1>4, <1>5 DEF Figured

LEMMA FiguresStep ==
  ASSUME Shape, FiguresInv, UNCHANGED today, QuoteNext
  PROVE  FiguresInv'
<1>1. ASSUME NEW e \in Editors, Written(e) PROVE FiguresInv'
  <2>1. edit'[e] = Unused /\ OthersWait(e)
    BY <1>1, WrittenRow
  <2>2. \A f \in Editors : Figured(edit'[f])
    BY <2>1 DEF OthersWait, FiguresInv, Figured, Unused
  <2>3. edit[e].quote \in Quotes /\ edit[e].version \in Versions /\ versions \in [Quotes -> Seq(Versions)]
    BY <1>1, UnderWay DEF Written, Edits, Shape
  <2>4. CASE edit[e].pc \in {"frozen", "repriced"}
    <3>. DEFINE q == edit[e].quote
                version == edit[e].version
    <3>1. versions' = [versions EXCEPT ![q] = Append(@, version)] /\ version.headline \in Figures
      BY <1>1, <2>4 DEF Written, AppendVersion, FiguresInv, Figured
    <3>. HIDE DEF q, version
    <3>2. \A p \in Quotes : versions'[p] = IF p = q THEN Append(versions[q], version) ELSE versions[p]
      BY <2>3, <3>1
    <3>3. \A n \in DOMAIN Append(versions[q], version) :
            \/ Append(versions[q], version)[n] = version
            \/ n \in DOMAIN versions[q] /\ Append(versions[q], version)[n] = versions[q][n]
      BY <2>3 DEF q, version
    <3>4. \A p \in Quotes : \A n \in DOMAIN versions'[p] : versions'[p][n].headline \in Figures
      BY <3>1, <3>2, <3>3 DEF FiguresInv
    <3>. QED
      BY <2>2, <3>4 DEF FiguresInv
  <2>5. CASE edit[e].pc \notin {"frozen", "repriced"}
    BY <1>1, <2>2, <2>5 DEF Written, FiguresInv
  <2>. QED
    BY <2>4, <2>5
<1>2. ASSUME NEW e \in Editors, Figured(edit'[e]), OthersWait(e), UNCHANGED versions
      PROVE  FiguresInv'
  BY <1>2 DEF FiguresInv, OthersWait
<1>3. ASSUME NEW e \in Editors, NEW q \in Quotes, BeginEdit(e, q) PROVE FiguresInv'
  BY <1>2, <1>3, Begins, FiguresBegin
<1>4. ASSUME NEW e \in Editors, CommitEdit(e) PROVE FiguresInv'
  BY <1>1, <1>2, <1>4, Freezes, Commits, FiguresFreeze
<1>5. ASSUME NEW e \in Editors, Fail(e) PROVE FiguresInv'
  <2>1. edit'[e] = Unused /\ OthersWait(e) /\ UNCHANGED versions
    BY <1>5 DEF Fail, Shape, OthersWait
  <2>. QED
    BY <1>2, <2>1 DEF Figured, Unused
<1>6. ASSUME UNCHANGED <<versions, edit>> PROVE FiguresInv'
  BY <1>6 DEF FiguresInv
<1>. QED
  BY <1>3, <1>4, <1>5, <1>6 DEF QuoteNext, PriceOptions, SetStatus, ChangePrices

\* Bookings of quotes are the bookings of Bookings, whose requests book terms
\* out of nowhere: what a request copies from a quote is among those terms, and
\* so what is proved of any terms holds of a quote's.
THEOREM SalesBookings == SalesSpec => B!Spec
<1>1. SalesInit => B!Init
  BY DEF SalesInit, Init, B!Init
<1>2. SalesInv /\ FiguresInv /\ [SalesNext]_salesVars => [B!Next]_(B!vars)
  <2>. SUFFICES ASSUME SalesInv, FiguresInv, [SalesNext]_salesVars PROVE [B!Next]_(B!vars)
    OBVIOUS
  <2>1. ASSUME NEW q \in Quotes, quote[q].status = "accepted", quote[q].current # 0
        PROVE  TermsOf(q) \in Bookable
    <3>. DEFINE current == quote[q].current
    <3>1. versions[q] \in Seq(Versions) /\ current \in Nat /\ current = Len(versions[q])
          /\ quote[q].selected \in Options \cup {None}
      BY DEF SalesInv, QuoteSide, Shape, CurrentIsNewest, SoundRows, QuoteRows
    <3>2. current \in DOMAIN versions[q]
      BY <2>1, <3>1
    <3>3. versions[q][current].headline \in Figures
      BY <3>2 DEF FiguresInv
    <3>. QED
      BY <3>1, <3>3 DEF TermsOf, Bookable
  <2>2. ASSUME UNCHANGED today, NEW s \in Sessions, SellStep(s) PROVE B!Next
    <3>1. CASE \E q \in Quotes : BookQuote(s, q)
      BY <2>1, <2>2, <3>1 DEF BookQuote, B!Next, B!BookingNext, B!Begin
    <3>2. CASE ~\E q \in Quotes : BookQuote(s, q)
      BY <2>2, <3>2 DEF SellStep, B!Next, B!BookingNext, B!Begin
    <3>. QED
      BY <3>1, <3>2
  <2>3. CASE UNCHANGED bookings /\ Tick
    BY <2>3 DEF bookings, B!Next, B!bookingVars, Tick, B!Tick
  <2>4. CASE UNCHANGED <<today, bookings>>
    BY <2>4 DEF bookings, B!vars, B!bookingVars
  <2>. QED
    BY <2>2, <2>3, <2>4 DEF SalesNext, salesVars
<1>3. FiguresInv /\ Shape /\ [Next]_vars => FiguresInv'
  <2>1. FiguresInv /\ UNCHANGED quoteVars => FiguresInv'
    BY DEF FiguresInv, quoteVars
  <2>. QED
    BY <2>1, FiguresStep DEF Next, vars
<1>4. Spec => []FiguresInv
  BY InitFigures, ShapeHolds, <1>3, PTL DEF Spec
<1>. QED
  BY <1>1, <1>2, <1>4, SalesQuotes, SalesHold, PTL DEF SalesSpec, B!Spec

==============================================================================
